\* A download with another file in its way, two runs of the application that may
\* overlap, and two crashes or failing calls anywhere.
SPECIFICATION FairSpec
CONSTANTS
  Downloads = {d}
  MaxSessions = 2
  Names = 2
  Length = 1
  MaxFaults = 2
  MaxForeign = 1
INVARIANTS OutputIsTracked ResultIsHonest RecoveryIsHonest
PROPERTY StopsWhenTold
CHECK_DEADLOCK FALSE
