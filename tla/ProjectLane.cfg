\* Every command, two drags under way, two objects.
SPECIFICATION Spec
SYMMETRY Interchangeable
CONSTANTS
  Entities = {a, b}
  Commands = {"edit", "add", "boolean", "restore", "save", "reset", "read", "arrange"}
  Gestures = {g, h}
  MaxQueue = 1
  MaxRevision = 2
INVARIANTS  RestoringIsHonest StatusInStep DragsConsistent ExclusiveIsAlone LeasesBalance
CHECK_DEADLOCK FALSE
