\* One plate sliced three times, so that a retained request is replaced, with contents
\* that a restore compares and flags that it does not look at.
SPECIFICATION FairSpec
CONSTANTS
  Plates = {p}
  Contents = {a, b}
  Flags = {f, g}
  MaxStamps = 2
  MaxTasks = 3
  MaxIncarnations = 1
  MaxRetained = 2
INVARIANTS ReceiptsStayTrue AnsweredOnce
PROPERTY EveryRequestAnswered
CHECK_DEADLOCK FALSE
