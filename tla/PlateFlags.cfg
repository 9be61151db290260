\* A printable flag that changes, a slice, and the Undo of the change.
SPECIFICATION Spec
CONSTANTS
  Plates = {p}
  Contents = {a}
  Flags = {f, g}
  MaxStamps = 2
  MaxTasks = 1
  MaxIncarnations = 1
  MaxRetained = 3
SYMMETRY Symmetry
INVARIANT PublishedFlagsAreCurrent
CHECK_DEADLOCK FALSE
