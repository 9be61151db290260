\* Two plates, two slices, every kind of edit.
SPECIFICATION Spec
SYMMETRY Interchangeable
CONSTANTS
  Plates = {p, q}
  Kinds = {"objects", "add", "plates", "tower", "settings", "restore", "clear"}
  MaxStamp = 2
  MaxSlices = 2
INVARIANTS  StoresConsistent
PROPERTY CancelReachesItsJob
CHECK_DEADLOCK FALSE
