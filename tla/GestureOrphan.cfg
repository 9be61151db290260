\* Only edits and drags.
SPECIFICATION Spec
CONSTANTS
  Entities = {a, b}
  Commands = {"edit"}
  Gestures = {g, h}
  MaxQueue = 1
  MaxRevision = 2
INVARIANT DragsSettle
CHECK_DEADLOCK FALSE
