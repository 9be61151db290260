\* Two plates and a slice: edits of one or both, deletion and the way back as a new
\* registry entry, Undo, failed restores, and transactions.
SPECIFICATION Spec
CONSTANTS
  Plates = {p, q}
  Contents = {a, b}
  Flags = {f}
  MaxStamps = 2
  MaxTasks = 1
  MaxIncarnations = 2
  MaxRetained = 2
SYMMETRY Symmetry
INVARIANTS PublishedIsCurrent RegistryConsistent
CHECK_DEADLOCK FALSE
