CONSTANTS
  o1 = o1
  v1 = v1
  v2 = v2
  p1 = p1
  Objects = {o1}
  Versions = {v1, v2}
  Presets = {p1}
  Budgets = {3, 4}
  InitialBudget = 4
  SnapshotBytes = 1
  EntryBytes = 0
  ArchiveBytes = 1
  Floors = {{}}
  MaxTimestamp = 4
  MaxDepth = 1
  FirstSessionId = 1
  MaxSessionId = 2
SPECIFICATION Spec
SYMMETRY Symmetry
INVARIANTS RestoresWhatWasCommitted EntriesNavigable CleanMeansSaved SessionConfined
PROPERTIES NavigationReversible NoEffectCloseKeepsRedo ImplementsUndoStack
CHECK_DEADLOCK FALSE
