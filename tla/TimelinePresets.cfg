CONSTANTS
  o1 = o1
  v1 = v1
  v2 = v2
  p1 = p1
  p2 = p2
  Objects = {o1}
  Versions = {v1, v2}
  Presets = {p1, p2}
  Budgets = {2, 3}
  InitialBudget = 3
  SnapshotBytes = 1
  EntryBytes = 0
  ArchiveBytes = 0
  Floors = {{}, {0}, {1}}
  MaxTimestamp = 2
  MaxDepth = 2
  FirstSessionId = 1
  MaxSessionId = 1
SPECIFICATION Spec
SYMMETRY Symmetry
INVARIANTS RendererInStep ContextsResolve
CHECK_DEADLOCK FALSE
