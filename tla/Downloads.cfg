\* Two tasks with three tickets: batches, videos, pauses, retries, pruning and close.
SPECIFICATION FairTaskSpec
CONSTANTS
  Printers = {a, b}
  MaxActive = 2
  MaxTickets = 3
  MaxAttempts = 2
  MaxTasks = 2
  MaxBatch = 2
  PendingLimit = 2
  Retained = 1
INVARIANTS TasksConsistent OneReaderPerPrinter
PROPERTIES Served CloseCompletes
CHECK_DEADLOCK FALSE
