\* Both engines, every caller, two transactions and one slice that runs.
SPECIFICATION Spec
CONSTANTS
  MaxTransactions = 2
  MaxSlices = 1
INVARIANTS TransactionsEnd  AwaitedOnce
CHECK_DEADLOCK FALSE
