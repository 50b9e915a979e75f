SPECIFICATION ReplaySpec
CONSTANTS
  Records <- MCRecords
  Handlers = {w1, w2}
  Window = 1
  MaxReplays = 3
INVARIANTS
  TotalMatchesLog
CHECK_DEADLOCK FALSE
