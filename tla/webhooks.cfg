SPECIFICATION HookSpec
CONSTANTS
  Emission = {"e1", "e2"}
  Hook = {"h"}
  Worker = {"k1", "k2"}
  Batch = 1
  MAX_ATTEMPTS = 3
  DISABLE_AFTER = 2
  MaxReplays = 1
  MaxRestarts = 1
INVARIANTS RowHasOneDriver AttemptBudget
PROPERTY EveryDeliverySettles
CHECK_DEADLOCK FALSE
