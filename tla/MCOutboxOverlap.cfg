SPECIFICATION OutboxSpec
CONSTANTS
  Pollers = {p1, p2}
  MaxRows = 2
  Limit = 2
  MaxRetry = 2
  MaxAborts = 1
  AckLoss = TRUE
  Store = "mysql"
CHECK_DEADLOCK FALSE
INVARIANTS NoLoss RetryBudget
PROPERTY Reliable
