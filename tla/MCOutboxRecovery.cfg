SPECIFICATION OutboxFairSpec
CONSTANTS
  Pollers = {p1}
  MaxRows = 3
  Limit = 2
  MaxRetry = 2
  MaxAborts = 2
  AckLoss = TRUE
  Store = "mysql"
CHECK_DEADLOCK FALSE
INVARIANTS AbortsExplain
PROPERTIES SettledIsFinal Settles
