SPECIFICATION MemorySpec
CONSTANTS
  m1 = m1
  m2 = m2
  b1 = b1
  b2 = b2
  Msgs = {m1, m2}
  Bizs = {b1, b2}
  BizOf <- OwnBiz
  Subscribers = 2
  Retrying = {2}
  MaxRetries = 2
  MaxSends = 3
  MaxStops = 1
  Pollers = {p1, p2}
  MaxRows = 2
  Limit = 2
  MaxRetry = 2
  MaxAborts = 0
  AckLoss = FALSE
  Store = "memory"
  Workers = {w1, w2}
  Orders = {o1}
  RefundNos = {r1}
  Amount = 2
  StoreYields = FALSE
CHECK_DEADLOCK FALSE
INVARIANTS NoStuckFailed NoSilentLoss EffectOnce
PROPERTIES TerminalIsFinal PaidGetsBooked GetsSettled
