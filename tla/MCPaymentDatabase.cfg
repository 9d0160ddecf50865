SPECIFICATION PaymentSpec
CONSTANTS
  Workers = {w1, w2, w3}
  Orders = {o1}
  RefundNos = {r1, r2}
  Amount = 2
  StoreYields = TRUE
INVARIANTS BookedIsPaid NoPaidOrderClosed PaidNotForgotten
SYMMETRY WorkerSymmetry
