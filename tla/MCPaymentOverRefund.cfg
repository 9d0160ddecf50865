SPECIFICATION PaymentSpec
CONSTANTS
  Workers = {w1}
  Orders = {o1}
  RefundNos = {r1, r2, r3}
  Amount = 2
  StoreYields = FALSE
INVARIANT RefundsWithinPaid
