CONSTANTS
  k1 = k1
  k2 = k2
  w1 = w1
  Withdrawals = {w1}
  Runners = {k1}
  Approvals = FALSE
  MaxFaults = 0
  MaxStalls = 0
SPECIFICATION Spec
CHECK_DEADLOCK FALSE
INVARIANT FailedReturnsFunds
