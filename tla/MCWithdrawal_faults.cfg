CONSTANTS
  k1 = k1
  k2 = k2
  w1 = w1
  Withdrawals = {w1}
  Runners = {k1, k2}
  Approvals = TRUE
  MaxFaults = 2
  MaxStalls = 1
SPECIFICATION FairSpec
CHECK_DEADLOCK FALSE
INVARIANTS
    TypeOK
    FundsFollowTransfer
PROPERTIES
    ForwardOnly
    Settles
