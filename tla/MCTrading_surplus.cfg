CONSTANTS
  Users <- MCUsers
  Assets <- MCAssets
  Orders <- RacingOrders
  Req <- RacingReq
  Funds <- RacingFunds
  MaxInFlight = 1
  MaxCrashes = 0
SPECIFICATION Spec
CHECK_DEADLOCK FALSE
INVARIANT LockedIsReserved
