CONSTANTS
  Users <- MCUsers
  Assets <- MCAssets
  Orders <- RacingOrders
  Req <- RacingReq
  Funds <- RacingFunds
  MaxInFlight = 2
  MaxCrashes = 0
SPECIFICATION FairSpec
CHECK_DEADLOCK FALSE
INVARIANTS
    TypeOK
    UserBalancesNonNegative
    OrdersSound
PROPERTIES
    HandlersEnd
