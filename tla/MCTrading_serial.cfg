CONSTANTS
  Users <- MCUsers
  Assets <- MCAssets
  Orders <- SerialOrders
  Req <- SerialReq
  Funds <- SerialFunds
  MaxInFlight = 1
  MaxCrashes = 1
SPECIFICATION Spec
CHECK_DEADLOCK FALSE
INVARIANTS
    BooksAddUp
    NoCrossedBook
PROPERTIES
    ImplementsExchange
    PriceTimePriority
