CONSTANTS
  p1 = p1
  p2 = p2
  Posters = {p1, p2}
  Users <- MCUsers
  Assets <- MCAssets
  Requests <- SharedRequests
  Mine <- SharedMine
SPECIFICATION Spec
CHECK_DEADLOCK FALSE
SYMMETRY Symmetric
INVARIANTS
    SafetyInv
    UserBalancesNonNegative
    KeyPostedOnce
    JournalConserves
    BalancesExplained
PROPERTIES
    MovementsAreJournaled
    ImplementsAccounting
