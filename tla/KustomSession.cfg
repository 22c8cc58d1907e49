SPECIFICATION FairSpec
CONSTANTS
  plain = plain
  noted = noted
  larger = larger
  Items = {plain, larger}
  Cost <- MCCost
  Dests = {d1, d2}
  Requests = {r1, r2}
  None = none
  MaxOrders = 2
  MaxCalls = 3
  MaxFailures = 1
INVARIANTS
  ApprovedHasOrder
  SessionHoldsOrder
PROPERTIES
  AuthorizedIsPaid
CHECK_DEADLOCK FALSE
