SPECIFICATION MCFairSpec
CONSTANTS
  Checkouts = {c1, c2}
  Typed = {home, other}
  Home = home
  None = none
  MaxCuts = 1
  MaxRequests = 3
  Handlers = {r1, r2}
  Nobody = nobody
  Total = 2
  MaxCalls = 3
  MaxPortal = 1
  MaxTimeouts = 1
INVARIANTS
  PaidWhereHeld
  AcknowledgedIsWhole
  MoneyIsReal
PROPERTIES
  GoneIsNoticed
CHECK_DEADLOCK FALSE
