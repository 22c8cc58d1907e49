SPECIFICATION FairSpec
CONSTANTS
  Skus = {x, y}
  CustomSkus = {}
  Initial <- MCInitial
  Limits <- MCLimits
  Requests = {r1, r2}
  Buyers = {b1}
  MaxOrders = 2
  MaxBaskets = 1
  MaxNotices = 1
  MaxFailures = 1
INVARIANTS
  StockAccounted
  RedemptionsAccounted
PROPERTIES
  ReservesAllOrNothing
  AbandonedIsReleased
CHECK_DEADLOCK FALSE
