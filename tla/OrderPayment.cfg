SPECIFICATION FairSpec
CONSTANTS
  Items = {i1, i2}
  Handlers = {h1, h2}
  AdminStatuses <- MCAdminStatuses
  MaxStarts = 3
  MaxInterrupts = 1
INVARIANTS
  NeverTakenTwice
  StockFollowsPayment
  CommissionFollowsStatus
PROPERTIES
  PaidOnlyLostWithTheMoney
  ChargeIsRecognised
CHECK_DEADLOCK FALSE
