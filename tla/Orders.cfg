SPECIFICATION MCSpec
CONSTANTS
  None = none
  Creator = creator
  Providers = {p1}
  Accounts = {a1, a2, a3}
  Intents = {i1, i2}
  Workers = {w1, w2}
  MaxRequests = 3
  MaxFaults = 1
  mug = mug
  shirt = shirt
  maker = maker
  printer = printer
  Items = {mug, shirt}
  Fulfiller <- MCFulfiller
  Requests = {r1, r2}
  AdminSets = {"CONFIRMED", "PROCESSING", "SHIPPED", "DELIVERED", "CANCELLED"}
  FulfillerSets = {"CONFIRMED", "SHIPPED"}
  Stages = {"PENDING", "MANUFACTURING", "SHIPPED", "DELIVERED"}
  MaxJobs = 3
  MaxCuts = 1
SYMMETRY Symmetry
INVARIANTS
  PaidOnce
  FlagsDescribeAccount
  PaidChargeIsFound
  OrderFollowsLines
CHECK_DEADLOCK FALSE
