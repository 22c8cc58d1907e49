SPECIFICATION Spec
CONSTANTS
  Whole = 100
  None = None
  FallbackMethod = "standard"
  EuCountries <- MCEu
  Shops <- MCShops
  Baskets <- MCBaskets
  Places <- MCPlaces
  Methods = {post, air, zoneB}
  Changes <- MCChanges
  MaxEdits = 1
  SE = SE
  DE = DE
  US = US
  north = north
  code1 = code1
  std = std
  red = red
  ItemA = ItemA
  ItemB = ItemB
  ItemC = ItemC
  ItemD = ItemD
  ItemE = ItemE
  ItemF = ItemF
  ItemG = ItemG
  garment = garment
  print = print
  k1 = k1
  k2 = k2
  ann = ann
  bob = bob
  profA = profA
  profB = profB
  post = post
  air = air
  zoneB = zoneB
INVARIANTS
  KustomAccepts
  AuthorizedIsOrdered
  PricedRight
  ShownIsCharged
CHECK_DEADLOCK FALSE
