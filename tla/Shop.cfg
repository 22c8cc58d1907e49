CONSTANTS
  Ps = {"p1", "p2"}
  Vs = {"v1", "v2", "w1"}
  OwnerOf <- MCOwner
  Counts = {0, 2}
  Cats = {"k1", "k2", "k3"}
  Owned = {"k1", "k2", "k3"}
  Items = {"a"}
  Offers = {"o1"}
  PiecesOf <- MCPieces
  FitsOf <- MCFits
  Lines = {1, 2}
  Quantities = {1, 2}
  MaxRequests = 2
  CPs = {"c1", "c2"}
  Bundles = {"b1"}
  Slugs = {"s1", "s2"}
  Prices = {0, 2}
  Costs = {1, 2}
  Discounts = {1}
  Edits <- MCEdits
SPECIFICATION Spec
INVARIANTS
  StockIsCounted
  CatalogueIsWhole
  CartIsWhole
  OfferedIsSound
CHECK_DEADLOCK FALSE
