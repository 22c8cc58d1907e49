CONSTANTS
  PageIds = {1, 2, 3}
  Slugs = {"about"}
  Kits <- MCKits
  Presets <- MCPresets
  HasSocials = FALSE
  Docs = {"about", "b1", "promo", "cat", "attr", "faq", "field", "links", "terms", "mail", "own"}
  KindOf <- MCKind
  Locales = {"en", "ar"}
  Sendable = {{}, {"en", "ar"}}
  Lists = {{}, {"i1"}, {"i1", "i2"}}
  MaxRequests = 3
SPECIFICATION Spec
INVARIANTS
  PagesAreFound
  PagesAreKept
  SavedAsSent
CHECK_DEADLOCK FALSE
