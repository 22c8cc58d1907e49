--------------------------------- MODULE Shown ---------------------------------
(***************************************************************************)
(* What a shopper is shown of the shop that Pricing charges for: the list  *)
(* of products and the page of each (storefront.service.ts), and the cart  *)
(* with its estimate of the tax (cart.service.ts).  Both compute prices    *)
(* with code of their own.                                                 *)
(*                                                                         *)
(* An item of Pricing is what a line can order: a product, or one of its   *)
(* variants.  Items of one product share product, slug, category and tags. *)
(* Texts, images, FAQs and the fields to fill in are left out.             *)
(***************************************************************************)
EXTENDS Pricing

Nowhere == [country |-> None, region |-> None, code |-> None]

LeastOf(amounts) == CHOOSE x \in amounts : \A y \in amounts : x <= y

ItemsOf(sh, p) == {i \in DOMAIN sh.items : sh.items[i].product = p}
\* A row of the product itself: what its items share.
RowOf(sh, p) == sh.items[CHOOSE i \in ItemsOf(sh, p) : TRUE]

Published(sh, kinds) ==
  {sh.items[i].product : i \in
     {j \in DOMAIN sh.items : /\ sh.items[j].kind \in kinds /\ sh.items[j].published
                              /\ sh.items[j].creator = sh.store.creator}}
OwnProducts(sh)    == Published(sh, {"product", "variant"})
CustomProducts(sh) == Published(sh, {"custom"})

(***************************************************************************)
(* The storefront                                                          *)
(***************************************************************************)
\* A custom product shows the variants its creator selected, or else the active
\* ones of its base; a product of the creator's own shows the active ones.
ShownVariants(sh, p) ==
  LET all    == {i \in ItemsOf(sh, p) : sh.items[i].variant}
      chosen == {i \in all : sh.items[i].selected}
      active == {i \in all : sh.items[i].active}
  IN IF p \in CustomProducts(sh) /\ chosen # {} THEN chosen ELSE active

VariantPrice(item) ==
  IF item.kind # "custom" THEN item.base + item.adjust
  ELSE CASE item.pricing = "SINGLE"      -> item.final + item.adjust
         [] item.pricing = "PER_VARIANT" ->
              IF item.custom # 0 THEN item.custom ELSE item.base + item.adjust
         [] item.pricing = "MARGIN"      -> item.base + item.adjust + item.margin

\* The price on the card: the one price, or that of the cheapest variant.
DisplayPrice(sh, p) ==
  LET row    == RowOf(sh, p)
      prices == {VariantPrice(sh.items[i]) : i \in ShownVariants(sh, p)}
  IN CASE row.kind # "custom" -> row.base
       [] row.kind = "custom" /\ row.pricing = "SINGLE" -> row.final
       [] OTHER -> IF prices = {} THEN row.final ELSE LeastOf(prices)

\* Whose goods they are, where the store tells.
ShowVendor(store) == store.vendor /\ ~store.independent

\* The page of a product, at its slug.
OwnPage(sh, p) ==
  LET row == RowOf(sh, p)
  IN [product |-> p, price |-> row.base,
      variants |-> [i \in ShownVariants(sh, p) |-> sh.items[i].base + sh.items[i].adjust],
      vendor |-> None,
      profile |-> IF row.profile = None /\ row.provider # None
                  THEN sh.defaults[row.provider] ELSE row.profile]
CustomPage(sh, p) ==
  LET row == RowOf(sh, p)
  IN [product |-> p, price |-> DisplayPrice(sh, p),
      variants |-> [i \in ShownVariants(sh, p) |-> VariantPrice(sh.items[i])],
      vendor |-> IF ShowVendor(sh.store) THEN row.provider ELSE None,
      profile |-> IF row.profile = None /\ row.provider # None
                  THEN sh.defaults[row.provider] ELSE row.profile]

\* getProduct: the creator's own products first; custom ones only where they
\* are sold.
AtSlug(sh, products, slug) == {p \in products : RowOf(sh, p).slug = slug}
GetProduct(sh, slug) ==
  LET own    == AtSlug(sh, OwnProducts(sh), slug)
      custom == AtSlug(sh, CustomProducts(sh), slug)
  IN IF own # {} THEN {OwnPage(sh, p) : p \in own}
     ELSE IF sh.store.independent THEN {}
     ELSE {CustomPage(sh, p) : p \in custom}

\* A collection lists what is tagged for it, or its members.
InCollection(sh, k, p) ==
  LET c == sh.collections[k]
  IN /\ c.active
     /\ IF c.rule = "TAGS" THEN RowOf(sh, p).tags \cap c.tags # {} ELSE p \in c.members

Passes(sh, p, category, collection) ==
  /\ category # None => RowOf(sh, p).category = category
  /\ collection # None => InCollection(sh, collection, p)

\* getProducts: independent stores list their own products only.
GetProducts(sh, category, collection) ==
  {p \in OwnProducts(sh) \cup (IF sh.store.independent THEN {} ELSE CustomProducts(sh)) :
     Passes(sh, p, category, collection)}

\* The card of a product in the list.
Card(sh, p) ==
  [product |-> p, price |-> DisplayPrice(sh, p),
   variants |-> [i \in ShownVariants(sh, p) |-> VariantPrice(sh.items[i])],
   vendor |-> IF p \in CustomProducts(sh) /\ ShowVendor(sh.store)
              THEN RowOf(sh, p).provider ELSE None]

\* The navigation: categories something is published in, active collections.
GetCategories(sh) ==
  {RowOf(sh, p).category : p \in OwnProducts(sh)}
    \cup (IF sh.store.independent THEN {}
          ELSE {RowOf(sh, p).category : p \in CustomProducts(sh)})
GetCreatorCategories(sh) == {k \in DOMAIN sh.collections : sh.collections[k].active}

\* The product a template is edited against: the one of the creator's own that
\* was touched last.
GetSampleProduct(sh) ==
  {[product |-> p, price |-> RowOf(sh, p).base,
    variants |-> [i \in {j \in ItemsOf(sh, p) : sh.items[j].variant /\ sh.items[j].active}
                    |-> sh.items[i].base + sh.items[i].adjust]] : p \in OwnProducts(sh)}

(***************************************************************************)
(* The cart                                                                *)
(***************************************************************************)
\* MUTANT: a variant adds its surcharge to a single price too.
CartUnitAdjusted(item) ==
  IF item.kind = "product" THEN item.base
  ELSE IF item.kind = "custom" /\ item.pricing = "SINGLE" THEN item.final + item.adjust
  ELSE IF item.custom # 0 THEN item.custom ELSE item.base + item.adjust + item.margin

\* enrichCartItems: the price of a piece before its offer.
CartUnit(item) ==
  LET adjusted == item.base + item.adjust
  IN CASE item.kind = "product" -> item.base
       [] item.kind = "variant" -> adjusted
       [] item.kind = "custom" /\ item.pricing = "SINGLE" -> item.final
       [] item.kind = "custom" /\ item.pricing = "MARGIN" -> adjusted + item.margin
       [] OTHER -> IF item.variant
                   THEN IF item.custom # 0 THEN item.custom ELSE adjusted
                   ELSE IF item.final # 0 THEN item.final ELSE item.base

\* With the offer while its bundle is active; else the cart forgets the offer.
CartPricing(line, sh) ==
  LET unit == CartUnit(sh.items[line.item])
      live == IF line.offer = None THEN FALSE ELSE line.offer.active
  IN IF live THEN BundlePricing(unit, line.offer)
     ELSE [total |-> unit, pieces |-> 1, paid |-> 1]

\* The amount of a line, in whole minor units: what the engine is given.
CartAmount(line, sh, unit) ==
  LET pricing == CartPricing(line, sh)
  IN unit * Round(pricing.total * line.quantity, pricing.paid * unit)

\* The tax the lines would bear at home, without shipping and coupon.
CartTax(lines, sh, amounts) == TaxOf(lines, sh, amounts, 0, 0, Nowhere)

CartOf(lines, sh, amounts, tax) ==
  LET prices == [n \in DOMAIN lines |-> CartPricing(lines[n], sh)]
  IN IF sh.items[lines[1].item].creator # sh.store.creator
     THEN [prices |-> prices, taxes |-> 0, total |-> Total(amounts), mode |-> Inclusive]
     ELSE [prices |-> prices, taxes |-> tax.taxes, total |-> tax.total, mode |-> tax.mode]

CartWith(lines, sh, amounts) == CartOf(lines, sh, amounts, CartTax(lines, sh, amounts))

\* getCart: the lines and their tax.  The store is the one of the creator of
\* the first line.
GetCart(lines, sh) ==
  CartWith(lines, sh, [n \in DOMAIN lines |-> CartAmount(lines[n], sh, CurrencyOf(sh))])

\* What validateBundleOffer takes for the price, and for the provider's share.
CartOfferUnit(item) ==
  CASE item.kind # "custom" -> item.base
    [] item.kind = "custom" /\ item.pricing = "SINGLE" ->
         IF item.final # 0 THEN item.final ELSE item.base
    [] item.kind = "custom" /\ item.pricing = "PER_VARIANT" ->
         IF item.custom # 0 THEN item.custom
         ELSE IF item.variant THEN item.base + item.adjust ELSE item.base
    [] OTHER -> item.base + item.adjust + item.margin
CartOfferBase(item) ==
  IF item.provider = None THEN 0
  ELSE IF item.kind = "custom" THEN item.base + item.adjust ELSE item.base

\* The cart takes an offer of an active bundle in whole bundles, unless it
\* would sell below what the provider is owed.
CartTakesOffer(line, sh) ==
  LET item    == sh.items[line.item]
      pricing == BundlePricing(CartOfferUnit(item), line.offer)
  IN /\ line.offer.active /\ line.quantity % pricing.pieces = 0
     /\ CartOfferBase(item) > 0 /\ CartOfferUnit(item) > 0
          => pricing.total >= CartOfferBase(item) * pricing.paid

\* POST /orders/quote before there is an address.
Quote(lines, sh) ==
  IF lines = <<>> THEN Failed("empty") ELSE Price(lines, sh, Nowhere, None, FALSE)

(***************************************************************************)
(* What the tables hold                                                    *)
(***************************************************************************)
\* A product without variants has no adjustment; prices are numbers.
Shelf(item) ==
  /\ item.kind \in {"product", "variant", "custom"}
  /\ item.base \in Int /\ UnitPrice(item) \in Int
  /\ item.kind = "product" => item.adjust = 0
  /\ item.kind = "custom" => item.pricing \in {"SINGLE", "PER_VARIANT", "MARGIN"}

Fields == {"store", "platform", "tax", "items", "profiles", "defaults", "coupon", "percent"}
Shelved(sh) ==
  /\ Fields \subseteq DOMAIN sh /\ sh = [f \in DOMAIN sh |-> sh[f]]
  /\ Ordered \subseteq DOMAIN sh.items /\ \A i \in DOMAIN sh.items : Shelf(sh.items[i])
  /\ CurrencyOf(sh) \in Nat \ {0}

ASSUME ShopsShelved == \A sh \in Shops : Shelved(sh) /\ \A to \in Changes(sh) : Shelved(to)

(***************************************************************************)
(* Properties                                                              *)
(***************************************************************************)
Fresh == session = None /\ order = None

\* The cart and the quote of the same lines.
Even(p) == p.total % (p.paid * CurrencyOf(shop)) = 0
Agrees(cart, quote) ==
  quote.ok =>
    /\ \A n \in DOMAIN basket :
         Round(cart.prices[n].total, cart.prices[n].paid) = quote.items[n].unitPrice
    /\ (\A n \in DOMAIN basket : Even(cart.prices[n])) =>
         <<cart.taxes, cart.total, cart.mode>> = <<quote.taxes, quote.total, quote.mode>>

\* A piece in the cart costs what the order will charge for it: "This mirrors
\* the calculation in orders.service so cart prices match checkout"
\* (enrichCartItems).  Where no price per piece has to be rounded, the estimate
\* of tax and total is that of the quote before an address is known and without
\* a coupon (getCart).
CartIsQuoted ==
  Fresh => Agrees(GetCart(basket, shop), Quote(basket, [shop EXCEPT !.coupon = None]))

\* An offer the cart takes is not refused by the order (validateBundleOffer).
OffersAreHonoured ==
  Fresh =>
    \A n \in DOMAIN basket :
      LET item == shop.items[basket[n].item]
      IN (basket[n].offer # None /\ SoldBy(item, shop.store)
           /\ CartTakesOffer(basket[n], shop))
           => BundleHolds(basket[n], item, shop.store)

\* What a store lists, under any category and collection it shows, is what it
\* sells: the slug of a card opens the page of that product with the same
\* prices and vendor, each of its variants is taken by an order, the shipping
\* profile named there is the one the order is quoted with, no category in the
\* menu is empty, and the sample of the template editor mirrors its page
\* (getProducts, getProduct, getCategories, getSampleProduct, priceLine).
ListedIsSold ==
  Fresh =>
    /\ \A c \in GetCategories(shop) \cup {None}, k \in GetCreatorCategories(shop) \cup {None} :
         \A p \in GetProducts(shop, c, k) :
           LET pages == GetProduct(shop, RowOf(shop, p).slug)
               card  == Card(shop, p)
           IN /\ Cardinality(pages) = 1
              /\ \A page \in pages :
                   /\ \A f \in {"product", "price", "variants", "vendor"} : page[f] = card[f]
                   /\ page.profile # None =>
                        page.profile = S!ProfileOf(RowOf(shop, p), shop.defaults)
              /\ \A i \in DOMAIN card.variants : SoldBy(shop.items[i], shop.store)
    /\ \A c \in GetCategories(shop) : GetProducts(shop, c, None) # {}
    /\ \A s \in GetSampleProduct(shop) :
         \E page \in GetProduct(shop, RowOf(shop, s.product).slug) :
           <<page.product, page.price, page.variants>> = <<s.product, s.price, s.variants>>

\* "Creator's final_price is THE customer price, regardless of variant"
\* (priceLine): the page prices a variant at what it is ordered for; only one
\* with a surcharge of its own it shows dearer (computeVariantPrice adds it).
Surcharged(item) == item.kind = "custom" /\ item.pricing = "SINGLE" /\ item.adjust # 0
PageIsCharged ==
  Fresh =>
    \A p \in GetProducts(shop, None, None) :
      \A i \in DOMAIN Card(shop, p).variants :
        Surcharged(shop.items[i]) \/ Card(shop, p).variants[i] = UnitPrice(shop.items[i])

\* What the customer is shown before the checkout is what it asks for.
ShownIsCharged == CartIsQuoted /\ OffersAreHonoured /\ ListedIsSold /\ PageIsCharged
================================================================================
