-------------------------------- MODULE Pricing --------------------------------
(***************************************************************************)
(* What an order costs and who gets it.  OrdersService prices a basket for *)
(* a quote and again for the order; a Kustom session is opened with the    *)
(* figures of one quote, re-priced at every callback, and its order must   *)
(* come to what Kustom authorizes; the commission splits the revenue.      *)
(*                                                                         *)
(* Between any two of those the shop may change: a price, a tax rate, a    *)
(* shipping method, the coupon, the type of the store.  Stock, coupon      *)
(* counters and the races for a session are in Checkout and KustomSession. *)
(***************************************************************************)
EXTENDS Tax, KustomLines

CONSTANTS
  FallbackMethod,
  Shops,       \* the shops a behaviour may start with (see MCPricing)
  Baskets,     \* what buyers put in their carts: sequences of lines
  Places,      \* destinations, an unknown one included
  Methods,     \* ids of the shipping methods, for the selection in the iframe
  Changes(_),  \* the shops one edit of an administrator can lead to
  MaxEdits     \* bound: edits, callbacks and re-reads of the commission

S == INSTANCE Shipping

ASSUME MaxEditsNat == MaxEdits \in Nat

VARIABLES
  shop,      \* store, platform, tax data, shipping, products, coupon
  basket,    \* the lines of the cart, or of the session's snapshot
  session,   \* the Kustom session: what Kustom holds, or None
  checked,   \* the method of a validation that found Kustom's amount, or None
  order,     \* the order row, or None
  split,     \* its commission row, or None
  edits      \* counter of the bound

vars == <<shop, basket, session, checked, order, split, edits>>

(***************************************************************************)
(* One line                                                                *)
(***************************************************************************)
\* What the customer pays per piece before any bundle.
UnitPrice(item) ==
  IF item.kind # "custom" THEN item.base + item.adjust
  ELSE CASE item.pricing = "SINGLE"      -> item.final
         [] item.pricing = "PER_VARIANT" ->
              IF ~item.variant
              THEN IF item.final # 0 THEN item.final ELSE item.base
              ELSE IF item.custom # 0 THEN item.custom ELSE item.base + item.adjust
         [] item.pricing = "MARGIN"      -> item.base + item.adjust + item.margin

\* What its provider is owed per piece.
ProviderBase(item) == IF item.provider = None THEN 0 ELSE item.base + item.adjust

\* Sold here: of the store's creator and published, a variant active; an
\* independent store sells neither custom products nor what a provider fulfils.
SoldBy(item, store) ==
  /\ item.creator = store.creator /\ item.published
  /\ item.kind = "variant" => item.active
  /\ store.independent => item.kind # "custom" /\ item.provider = None

\* A bundle offer, as what its pieces cost together and how many they are.
BundlePricing(unit, offer) ==
  LET q == offer.quantity
      d == offer.value
  IN CASE q <= 0 -> [total |-> unit, pieces |-> 1, paid |-> 1]
       [] q > 0 /\ offer.type = "PERCENTAGE" ->
            [total |-> unit * q * (100 - Smaller(100, Larger(0, d))),
             pieces |-> q, paid |-> 100 * q]
       [] q > 0 /\ offer.type = "FIXED" ->
            [total |-> Larger(0, unit * q - d), pieces |-> q, paid |-> q]
       [] OTHER -> [total |-> unit * q, pieces |-> q + d, paid |-> q + d]

BundleHolds(line, item, store) ==
  LET pricing == BundlePricing(UnitPrice(item), line.offer)
  IN /\ line.offer.active /\ line.offer.creator = store.creator
     /\ line.quantity % pricing.pieces = 0
     /\ pricing.total >= ProviderBase(item) * pricing.paid

Priceable(line, sh) ==
  LET item == sh.items[line.item]
  IN SoldBy(item, sh.store) /\ (line.offer # None => BundleHolds(line, item, sh.store))

LinePrice(line, sh) ==
  LET item == sh.items[line.item]
      pricing == BundlePricing(UnitPrice(item), line.offer)
  IN IF line.offer = None THEN UnitPrice(item) ELSE Round(pricing.total, pricing.paid)

LineTotal(line, sh) == LinePrice(line, sh) * line.quantity
LineBase(line, sh) ==
  Smaller(ProviderBase(sh.items[line.item]), LinePrice(line, sh)) * line.quantity

(***************************************************************************)
(* The totals of a basket                                                  *)
(***************************************************************************)
\* Only independent stores may have a currency of their own.
CurrencyOf(sh) ==
  IF sh.store.independent /\ sh.store.unit # None THEN sh.store.unit ELSE sh.platform.unit

Discount(coupon, subtotal) ==
  CASE coupon.type = "PERCENTAGE"   -> Round(subtotal * coupon.value, 100)
    [] coupon.type = "FIXED_AMOUNT" -> coupon.value
    [] OTHER                        -> 0

\* The coupon: of this store's creator, of a provider of the goods or of the
\* platform, live, and with its conditions met.
CouponHolds(coupon, lines, sh, subtotal, count) ==
  /\ coupon.creator \in {None, sh.store.creator}
  /\ \/ coupon.provider = None \/ coupon.creator # None
     \/ \E n \in DOMAIN lines : sh.items[lines[n].item].provider = coupon.provider
  /\ \/ coupon.products = {}
     \/ \E n \in DOMAIN lines : lines[n].item \in coupon.products
  /\ coupon.live /\ subtotal >= coupon.minAmount /\ count >= coupon.minQuantity

\* A failed quote says why nothing was priced.
Failed(reason) == [ok |-> FALSE, reason |-> reason]

\* The method the customer asked for if it is offered; else the cheapest one,
\* or a failure where a stale choice must not be replaced.
MethodFor(methods, wanted, strict) ==
  LET asked == S!FirstWhere(methods, LAMBDA m : m.id = wanted)
  IN IF wanted # None /\ asked = None /\ strict THEN Failed("method")
     ELSE [ok |-> TRUE, is |-> IF wanted # None /\ asked # None THEN asked
                               ELSE S!CheapestOf(methods)]

\* What the engine is asked to tax.
TaxOf(lines, sh, goods, shipping, discount, place) ==
  ComputeTaxes(BuildTaxContext(sh.store, sh.platform), sh.tax, CurrencyOf(sh),
    [n \in DOMAIN lines |-> [amount |-> goods[n],
       class  |-> sh.items[lines[n].item].class,
       exempt |-> sh.items[lines[n].item].exempt]],
    shipping, discount, place)

\* The figures of a basket that can be ordered.
Figures(lines, sh, goods, owed, shipping, discount, method, methods, tax) ==
  [ok |-> TRUE, unit |-> CurrencyOf(sh), subtotal |-> Total(goods),
   owed |-> owed, discount |-> discount, shippingCost |-> shipping,
   method |-> IF method = None THEN None ELSE method.id, methods |-> methods,
   total |-> tax.total, taxes |-> tax.taxes, taxLines |-> tax.lines,
   mode |-> tax.mode, shippingTax |-> tax.shippingTax,
   shippingRate |-> tax.shippingRate,
   items |-> [n \in DOMAIN lines |->
                [quantity |-> lines[n].quantity, total |-> goods[n],
                 unitPrice |-> LinePrice(lines[n], sh),
                 rate |-> tax.items[n].rate, tax |-> tax.items[n].tax,
                 share |-> tax.items[n].share]]]

\* computeTotals, once the goods are priced, shipping is quoted and a method is
\* chosen: the coupon, what the provider is owed, the tax.
Totals(lines, sh, place, goods, owed, count, methods, method) ==
  LET coupon   == sh.coupon
      subtotal == Total(goods)
      free     == coupon # None /\ coupon.type = "FREE_SHIPPING"
      shipping == IF method = None \/ free THEN 0 ELSE method.cost
      discount == IF coupon = None THEN 0
                  ELSE Smaller(subtotal, Discount(coupon, subtotal))
  IN IF coupon # None /\ ~CouponHolds(coupon, lines, sh, subtotal, count)
     THEN Failed("coupon")
     ELSE IF coupon # None /\ ~sh.store.independent /\ subtotal - discount < owed
     THEN Failed("below cost")
     ELSE Figures(lines, sh, goods, owed, shipping, discount, method, methods,
                  TaxOf(lines, sh, goods, shipping, discount, place))

\* The methods the goods are quoted with, and the one of them that is taken.
WithMethod(lines, sh, place, goods, owed, count, methods, method) ==
  IF ~method.ok THEN Failed("method")
  ELSE Totals(lines, sh, place, goods, owed, count, methods, method.is)
WithQuote(lines, sh, place, wanted, strict, goods, owed, count, quote) ==
  IF ~quote.available THEN Failed("shipping")
  ELSE WithMethod(lines, sh, place, goods, owed, count, quote.methods,
                  MethodFor(quote.methods, wanted, strict))

\* Shipping is quoted once the country is known.
PriceGoods(lines, sh, place, wanted, strict, goods, owed, count) ==
  IF place.country = None
  THEN Totals(lines, sh, place, goods, owed, count, <<>>, None)
  ELSE WithQuote(lines, sh, place, wanted, strict, goods, owed, count,
         S!QuoteForItems([n \in DOMAIN lines |-> sh.items[lines[n].item]],
                         sh.profiles, sh.defaults, place.country, count, Total(goods)))

\* quoteLines and the pricing half of create(): the two differ in strict only.
Price(lines, sh, place, wanted, strict) ==
  IF ~sh.store.active THEN Failed("inactive")
  ELSE IF \E n \in DOMAIN lines : ~Priceable(lines[n], sh) THEN Failed("item")
  ELSE PriceGoods(lines, sh, place, wanted, strict,
                  [n \in DOMAIN lines |-> LineTotal(lines[n], sh)],
                  Total([n \in DOMAIN lines |-> LineBase(lines[n], sh)]),
                  Total([n \in DOMAIN lines |-> lines[n].quantity]))

(***************************************************************************)
(* The commission                                                          *)
(***************************************************************************)
\* What the provider would have received undiscounted: never less is paid.
ProviderFloor(owed, percent) == Round(owed * (100 - percent), 100)

\* MUTANT: the platform's percentage comes first, whatever is left for the provider.
SplitPlatformFirst(subtotal, discount, owed, percent) ==
  LET revenue  == subtotal - discount
      platform == Round(revenue * percent, 100)
      pool     == revenue - platform
      provider == IF subtotal = 0 THEN 0 ELSE Round(pool * owed, subtotal)
  IN [platform |-> platform, provider |-> provider, creator |-> pool - provider]

\* The platform takes its percentage, but not out of the provider's floor; the
\* rest goes to the provider and the creator by what each put in.
MarketplaceSplit(subtotal, discount, owed, percent) ==
  LET revenue  == subtotal - discount
      floor    == ProviderFloor(owed, percent)
      cut      == Round(revenue * percent, 100)
      platform == IF cut > revenue - floor THEN Larger(0, revenue - floor) ELSE cut
      pool     == revenue - platform
      provider == IF subtotal = 0 \/ pool <= 0 THEN 0
                  ELSE Smaller(pool, Larger(floor, Round(pool * owed, subtotal)))
      creator  == IF subtotal = 0 \/ pool <= 0 THEN 0 ELSE pool - provider
  IN [platform |-> platform, provider |-> provider, creator |-> creator]

\* An independent store keeps all it charges, shipping and tax included.
Split(o, sh) ==
  IF sh.store.independent
  THEN [platform |-> 0, provider |-> 0, creator |-> o.total, by |-> "store"]
  ELSE LET parts == MarketplaceSplit(o.subtotal, o.discount, o.owed, sh.percent)
       IN [platform |-> parts.platform, provider |-> parts.provider,
           creator |-> parts.creator, by |-> "platform", percent |-> sh.percent]

(***************************************************************************)
(* What the tables hold                                                    *)
(***************************************************************************)
\* What the DTOs and the columns admit.  That a variant's adjustment leaves a
\* price of at least nothing is not checked by them: see the README.
Ordered == UNION {{b[n].item : n \in DOMAIN b} : b \in Baskets}
OwnProfile(sh, profile) == profile = None \/ profile \in DOMAIN sh.profiles

PricedItem(item, sh) ==
  /\ UnitPrice(item) \in Nat /\ ProviderBase(item) \in Nat
  /\ OwnProfile(sh, S!ProfileOf(item, sh.defaults))

PricedZone(zone) ==
  /\ zone.base \in Nat /\ zone.perItem \in Nat
  /\ Len(zone.methods) \in Nat
  /\ \A n \in 1..Len(zone.methods) :
       zone.methods[n].base \in Nat /\ zone.methods[n].perItem \in Nat

Priced(sh) ==
  /\ \A i \in Ordered : PricedItem(sh.items[i], sh)
  /\ \A p \in DOMAIN sh.profiles :
       /\ Len(sh.profiles[p]) \in Nat
       /\ \A n \in 1..Len(sh.profiles[p]) : PricedZone(sh.profiles[p][n])
  /\ IsFiniteSet(sh.tax.rates)
  /\ \A r \in sh.tax.rates : r.id \in Int /\ r.bp \in Int
  /\ \A r, s \in sh.tax.rates : r.id = s.id => r = s
  /\ sh.coupon # None => sh.coupon.value \in Nat
  /\ CurrencyOf(sh) \in Nat \ {0} /\ sh.percent \in 0..100

OrderedLine(line) ==
  /\ line.quantity \in Nat \ {0}
  /\ line.offer # None => line.offer.quantity \in Int /\ line.offer.value \in Nat

ASSUME ShopsPriced == \A sh \in Shops : Priced(sh) /\ \A to \in Changes(sh) : Priced(to)
ASSUME BasketsOrdered ==
  \A b \in Baskets : /\ Len(b) \in Nat /\ DOMAIN b = 1..Len(b)
                     /\ \A n \in DOMAIN b : OrderedLine(b[n])

(***************************************************************************)
(* Quote, session, order                                                   *)
(***************************************************************************)
Init == /\ shop \in Shops /\ basket \in Baskets
        /\ session = None /\ checked = None /\ order = None /\ split = None
        /\ edits = 0

Bounded == edits < MaxEdits /\ edits' = edits + 1

\* What Kustom is told: the figures of a quote, with options that cost nothing
\* under a coupon for free shipping, and where they were made for.
Held(priced, place) ==
  LET free    == shop.coupon # None /\ shop.coupon.type = "FREE_SHIPPING"
      options == [n \in DOMAIN priced.methods |->
                    [priced.methods[n] EXCEPT !.cost = IF free THEN 0 ELSE @]]
  IN BuildSessionAmounts(priced, options, priced.method)
       @@ [place |-> place, selected |-> priced.method]

\* Opens a session for the snapshot, or answers a callback of an open one: the
\* shopper changed the address or picked a method.
PriceSession(place, priced) ==
  /\ order = None /\ checked = None
  /\ IF session = None THEN UNCHANGED edits ELSE Bounded
  /\ priced.ok
  /\ session' = Held(priced, place)
  /\ UNCHANGED <<shop, basket, checked, order, split>>

\* The validation: priced again, and rejected unless Kustom holds that amount.
SameAmount(amounts) == amounts.amount = session.amount /\ amounts.unit = session.unit

CheckAmount(priced) ==
  /\ session.place.country # None
  /\ priced.ok
  /\ SameAmount(Held(priced, session.place))
  /\ checked' = [method |-> priced.method]
  /\ UNCHANGED <<shop, basket, session, order, split, edits>>

Validate ==
  /\ order = None /\ checked = None /\ session # None
  /\ CheckAmount(Price(basket, shop, session.place, session.selected, FALSE))

\* create(): priced once more from the tables, with the method that was checked.
Row(priced, method, status) ==
  [unit |-> priced.unit, subtotal |-> priced.subtotal, owed |-> priced.owed,
   discount |-> priced.discount, shippingCost |-> priced.shippingCost,
   shippingTax |-> priced.shippingTax, total |-> priced.total,
   taxes |-> priced.taxes, taxLines |-> priced.taxLines, mode |-> priced.mode,
   items |-> priced.items, payment |-> method, status |-> status]

Create(priced, method, status) ==
  /\ priced.ok
  /\ order' = Row(priced, method, status)
  /\ split' \in {None, Split(Row(priced, method, status), shop)}

PlaceForSession ==
  /\ order = None /\ session # None /\ checked # None
  /\ Create(Price(basket, shop, session.place, checked.method, TRUE), "KUSTOM", "unlinked")
  /\ UNCHANGED <<shop, basket, session, checked, edits>>

\* The order cannot be made any more: the session is open again.
RejectedByCreate ==
  /\ order = None /\ session # None /\ checked # None
  /\ ~ Price(basket, shop, session.place, checked.method, TRUE).ok
  /\ checked' = None
  /\ UNCHANGED <<shop, basket, session, order, split, edits>>

\* MUTANT: the order's total is not compared with the session's.
MatchesAlways(o) == TRUE

\* The stored total must be what Kustom will authorize, or the order is failed.
Matches(o) == ExpectedKustomAmount(o) = session.amount

LinkOrder ==
  /\ order # None /\ order.status = "unlinked"
  /\ IF Matches(order)
     THEN /\ order' = [order EXCEPT !.status = "awaiting_payment"]
          /\ UNCHANGED <<checked, split>>
     ELSE order' = None /\ checked' = None /\ split' = None
  /\ UNCHANGED <<shop, basket, session, edits>>

\* The classic checkout, on a known address.
PlaceClassic(place, selected, method) ==
  /\ order = None /\ session = None
  /\ method = "COD" => shop.store.cod
  /\ place.country # None
  /\ Create(Price(basket, shop, place, selected, TRUE), method,
            IF method = "COD" THEN "pending" ELSE "awaiting_payment")
  /\ UNCHANGED <<shop, basket, session, checked, edits>>

\* Before a card payment the split is made again, for the store as it is now.
RecomputeCommission ==
  /\ order # None /\ order.payment = "STRIPE" /\ order.status # "paid"
  /\ split' = Split(order, shop)
  /\ UNCHANGED <<shop, basket, session, checked, order, edits>>

Pay ==
  /\ order # None /\ order.status = "awaiting_payment"
  /\ order' = [order EXCEPT !.status = "paid"]
  /\ UNCHANGED <<shop, basket, session, checked, split, edits>>

\* An administrator, creator or provider edits what the prices come from.
EditShop ==
  /\ Bounded
  /\ \E to \in Changes(shop) : shop' = to
  /\ UNCHANGED <<basket, session, checked, order, split>>

Next ==
  \/ \E place \in Places, m \in Methods \cup {None} :
       \/ PriceSession(place, Price(basket, shop, place, m, FALSE))
       \/ \E method \in {"STRIPE", "COD"} : PlaceClassic(place, m, method)
  \/ Validate \/ PlaceForSession \/ RejectedByCreate \/ LinkOrder
  \/ RecomputeCommission \/ Pay \/ EditShop

Spec == Init /\ [][Next]_vars

(***************************************************************************)
(* Properties                                                              *)
(***************************************************************************)
Statuses == {"unlinked", "pending", "awaiting_payment", "paid"}

\* Every variable keeps its type; amounts and shares are never negative.
TypeOK ==
  /\ shop.percent \in 0..100 /\ basket \in Baskets /\ edits \in 0..MaxEdits
  /\ checked # None => checked.method \in Methods \cup {None}
  /\ session # None => session.amount \in Nat /\ session.taxes \in Nat
  /\ order # None => /\ order.status \in Statuses /\ order.total \in Nat
                     /\ \A n \in DOMAIN order.items :
                          order.items[n].share \in 0..order.items[n].total
  /\ split # None => /\ {split.platform, split.provider, split.creator} \subseteq Nat
                     /\ order # None

Distance(a, b) == IF a > b THEN a - b ELSE b - a

\* Kustom refuses a checkout whose figures do not agree.  Whatever the tax
\* mode, the currency, the bundles and the discount, every body the mapper
\* builds has lines that are quantity * price - discount with no discount below
\* zero, a total and a tax that are the sums of the lines, a tax on each line
\* that is what its rate gives, to a unit per stacked rate, exactly one option
\* preselected, and never needs the rounding adjustment (buildKustomOrderLines).
KustomAccepts ==
  session # None =>
    /\ \A n \in DOMAIN session.lines :
         LET l == session.lines[n]
         IN /\ l.total = l.quantity * l.unitPrice - l.discount
            /\ l.discount >= 0 /\ l.total >= 0
            /\ l.type \in {"physical", "shipping_fee"}
            /\ Distance(l.tax, IncludedTax(l.total, l.rate)) <= 1
    /\ session.amount = LinesTotal(session.lines)
    /\ session.taxes = LinesTax(session.lines)
    /\ session.options # <<>> =>
         Cardinality({n \in DOMAIN session.options : session.options[n].preselected}) = 1

\* Kustom authorizes the amount of the session, and the order is held to its
\* own total by the push and the capture: an order linked to a session comes to
\* the amount Kustom holds, whatever was edited between the quote, the
\* validation and the order (handleValidation).
AuthorizedIsOrdered ==
  order # None /\ session # None /\ order.status \in {"awaiting_payment", "paid"}
    => ExpectedKustomAmount(order) = session.amount

\* The row o explains itself.
AddsUp(o) ==
  LET shares == Total([n \in DOMAIN o.items |-> o.items[n].share])
      due    == o.subtotal + o.shippingCost - o.discount
                  + IF o.mode = Exclusive THEN o.taxes ELSE 0
      slack  == IF o.unit = 1 THEN 0 ELSE o.unit
  IN /\ 2 * Distance(shares, o.discount) <= slack * Len(o.items)
     /\ Total(o.taxLines) = o.taxes
     /\ Total([n \in DOMAIN o.items |-> o.items[n].tax]) + o.shippingTax = o.taxes
     /\ 2 * Distance(o.total, due) <= slack * (Len(o.items) + 2)

\* The order row explains itself: the shares of its lines are its discount, the
\* breakdown is its tax, and its total is subtotal + shipping - discount, with
\* the tax on top where prices exclude it (computeTotals, computeTaxes).  A
\* currency without decimals may be off by half a unit per rounded figure; the
\* shares by half a unit per line, since the discount is at most the sum of the
\* lines as they are rounded.
OrderAddsUp == order # None => AddsUp(order)

\* The row s splits the revenue of the row o.
SplitsAll(s, o) ==
  IF s.by = "store" THEN s.creator = o.total
  ELSE /\ s.platform + s.provider + s.creator = o.subtotal - o.discount
       /\ s.provider >= ProviderFloor(o.owed, s.percent)

\* The commission gives away what the goods brought in, no more and no less,
\* and the provider its base less the platform's percentage even when a coupon
\* eats the whole margin (computeMarketplaceCommission).
SplitIsWhole == split # None => SplitsAll(split, order)

\* Money that is priced right stays right on its way to the parties.
PricedRight == OrderAddsUp /\ SplitIsWhole
================================================================================
