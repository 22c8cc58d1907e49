-------------------------------- MODULE Shipping -------------------------------
(***************************************************************************)
(* Shipping quotes: what ShippingService offers for products and a country.*)
(*                                                                         *)
(* A profile has a sequence of zones; a zone has countries, the legacy cost*)
(* columns (base, perItem, free, days) and a sequence of methods; a method *)
(* has id, name, pickup, those columns and active.  Names stand for what   *)
(* methods are matched on (the trimmed default name in lower case).        *)
(***************************************************************************)
EXTENDS Money

CONSTANTS None, FallbackMethod  \* null; the method of a zone without any

\* What a method, or a zone without methods, costs for these goods.
PriceFor(m, count, subtotal) ==
  IF m.free # None /\ subtotal >= m.free THEN 0 ELSE m.base + m.perItem * count

Quoted(m, id, name, pickup, count, subtotal) ==
  [id |-> id, name |-> name, pickup |-> pickup, days |-> m.days,
   cost |-> PriceFor(m, count, subtotal)]

\* The elements of a sequence at some of its places, in their order.
Picked(s, places) ==
  [k \in 1..Cardinality(places) |->
     s[CHOOSE n \in places : Cardinality({m \in places : m <= n}) = k]]

QuoteZone(zone, count, subtotal) ==
  IF zone.methods = <<>>
  THEN <<Quoted(zone, zone.id, FallbackMethod, FALSE, count, subtotal)>>
  ELSE LET active == Picked(zone.methods, {n \in 1..Len(zone.methods) : zone.methods[n].active})
       IN [n \in 1..Len(active) |->
             Quoted(active[n], active[n].id, active[n].name, active[n].pickup,
                    count, subtotal)]

FirstWhere(s, Test(_)) ==
  LET hits == {n \in 1..Len(s) : Test(s[n])}
  IN IF hits = {} THEN None ELSE s[CHOOSE n \in hits : \A m \in hits : n <= m]

FindZone(zones, country) == FirstWhere(zones, LAMBDA z : country \in z.countries)

\* Ties keep the configured order.
CheapestOf(methods) ==
  FirstWhere(methods, LAMBDA m : \A n \in 1..Len(methods) : m.cost <= methods[n].cost)

Named(methods, name) == FirstWhere(methods, LAMBDA m : m.name = name)

MaxOf(S) == CHOOSE x \in S : \A y \in S : x >= y
MinOf(S) == CHOOSE x \in S : \A y \in S : x <= y

\* One method for all the fulfillers: the highest cost, the widest days.
Merged(lead, matches) ==
  [lead EXCEPT !.cost = MaxOf({m.cost : m \in matches}),
               !.days = <<MinOf({m.days[1] : m \in matches}),
                          MaxOf({m.days[2] : m \in matches})>>]

\* A method is offered when every profile has one of its name; when no name is
\* common, the cheapest of each profile are merged under the first profile's.
MergeProfileQuotes(quotes) ==
  LET lead == quotes[1]
      common == Picked(lead, {n \in 1..Len(lead) : \A p \in 1..Len(quotes) :
                                Named(quotes[p], lead[n].name) # None})
      cheapest == [p \in 1..Len(quotes) |-> CheapestOf(quotes[p])]
  IN CASE quotes = <<>> -> <<>>
       [] Len(quotes) = 1 -> lead
       [] Len(quotes) > 1 /\ common # <<>> ->
            [n \in 1..Len(common) |->
               Merged(common[n], {common[n]} \cup
                  {Named(quotes[p], common[n].name) : p \in 2..Len(quotes)})]
       [] OTHER -> <<Merged(cheapest[1], {cheapest[p] : p \in 1..Len(quotes)})>>

\* The profile a product ships under: its own, else its owner's default one,
\* else none.  defaults: who has which default profile.
ProfileOf(product, defaults) ==
  IF product.profile # None THEN product.profile
  ELSE IF product.provider # None THEN defaults[product.provider]
  ELSE IF product.creator # None THEN defaults[product.creator]
  ELSE None

\* The profiles of the products, each once, in the order they are found.
ResolveProfileIds(products, defaults) ==
  LET all == [n \in 1..Len(products) |-> ProfileOf(products[n], defaults)]
  IN Picked(all, {n \in 1..Len(products) :
                    all[n] # None /\ \A m \in 1..(n-1) : all[m] # all[n]})

Unavailable == [available |-> FALSE, methods |-> <<>>]

\* Every method the customer may pick.  Goods with no profile ship free; one
\* fulfiller that does not ship there makes the whole cart unavailable.
QuoteForItems(products, profiles, defaults, country, count, subtotal) ==
  LET ids   == ResolveProfileIds(products, defaults)
      zones == [n \in 1..Len(ids) |-> FindZone(profiles[ids[n]], country)]
      priced(n) == QuoteZone(zones[n], count, subtotal)
  IN IF ids = <<>> THEN [available |-> TRUE, methods |-> <<>>]
     ELSE IF \E n \in 1..Len(ids) : IF zones[n] = None THEN TRUE
                                    ELSE priced(n) = <<>>
     THEN Unavailable
     ELSE [available |-> TRUE,
           methods   |-> MergeProfileQuotes([n \in 1..Len(ids) |-> priced(n)])]

\* The endpoints that answer with one cost: the cheapest method, or nothing.
CalculateForItems(quote) ==
  IF ~quote.available THEN None
  ELSE IF CheapestOf(quote.methods) = None THEN 0
  ELSE CheapestOf(quote.methods).cost

Calculate(zones, country, count, subtotal) ==
  LET zone == FindZone(zones, country)
  IN IF zone = None THEN None
     ELSE LET best == CheapestOf(QuoteZone(zone, count, subtotal))
          IN IF best = None THEN None ELSE best.cost
================================================================================
