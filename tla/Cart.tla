--------------------------------- MODULE Cart ---------------------------------
(***************************************************************************)
(* The cart of one customer (cart.service.ts) as several tabs change it,   *)
(* while sellers replace, disable and enable the bundle offers its lines   *)
(* carry, and a checkout (orders.service.ts) turns it into an order.       *)
(*                                                                         *)
(* A quantity is written as a number computed from a line read before, a   *)
(* line is looked for and then created, and the checkout empties the cart  *)
(* it read earlier: requests of two tabs that overlap can lose pieces.     *)
(***************************************************************************)
EXTENDS Requests, FiniteSets, FiniteSetsExt

CONSTANTS
  Items,     \* what a line can hold: a product, variant or custom product
  Offers,    \* bundle offers
  PiecesOf,  \* Offers -> the pieces one application of the offer takes
  FitsOf,    \* Offers -> the items its bundle is linked to
  Lines,     \* bound: line ids
  Quantities \* quantities a customer types

ASSUME PiecesPositive == PiecesOf \in [Offers -> Nat \ {0}]
ASSUME FitsItems == FitsOf \in [Offers -> SUBSET Items]
ASSUME QuantitiesPositive == Quantities \subseteq Nat \ {0}
ASSUME LinesFinite == IsFiniteSet(Lines)

NoLine == [item |-> {}, offer |-> {}, qty |-> 0]

VARIABLES
  line,    \* CartItem rows: offer is empty or holds the offer, NoLine when absent
  offer,   \* "live", "off" (its bundle is disabled) or "gone" (deleted)
  \* history
  wanted,  \* pieces of an item the customer asked for, less those taken out
  ordered, \* pieces of an item in placed orders
  raced    \* whether two requests of the customer overlapped
varsC == <<line, offer, wanted, ordered, raced>>

Held == {l \in Lines : line[l] # NoLine}
\* The pieces of an item in the cart, each told by its line and its number there.
PiecesIn(l) == {l} \X (1 .. line[l].qty)
Pieces(i) == Cardinality(UNION {PiecesIn(l) : l \in {k \in Held : line[k].item = {i}}})
Same(l, i, o) == line[l].item = {i} /\ line[l].offer = o
\* assertBundleQuantityValid
Whole(o, n) == n % PiecesOf[o] = 0

\* A request that writes has come before another one was done writing.
Writing == {r \in InFlight : req[r].op \in {"add", "update", "remove", "checkout"}}
Races(r) == raced' = (raced \/ Writing \ {r} # {})
\* Every answer is the cart as GET /cart shows it.
Shows(r) == req' = [req EXCEPT ![r] = [op |-> "show", at |-> "fetch"]]
Refuses(r) == Ends(r) /\ UNCHANGED varsC
-----------------------------------------------------------------------------
(* addItem *)

Adds(r, i, os, n) ==
  /\ Arrives(r)
  /\ Start(r, [op |-> "add", at |-> IF os = {} THEN "find" ELSE "validate",
               item |-> i, offer |-> os, qty |-> n, found |-> {}, read |-> 0])
  /\ Races(r)
  /\ UNCHANGED <<line, offer, wanted, ordered>>

\* validateBundleOffer: it exists, its bundle is ACTIVE and has the item.
Applicable(o, i) == offer[o] = "live" /\ i \in FitsOf[o]
ValidatesAdd(r) ==
  /\ At(r, "add", "validate")
  /\ IF \A o \in req[r].offer : Applicable(o, req[r].item)
     THEN GoesTo(r, "same") /\ UNCHANGED varsC ELSE Refuses(r)
\* The line that is there already counts for the multiple.
ChecksSame(r) ==
  LET q == req[r] IN
  /\ At(r, "add", "same")
  /\ LET there == {l \in Held : Same(l, q.item, q.offer)}
         had(ls) == IF ls = {} THEN 0 ELSE line[CHOOSE l \in ls : TRUE].qty
     IN  IF \A o \in q.offer : Whole(o, had(there) + q.qty)
         THEN GoesTo(r, "find") /\ UNCHANGED varsC ELSE Refuses(r)
\* The line is looked for again; findFirst takes any of several.
FindsLine(r) ==
  LET q == req[r]
      there == {l \in Held : Same(l, q.item, q.offer)}
  IN  /\ At(r, "add", "find")
      /\ \/ there = {} /\ req' = [req EXCEPT ![r].at = "write"]
         \/ \E l \in there :
              req' = [req EXCEPT ![r].at = "write", ![r].found = {l}, ![r].read = line[l].qty]
      /\ UNCHANGED varsC

\* MUTANT: the quantity of the request replaces that of the line.
SumReplaced(q) == q.qty
Sum(q) == q.read + q.qty

\* The quantity read plus the new one; or a row of its own, which the foreign
\* key refuses when the offer was deleted meanwhile.  A line that was removed
\* meanwhile is an error.
WritesLine(r) ==
  LET q == req[r]
      fresh == Lines \ Held
      refused == IF q.found = {} THEN \E o \in q.offer : offer[o] = "gone"
                 ELSE ~(q.found \subseteq Held)
  IN  /\ At(r, "add", "write")
      /\ IF refused THEN Refuses(r)
         ELSE /\ IF q.found = {}
                 THEN fresh # {} /\ line' = [line EXCEPT ![CHOOSE l \in fresh : TRUE] =
                                      [item |-> {q.item}, offer |-> q.offer, qty |-> q.qty]]
                 ELSE \E l \in q.found : line' = [line EXCEPT ![l].qty = Sum(q)]
              /\ wanted' = [wanted EXCEPT ![q.item] = @ + q.qty]
              /\ Shows(r)
              /\ UNCHANGED <<offer, ordered, raced>>
-----------------------------------------------------------------------------
(* updateItem: a quantity, an offer (or none) for the line, or both *)

Updates(r, l, ns, oss) ==
  /\ Arrives(r) /\ l \in Held /\ (ns # {} \/ oss # {})
  /\ Start(r, [op |-> "update", at |-> "validate", l |-> l, qty |-> ns, offers |-> oss,
               row |-> line[l]])
  /\ Races(r)
  /\ UNCHANGED <<line, offer, wanted, ordered>>
ValidatesUpdate(r) ==
  LET q == req[r] IN
  /\ At(r, "update", "validate")
  /\ IF \A o \in UNION q.offers : \A i \in q.row.item : Applicable(o, i)
     THEN GoesTo(r, "multiple") /\ UNCHANGED varsC ELSE Refuses(r)

NextQty(q) == IF q.qty = {} THEN q.row.qty ELSE Max(q.qty)
\* The offer the line will carry: the one sent, or the one it had when read.
NextOffer(q) == IF q.offers = {} THEN q.row.offer ELSE UNION q.offers

ChecksMultiple(r) ==
  LET q == req[r] IN
  /\ At(r, "update", "multiple")
  /\ IF \A o \in NextOffer(q) : offer[o] # "gone" => Whole(o, NextQty(q))
     THEN GoesTo(r, "write") /\ UNCHANGED varsC ELSE Refuses(r)
\* Only what was sent is written, to whatever the row is by now.
UpdatesLine(r) ==
  LET q == req[r]
      l == q.l
  IN  /\ At(r, "update", "write")
      /\ IF l \notin Held \/ \E o \in UNION q.offers : offer[o] = "gone" THEN Refuses(r)
         ELSE /\ line' = [line EXCEPT
                   ![l].qty = IF q.qty = {} THEN @ ELSE Max(q.qty),
                   ![l].offer = IF q.offers = {} THEN @ ELSE UNION q.offers]
              /\ wanted' = [i \in Items |-> IF {i} = q.row.item /\ q.qty # {}
                              THEN wanted[i] + Max(q.qty) - q.row.qty ELSE wanted[i]]
              /\ Shows(r)
              /\ UNCHANGED <<offer, ordered, raced>>

\* removeItem and clearCart are one statement each; only the first answers
\* with the cart.
Without(ls) == [l \in Lines |-> IF l \in ls THEN NoLine ELSE line[l]]
Removes(r, l) ==
  /\ Arrives(r) /\ l \in Held
  /\ line' = Without({l})
  /\ wanted' = [i \in Items |-> IF {i} = line[l].item THEN wanted[i] - line[l].qty ELSE wanted[i]]
  /\ Shows(r) /\ Races(r)
  /\ UNCHANGED <<offer, ordered>>
ClearsCart(r) ==
  /\ Arrives(r)
  /\ line' = Without(Lines)
  /\ wanted' = [i \in Items |-> wanted[i] - Pieces(i)]
  /\ Ends(r) /\ Races(r)
  /\ UNCHANGED <<offer, ordered>>
-----------------------------------------------------------------------------
(* GET /cart, on its own and as the end of every change (enrichCartItems) *)

Gets(r) ==
  /\ Arrives(r)
  /\ Shows(r)
  /\ UNCHANGED varsC
Fetches(r) ==
  /\ At(r, "show", "fetch")
  /\ req' = [req EXCEPT ![r] = [op |-> "show", at |-> "look",
               todo |-> {lo \in Held \X Offers : line[lo[1]].offer = {lo[2]}}]]
  /\ UNCHANGED varsC
\* An offer that is gone or disabled is taken off the line it was read from.
Looks(r) ==
  /\ At(r, "show", "look")
  /\ IF req[r].todo = {} THEN Ends(r)
     ELSE \E lo \in req[r].todo :
            req' = [req EXCEPT ![r] = [op |-> "show", todo |-> req[r].todo \ {lo}, l |-> lo[1],
                      at |-> IF offer[lo[2]] = "live" THEN "look" ELSE "clear"]]
  /\ UNCHANGED varsC
TakesOff(r) ==
  /\ At(r, "show", "clear")
  /\ IF req[r].l \notin Held THEN Refuses(r)
     ELSE /\ line' = [line EXCEPT ![req[r].l].offer = {}]
          /\ GoesTo(r, "look")
          /\ UNCHANGED <<offer, wanted, ordered, raced>>
-----------------------------------------------------------------------------
(* The checkout (orders.service create) *)

\* The cart is read once; a line whose offer is not live, or does not divide
\* its quantity, refuses it.
ChecksOut(r) ==
  /\ Arrives(r) /\ Held # {}
  /\ IF \A l \in Held : \A o \in line[l].offer : offer[o] = "live" /\ Whole(o, line[l].qty)
     THEN Start(r, [op |-> "checkout", at |-> "place",
                    taken |-> [i \in Items |-> Pieces(i)]])
     ELSE Ends(r)
  /\ Races(r)
  /\ UNCHANGED <<line, offer, wanted, ordered>>
Places(r) ==
  /\ At(r, "checkout", "place")
  /\ GoesTo(r, "empty")
  /\ ordered' = [i \in Items |-> ordered[i] + req[r].taken[i]]
  /\ UNCHANGED <<line, offer, wanted, raced>>
\* What is in the cart by now goes, ordered or not.
Empties(r) ==
  /\ At(r, "checkout", "empty")
  /\ line' = Without(Lines)
  /\ Ends(r)
  /\ UNCHANGED <<offer, wanted, ordered, raced>>
\* The process dies between the order and the emptying of the cart.
CheckoutDies(r) ==
  /\ At(r, "checkout", "empty")
  /\ Ends(r)
  /\ raced' = TRUE
  /\ UNCHANGED <<line, offer, wanted, ordered>>
-----------------------------------------------------------------------------
\* bundles.service: an update deletes the offers and creates others, a toggle
\* disables or enables them; the foreign key takes a deleted one off the lines.
OfferChanges(o) ==
  /\ offer[o] # "gone"
  /\ \E st \in {"live", "off", "gone"} \ {offer[o]} :
       /\ offer' = [offer EXCEPT ![o] = st]
       /\ line' = IF st = "gone"
                  THEN [l \in Lines |-> [line[l] EXCEPT !.offer = @ \ {o}]] ELSE line
  /\ UNCHANGED <<req, wanted, ordered, raced>>

\* Carts such as requests that did not overlap leave them.
InitC ==
  /\ line \in [Lines -> {NoLine} \cup [item : {{i} : i \in Items},
                offer : {{}} \cup {{o} : o \in Offers}, qty : Quantities]]
  /\ \A l \in Held : \A o \in line[l].offer :
       Whole(o, line[l].qty) /\ line[l].item \subseteq FitsOf[o]
  /\ \A l \in Held, k \in Lines : k < l => k \in Held
  /\ offer \in [Offers -> {"live", "off"}]
  /\ wanted = [i \in Items |-> Pieces(i)]
  /\ ordered = [i \in Items |-> 0]
  /\ raced = FALSE

NextC(r) ==
  \/ \E i \in Items, os \in {{}} \cup {{o} : o \in Offers}, n \in Quantities :
       Arrives(r) /\ Adds(r, i, os, n)
  \/ ValidatesAdd(r)
  \/ ChecksSame(r)
  \/ FindsLine(r)
  \/ WritesLine(r)
  \/ \E l \in Lines, ns \in {{}} \cup {{n} : n \in Quantities},
        oss \in {{}, {{}}} \cup {{{o}} : o \in Offers} : Updates(r, l, ns, oss)
  \/ ValidatesUpdate(r)
  \/ ChecksMultiple(r)
  \/ UpdatesLine(r)
  \/ \E l \in Lines : Removes(r, l)
  \/ ClearsCart(r)
  \/ Gets(r)
  \/ Fetches(r)
  \/ Looks(r)
  \/ TakesOff(r)
  \/ ChecksOut(r)
  \/ Places(r)
  \/ Empties(r)
  \/ CheckoutDies(r)

TypeOKC ==
  /\ \A l \in Lines : /\ line[l].item \subseteq Items /\ Cardinality(line[l].item) <= 1
                      /\ line[l].offer \subseteq Offers /\ Cardinality(line[l].offer) <= 1
                      /\ line[l].qty \in Nat
  /\ offer \in [Offers -> {"live", "off", "gone"}]
  /\ wanted \in [Items -> Int] /\ ordered \in [Items -> Nat] /\ raced \in BOOLEAN

\* A line carries an offer only in a quantity the checkout accepts, whatever
\* the seller does to the offers meanwhile; only overlapping requests of the
\* customer can break it.
BundleLinesWhole ==
  raced \/ \A l \in Held : \A o \in line[l].offer : Whole(o, line[l].qty)

\* Every piece the customer asked for and did not take out is in the cart or
\* in an order, and in one of them only, once no checkout is under way; only
\* overlapping requests and a crash in a checkout lose or double one.
PiecesAreKept ==
  raced \/ Running("checkout") # {} \/ \A i \in Items : Pieces(i) + ordered[i] = wanted[i]
=============================================================================
