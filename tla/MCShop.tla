--------------------------------- MODULE MCShop ---------------------------------
(***************************************************************************)
(* TLC instance of what a creator sells: the shop and its cart (Shop), and *)
(* the custom products of a provider's goods (CustomProducts).             *)
(***************************************************************************)
EXTENDS Shop, CustomProducts

MCOwner == [v1 |-> "p1", v2 |-> "p1", w1 |-> "p2"]
MCPieces == [o1 |-> 2]
MCFits == [o1 |-> {"a"}]

\* One payload per rule of CustomProductsService.update: the text, with and
\* without asking for PUBLISHED; the status alone; the price; the pricing type;
\* the bundles.
Empty == [slug |-> {}, status |-> {}, price |-> {}, pricing |-> {}, bundles |-> {}]
MCEdits ==
  {[Empty EXCEPT !.slug = {"s1"}], [Empty EXCEPT !.slug = {"s2"}, !.status = {"PUBLISHED"}],
   [Empty EXCEPT !.status = {"PUBLISHED"}], [Empty EXCEPT !.status = {"DRAFT"}],
   [Empty EXCEPT !.price = {0}], [Empty EXCEPT !.price = {2}],
   [Empty EXCEPT !.pricing = {"SINGLE"}],
   [Empty EXCEPT !.bundles = {{"b1"}}], [Empty EXCEPT !.bundles = {{}}],
   [Empty EXCEPT !.bundles = {{"b1"}}, !.price = {2}]}

\* Bound: the requests of a behaviour go to one part of the shop, whose rows
\* may be in any initial state while the other parts are in a plain one; from
\* a plain state they go to products and collections alike.
VARIABLE area
EmptyCart == Held = {} /\ offer = [o \in Offers |-> "live"]
OneTree   == Mine = {"k1"}
OneProduct == product["p1"] = "DRAFT" /\ variant["v1"] = Live({2}) /\ links = {}
NoCustom ==
  /\ row = [c \in CPs |-> Absent] /\ base = [price |-> 1, published |-> TRUE]
  /\ offers = [b \in Bundles |-> {}] /\ sold = [b \in Bundles |-> "none"] /\ independent = FALSE
  /\ reviewed = {} /\ selfPublished = {} /\ overtaken = {}
  /\ lost = {} /\ excused = {} /\ clashed = {}

\* One custom product at any stage of its review, a second one not yet created.
OneCustom ==
  /\ base = [price |-> 1, published |-> TRUE] /\ independent = FALSE
  /\ offers \in [Bundles -> {{}} \cup {{d} : d \in Discounts}]
  /\ row \in {[c \in CPs |-> IF c = "c1" THEN one ELSE Absent] :
              one \in [status : Reviewable, provider : BOOLEAN, pricing : Pricing, price : Prices,
                      text : {"s1"}, bundles : SUBSET Bundles]}

MCInit ==
  /\ Init
  /\ \/ area = "products" /\ EmptyCart /\ OneTree /\ variant["v1"] # Live({0})
     \/ area = "collections" /\ EmptyCart /\ OneProduct
     \/ area \in {"both", "custom"} /\ EmptyCart /\ OneProduct /\ OneTree
     \/ area = "cart" /\ OneTree /\ OneProduct
  /\ IF area = "custom" THEN OneCustom /\ CustomInit ELSE NoCustom
InShop ==
  \/ area \in {"products", "both"} /\ \E r \in Requests : Selling(r)
  \/ area \in {"collections", "both"} /\ \E r \in Requests : Collecting(r)
  \/ area = "cart" /\ ((\E r \in Requests : Shopping(r)) \/ Offering)
Next ==
  /\ \/ InShop /\ UNCHANGED <<rows, history>>
     \/ area = "custom" /\ CustomNext /\ UNCHANGED <<varsP, varsK, varsC>>
  /\ UNCHANGED area
Spec == MCInit /\ [][Next]_<<varsShop, rows, history, area>>
=============================================================================
