-------------------------------- MODULE Products --------------------------------
(***************************************************************************)
(* A seller's own products (products.service.ts) with their variants       *)
(* (variants.service.ts) and the rows that hang on them: translations,     *)
(* attributes, tags, links to collections.                                 *)
(*                                                                         *)
(* The editor of the dashboard loads a product and later sends back all of *)
(* it.  The save runs part by part: only the variants are in a             *)
(* transaction, and a refusal half way leaves what was already saved.      *)
(***************************************************************************)
EXTENDS Requests, FiniteSets, SequencesExt

CONSTANTS
  Ps,       \* product ids
  Vs,       \* variant ids
  OwnerOf,  \* Vs -> Ps
  Cats,     \* collections of the creator
  Counts    \* stock a seller counts

ASSUME OwnersOK == OwnerOf \in [Vs -> Ps]
ASSUME SomeVariant == Vs # {}
ASSUME CountsNat == Counts \subseteq Nat

\* ProductTag has no unique index, the other two have one per product.
Parts  == <<"translations", "attributes", "tags">>
Unique(part) == part # "tags"
Unborn == [is |-> "unborn"]
Gone   == [is |-> "gone"]
\* stock_quantity: a number, or {} for null (not tracked).
Live(stock) == [is |-> "live", stock |-> stock]

VARIABLES
  product,  \* Product.status; "none" when there is no such row yet, "gone" when deleted
  part,     \* how often each part of a product is stored
  variant,  \* ProductVariant rows: Unborn, Gone or Live with its stock
  cat,      \* CreatorCategory rows (Collections)
  links,    \* ProductCreatorCategory rows
  \* history
  book,     \* what is on the seller's shelf: counted by hand, minus what was sold
  stale,    \* variants saved with a stock read before a sale
  died,     \* products a save of which stopped in its middle
  overlap   \* products two saves of which overlapped

rowsP == <<product, part, variant, cat, links>>
histP == <<book, stale, died, overlap>>
varsP == <<product, part, variant, cat, links, book, stale, died, overlap>>

Existing == {p \in Ps : product[p] \notin {"none", "gone"}}
IsLive(v) == variant[v].is = "live"
VariantsOf(p) == {v \in Vs : OwnerOf[v] = p /\ IsLive(v)}
Unused(p) == {v \in Vs : OwnerOf[v] = p /\ variant[v] = Unborn
                /\ \A r \in Running("save") : v \notin req[r].new}
-----------------------------------------------------------------------------
(* Saving a product *)

\* What is left of a save is a sequence of statements; the parts of the
\* product it replaces are in req[r].parts, in the same order.
NextIs(r, step) == r \in Running("save") /\ Head(req[r].todo) = step
Rest(q) == IF Len(q.todo) = 1 THEN Over ELSE [q EXCEPT !.todo = Tail(@)]
GoesOn(r) == req' = [req EXCEPT ![r] = Rest(@)]

\* What update goes through for each payload tried (bound): the row, then
\* those of its parts the payload has.
Payloads == {{"variants"}, {"collections"}, {"bundles"}, {"parts"}, {"variants", "parts"}}
Statements(sends) ==
  CASE sends = {"variants"}          -> <<"row", "sync">>
    [] sends = {"collections"}       -> <<"row", "unlink", "link">>
    [] sends = {"bundles"}           -> <<"row", "bundles">>
    [] sends = {"parts"}             -> <<"row", "clear", "create", "clear", "create", "clear", "create">>
    [] sends = {"variants", "parts"} -> <<"row", "sync", "clear", "create", "clear", "create", "clear", "create">>

\* GET /products/:id, then PUT with what the seller made of it: the variants
\* kept, with the stock as shown or counted anew; a variant added; the parts
\* and collections to replace; bundle ids that may be somebody else's.
Opens(r, p) ==
  /\ Arrives(r) /\ p \in Existing
  /\ \E drop, counted \in {{}} \cup {{v} : v \in VariantsOf(p)}, n \in Counts,
        new \in {{}} \cup {{v} : v \in Unused(p)}, cats \in {{}, Cats}, foreign \in BOOLEAN,
        sends \in Payloads :
       /\ drop \cap counted = {}
       /\ "variants" \notin sends => drop = {} /\ counted = {} /\ new = {}
       /\ "collections" \notin sends => cats = {}
       /\ "bundles" \notin sends => ~foreign
       /\ Start(r, [op |-> "save", p |-> p, todo |-> Statements(sends),
             shown |-> [v \in VariantsOf(p) \ drop |->
                          IF v \in counted THEN {n} ELSE variant[v].stock],
             counted |-> counted, new |-> new, first |-> n, parts |-> Parts,
             cats |-> cats, foreign |-> foreign])
  /\ UNCHANGED varsP

\* create: the row with its translations in one statement; then attributes,
\* tags, collections, bundles and, last, the variants.
Creates(r, p) ==
  /\ Arrives(r) /\ product[p] = "none"
  /\ product' = [product EXCEPT ![p] = "DRAFT"]
  /\ part' = [part EXCEPT ![p]["translations"] = 1]
  /\ \E new \in {{}} \cup {{v} : v \in Unused(p)}, n \in Counts, cats \in {{}, Cats},
        foreign \in BOOLEAN :
       Start(r, [op |-> "save", p |-> p, todo |-> <<"create", "create", "link", "bundles", "sync">>,
                 shown |-> [v \in {} |-> {}], counted |-> {}, new |-> new, first |-> n,
                 parts |-> Tail(Parts), cats |-> cats, foreign |-> foreign])
  /\ UNCHANGED <<variant, cat, links, histP>>

\* update writes the row, after the ownership checks.
SavesRow(r) ==
  /\ NextIs(r, "row")
  /\ IF req[r].p \in Existing THEN GoesOn(r) ELSE Ends(r)
  /\ overlap' = IF \E s \in Running("save") \ {r} :
                     req[s].p = req[r].p /\ Head(req[s].todo) # "row"
                THEN overlap \cup {req[r].p} ELSE overlap
  /\ UNCHANGED <<rowsP, book, stale, died>>

\* MUTANT: a stock of zero is stored as null, the way an empty SKU is.
SyncedZeroAsNull(q, v) ==
  LET none(stock) == IF stock = {0} THEN {} ELSE stock IN
  CASE v \in DOMAIN q.shown /\ IsLive(v) -> Live(none(q.shown[v]))
    [] v \in q.new                       -> Live(none({q.first}))
    [] OTHER -> IF OwnerOf[v] = q.p /\ IsLive(v) THEN Gone ELSE variant[v]

\* The transaction: kept variants are updated in place, new ones created, and
\* every other variant of the product deleted, shown to the seller or not.
Synced(q, v) ==
  CASE v \in DOMAIN q.shown /\ IsLive(v) -> Live(q.shown[v])
    [] v \in q.new                       -> Live({q.first})
    [] OTHER -> IF OwnerOf[v] = q.p /\ IsLive(v) THEN Gone ELSE variant[v]

\* What the seller wrote down by hand; what merely came back with the form
\* and is not what is on the shelf by now.
Counted(q) == q.new \cup q.counted
SoldSince(q) == {v \in DOMAIN q.shown \ q.counted : IsLive(v) /\ q.shown[v] # book[v]}

SavesVariants(r) ==
  LET q == req[r] IN
  /\ NextIs(r, "sync")
  /\ IF q.p \notin Existing THEN Ends(r) /\ UNCHANGED <<variant, book, stale>>
     ELSE /\ GoesOn(r)
          /\ variant' = [v \in Vs |-> Synced(q, v)]
          /\ book' = [v \in Vs |-> CASE v \in q.new     -> {q.first}
                                     [] v \in q.counted -> q.shown[v]
                                     [] OTHER           -> book[v]]
          /\ stale' = (stale \ Counted(q)) \cup SoldSince(q)
  /\ UNCHANGED <<product, part, cat, links, died, overlap>>

LinksOf(p) == {l \in links : l[1] = p}
\* No such row, not yet or no more: an id is not given twice.
NoCat   == [is |-> "absent"]
GoneCat == [is |-> "gone"]
Coll(parent) == [is |-> "row", parent |-> parent]   \* parent: {} or its id
Rows == {c \in Cats : cat[c].is = "row"}
ParentOf(c) == IF c \in Rows THEN cat[c].parent ELSE {}

\* The collections: deleted, then those that are the creator's attached.
FreesLinks(r) ==
  /\ NextIs(r, "unlink")
  /\ GoesOn(r)
  /\ links' = links \ LinksOf(req[r].p)
  /\ UNCHANGED <<product, part, variant, cat, histP>>
Attaches(r) ==
  LET q == req[r] IN
  /\ NextIs(r, "link")
  /\ IF q.p \in Existing \/ q.cats = {}
     THEN links' = links \cup {<<q.p, c>> : c \in q.cats \cap Rows} /\ GoesOn(r)
     ELSE Ends(r) /\ UNCHANGED links
  /\ UNCHANGED <<product, part, variant, cat, histP>>

\* The bundles: a foreign id is refused only here.
ChecksBundles(r) ==
  /\ NextIs(r, "bundles")
  /\ IF req[r].foreign THEN Ends(r) ELSE GoesOn(r)
  /\ UNCHANGED varsP

\* Translations, attributes and tags, each deleted and created again.
ClearsPart(r) ==
  LET q == req[r] IN
  /\ NextIs(r, "clear")
  /\ GoesOn(r)
  /\ part' = [part EXCEPT ![q.p][Head(q.parts)] = 0]
  /\ UNCHANGED <<product, variant, cat, links, histP>>
CreatesPart(r) ==
  LET q == req[r]
      x == Head(q.parts)
  IN  /\ NextIs(r, "create")
      /\ IF q.p \notin Existing \/ (Unique(x) /\ part[q.p][x] > 0)
         THEN Ends(r) /\ UNCHANGED part
         ELSE /\ part' = [part EXCEPT ![q.p][x] = @ + 1]
              /\ req' = [req EXCEPT ![r] = Rest([q EXCEPT !.parts = Tail(@)])]
      /\ UNCHANGED <<product, variant, cat, links, histP>>

\* A statement fails or the process dies between two statements.
SaveDies(r) ==
  /\ r \in Running("save") /\ Head(req[r].todo) # "row"
  /\ Ends(r)
  /\ died' = died \cup {req[r].p}
  /\ UNCHANGED <<rowsP, book, stale, overlap>>
-----------------------------------------------------------------------------
(* The other operations on a product *)

\* updateStatus: no step of a review stands between.
SetsStatus(r, p) ==
  /\ Arrives(r) /\ p \in Existing
  /\ product' = [product EXCEPT ![p] = IF @ = "DRAFT" THEN "PUBLISHED" ELSE "DRAFT"]
  /\ Ends(r)
  /\ UNCHANGED <<part, variant, cat, links, histP>>

\* delete: the foreign keys take everything that hangs on the product.
Deletes(r, p) ==
  /\ Arrives(r) /\ p \in Existing
  /\ product' = [product EXCEPT ![p] = "gone"]
  /\ part' = [part EXCEPT ![p] = [x \in ToSet(Parts) |-> 0]]
  /\ variant' = [v \in Vs |-> IF OwnerOf[v] = p /\ IsLive(v) THEN Gone ELSE variant[v]]
  /\ links' = links \ LinksOf(p)
  /\ Ends(r)
  /\ UNCHANGED <<cat, histP>>

\* duplicate: the copy is a DRAFT; its variants take over the stock.
Duplicates(r, p, p2) ==
  /\ Arrives(r) /\ p \in Existing /\ product[p2] = "none"
  /\ Cardinality(Unused(p2)) >= Cardinality(VariantsOf(p))
  /\ LET copy == CHOOSE f \in [VariantsOf(p) -> Unused(p2)] : IsInjective(f)
         from(v) == CHOOSE o \in VariantsOf(p) : copy[o] = v
         copied == {copy[o] : o \in VariantsOf(p)}
     IN  /\ variant' = [v \in Vs |-> IF v \in copied THEN variant[from(v)] ELSE variant[v]]
         /\ book' = [v \in Vs |-> IF v \in copied THEN variant[from(v)].stock ELSE book[v]]
  /\ product' = [product EXCEPT ![p2] = "DRAFT"]
  /\ part' = [part EXCEPT ![p2] = part[p]]
  /\ died' = IF \A x \in ToSet(Parts) : part[p][x] = 1 THEN died ELSE died \cup {p2}
  /\ Ends(r)
  /\ UNCHANGED <<cat, links, stale, overlap>>

\* variants.service: create, update and updateStock write what they are given.
AddsVariant(r, p) ==
  /\ Arrives(r) /\ p \in Existing
  /\ \E v \in Unused(p), n \in Counts :
       /\ variant' = [variant EXCEPT ![v] = Live({n})]
       /\ book' = [book EXCEPT ![v] = {n}]
  /\ Ends(r)
  /\ UNCHANGED <<product, part, cat, links, stale, died, overlap>>
SetsStock(r, v, n) ==
  /\ Arrives(r) /\ IsLive(v)
  /\ variant' = [variant EXCEPT ![v] = Live({n})]
  /\ book' = [book EXCEPT ![v] = {n}]
  /\ stale' = stale \ {v}
  /\ Ends(r)
  /\ UNCHANGED <<product, part, cat, links, died, overlap>>
DeletesVariant(r, v) ==
  /\ Arrives(r) /\ IsLive(v)
  /\ variant' = [variant EXCEPT ![v] = Gone]
  /\ Ends(r)
  /\ UNCHANGED <<product, part, cat, links, histP>>

\* An order takes one piece (orders.service, Checkout).
Sells(v) ==
  /\ IsLive(v) /\ variant[v].stock # {0}
  /\ variant' = [variant EXCEPT ![v] = Live({n - 1 : n \in @.stock})]
  /\ book' = [book EXCEPT ![v] = {n - 1 : n \in @}]
Sold(r, v) ==
  /\ Arrives(r) /\ Sells(v) /\ Ends(r)
  /\ UNCHANGED <<product, part, cat, links, stale, died, overlap>>
-----------------------------------------------------------------------------
\* One product with its variants, some not tracked; ids left for new ones.
InitP ==
  LET p == CHOOSE p \in Ps : \E v \in Vs : OwnerOf[v] = p
      v == CHOOSE v \in Vs : OwnerOf[v] = p
  IN  \E st \in {"DRAFT", "PUBLISHED"}, stock \in {{}} \cup {{n} : n \in Counts},
         ls \in SUBSET ({p} \X Rows) :
        /\ product = [x \in Ps |-> IF x = p THEN st ELSE "none"]
        /\ part = [x \in Ps |-> [y \in ToSet(Parts) |-> IF x = p THEN 1 ELSE 0]]
        /\ variant = [w \in Vs |-> IF w = v THEN Live(stock) ELSE Unborn]
        /\ links = ls
        /\ book = [w \in Vs |-> IF w = v THEN stock ELSE {}]
        /\ stale = {} /\ died = {} /\ overlap = {}

NextP(r) ==
  \/ \E p \in Ps : Opens(r, p)
  \/ SavesRow(r)
  \/ SavesVariants(r)
  \/ FreesLinks(r)
  \/ Attaches(r)
  \/ ChecksBundles(r)
  \/ ClearsPart(r)
  \/ CreatesPart(r)
  \/ SaveDies(r)
  \/ /\ Arrives(r)
     /\ \/ \E p \in Ps : Creates(r, p)
        \/ \E p \in Ps : SetsStatus(r, p)
        \/ \E p \in Ps : Deletes(r, p)
        \/ \E p, p2 \in Ps : Duplicates(r, p, p2)
        \/ \E p \in Ps : AddsVariant(r, p)
        \/ \E v \in Vs, n \in Counts : SetsStock(r, v, n)
        \/ \E v \in Vs : DeletesVariant(r, v)
        \/ \E v \in Vs : Sold(r, v)

TypeOKP ==
  /\ product \in [Ps -> {"none", "gone", "DRAFT", "PUBLISHED"}]
  /\ part \in [Ps -> [ToSet(Parts) -> 0 .. MaxRequests + 1]]
  /\ \A v \in Vs : \/ variant[v] \in {Unborn, Gone}
                   \/ variant[v].stock \subseteq Nat /\ Cardinality(variant[v].stock) <= 1
  /\ links \subseteq Ps \X Cats
  /\ stale \subseteq Vs /\ died \subseteq Ps /\ overlap \subseteq Ps

\* The stock on offer is what the seller counted less what was sold since,
\* through orders, saves, single updates and copies in any order; only a save
\* that carries a stock read before a sale puts the old figure back.
StockIsCounted ==
  \A v \in Vs \ stale : IsLive(v) => variant[v].stock = book[v]

\* Outside of a running save, a product has its translations, attributes and
\* tags exactly once, unless a save stopped half way or two overlapped.
PartsAreWhole ==
  \A p \in Existing \ (died \cup overlap) :
    \/ \E r \in Running("save") : req[r].p = p
    \/ \A x \in ToSet(Parts) : part[p][x] = 1
=============================================================================
