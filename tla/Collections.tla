------------------------------ MODULE Collections ------------------------------
(***************************************************************************)
(* The collections of a creator (creator-categories.service.ts): a tree    *)
(* the storefront walks, an order among them, and the products linked to   *)
(* each.  A move walks from the new parent to the root, one read at a time,*)
(* and writes afterwards; the links of a collection are deleted and then   *)
(* created again.                                                          *)
(***************************************************************************)
EXTENDS Products

CONSTANT Owned   \* the collections that are this creator's; the others are another's

ASSUME OwnedCats == Owned \subseteq Cats

VARIABLES
  sort,    \* sort_order of the collections
  crossed  \* whether two moves of one tree overlapped
varsK == <<sort, crossed>>

\* What a step of this module leaves alone in Products.
goods == <<product, part, variant, histP>>
Mine == Rows \cap Owned

\* findAll puts each row below its parent, and those without one at the top:
\* all are shown when following parents always ends.
AllShown == \A C \in (SUBSET Mine) \ {{}} : \E c \in C : ParentOf(c) \cap C = {}
-----------------------------------------------------------------------------
\* create: the parent is read first, the row written after it; the foreign key
\* refuses a parent deleted in between.
NewCollection(r, c, parent) ==
  /\ Arrives(r) /\ c \in Owned /\ cat[c] = NoCat
  /\ \A s \in Running("newcat") : req[s].c # c
  /\ IF parent \subseteq Mine
     THEN \E ps \in SUBSET Ps :
            Start(r, [op |-> "newcat", at |-> "row", c |-> c, parent |-> parent, ps |-> ps])
     ELSE Ends(r)
  /\ UNCHANGED <<varsP, varsK>>
StoresCollection(r) ==
  LET q == req[r] IN
  /\ At(r, "newcat", "row")
  /\ IF q.parent \subseteq Rows
     THEN /\ cat' = [cat EXCEPT ![q.c] = Coll(q.parent)]
          /\ sort' = [sort EXCEPT ![q.c] = 0]
          /\ req' = [req EXCEPT ![r] = [op |-> "link", at |-> "attach", c |-> q.c, ps |-> q.ps]]
     ELSE Ends(r) /\ UNCHANGED <<cat, sort>>
  /\ UNCHANGED <<goods, links, crossed>>

\* update: a new parent, or none, and the products of the collection anew.
EditsCollection(r, c, parents, pss) ==
  /\ Arrives(r) /\ c \in Mine
  /\ \A parent \in parents : parent \subseteq Mine
  /\ Start(r, [op |-> "edit", c |-> c, parents |-> parents, pss |-> pss,
               at |-> IF parents \in {{}, {{}}} THEN "row" ELSE "walk",
               cursor |-> UNION parents, seen |-> {}])
  /\ crossed' = (crossed \/ (parents # {} /\ \E s \in Running("edit") : req[s].parents # {}))
  /\ UNCHANGED <<varsP, sort>>

\* MUTANT: only the collection itself is refused as its parent.
MeetsItselfOnly(q, c) == q.seen = {} /\ c = q.c
MeetsItself(q, c) == c = q.c

\* assertNoCycle, one collection up per read.
Walks(r) ==
  LET q == req[r] IN
  /\ At(r, "edit", "walk")
  /\ req' = [req EXCEPT ![r] =
       IF q.cursor = {} \/ q.cursor \subseteq q.seen THEN [q EXCEPT !.at = "row"]
       ELSE IF \E c \in q.cursor : MeetsItself(q, c) THEN Over
       ELSE [q EXCEPT !.seen = @ \cup q.cursor, !.cursor = UNION {ParentOf(c) : c \in q.cursor}]]
  /\ UNCHANGED <<varsP, varsK>>
MovesCollection(r) ==
  LET q == req[r] IN
  /\ At(r, "edit", "row")
  /\ IF q.c \in Rows /\ UNION q.parents \subseteq Rows
     THEN /\ cat' = [cat EXCEPT ![q.c].parent = IF q.parents = {} THEN @ ELSE UNION q.parents]
          /\ req' = [req EXCEPT ![r] = IF q.pss = {} THEN Over
                       ELSE [op |-> "link", at |-> "clear", c |-> q.c, ps |-> UNION q.pss]]
     ELSE Ends(r) /\ UNCHANGED cat
  /\ UNCHANGED <<goods, links, sort, crossed>>

\* The links to products, and likewise to custom products: all deleted, then
\* those of the creator among the ones sent.
EmptiesCollection(r) ==
  /\ At(r, "link", "clear")
  /\ links' = {l \in links : l[2] # req[r].c}
  /\ GoesTo(r, "attach")
  /\ UNCHANGED <<goods, cat, sort, crossed>>
FillsCollection(r) ==
  LET q == req[r] IN
  /\ At(r, "link", "attach")
  /\ links' = IF q.c \in Rows THEN links \cup ((q.ps \cap Existing) \X {q.c}) ELSE links
  /\ Ends(r)
  /\ UNCHANGED <<goods, cat, sort, crossed>>

\* delete: the foreign keys take the links and make the children roots.
DropsCollection(r, c) ==
  /\ Arrives(r) /\ c \in Mine
  /\ cat' = [k \in Cats |-> CASE k = c            -> GoneCat
                              [] k \in Rows \ {c} -> Coll(ParentOf(k) \ {c})
                              [] OTHER            -> cat[k]]
  /\ links' = {l \in links : l[2] # c}
  /\ Ends(r)
  /\ UNCHANGED <<goods, sort, crossed>>

\* reorder: the ids are checked, then numbered in a transaction that fails as
\* a whole when one of them is gone.
Reorders(r, ids) ==
  /\ Arrives(r)
  /\ IF \A i \in DOMAIN ids : ids[i] \in Mine
     THEN Start(r, [op |-> "reorder", at |-> "write", ids |-> ids])
     ELSE Ends(r)
  /\ UNCHANGED <<varsP, varsK>>
WritesOrder(r) ==
  LET ids == req[r].ids
      pos(c) == CHOOSE i \in DOMAIN ids : ids[i] = c
  IN  /\ At(r, "reorder", "write")
      /\ sort' = IF \A i \in DOMAIN ids : ids[i] \in Rows
                 THEN [c \in Cats |-> IF \E i \in DOMAIN ids : ids[i] = c THEN pos(c) - 1 ELSE sort[c]]
                 ELSE sort
      /\ Ends(r)
      /\ UNCHANGED <<varsP, crossed>>

\* Another creator's collection, and trees as moves one after the other leave
\* them.
InitK ==
  /\ cat \in [Cats -> {NoCat} \cup {Coll(p) : p \in {{}} \cup {{c} : c \in Owned}}]
  /\ \A c \in Cats \ Owned : cat[c] = Coll({})
  /\ \A c \in Rows : ParentOf(c) \subseteq Mine
  /\ AllShown
  /\ sort = [c \in Cats |-> 0]
  /\ crossed = FALSE

NextK(r) ==
  \/ /\ Arrives(r)
     /\ \/ \E c \in Cats, p \in {{}} \cup {{k} : k \in Cats} : NewCollection(r, c, p)
        \/ \E c \in Cats, ps \in {{}, {{}}} \cup {{{k}} : k \in Cats}, pss \in {{}, {{}}, {Ps}} :
             (ps # {} \/ pss # {}) /\ EditsCollection(r, c, ps, pss)
        \/ \E c \in Cats : DropsCollection(r, c)
        \/ \E ids \in [1..2 -> Cats] : ids[1] # ids[2] /\ Reorders(r, ids)
  \/ StoresCollection(r)
  \/ Walks(r)
  \/ MovesCollection(r)
  \/ EmptiesCollection(r)
  \/ FillsCollection(r)
  \/ WritesOrder(r)

TypeOKK ==
  /\ \A c \in Cats : cat[c] \in {NoCat, GoneCat} \/ (ParentOf(c) \subseteq Cats /\ Cardinality(ParentOf(c)) <= 1)
  /\ sort \in [Cats -> Nat] /\ crossed \in BOOLEAN

\* Every collection hangs below a root, so the dashboard's tree shows all of
\* them and no walk over parents runs in a circle, unless two moves overlapped.
AllAreShown == crossed \/ AllShown
=============================================================================
