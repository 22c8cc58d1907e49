------------------------------- MODULE ShopProofs -------------------------------
(***************************************************************************)
(* Proofs about what a creator sells: the custom products of a provider's  *)
(* goods with their bundles (CustomProducts), own products, collections    *)
(* and the cart (Shop), for any number of requests and rows.               *)
(***************************************************************************)
EXTENDS Shop, CustomProducts, FiniteSetTheorems, TLAPS

-------------------------------------------------------------------------------
(* Custom products: typing.                                                  *)

Marks == {"row", "floor", "slug"}
Creating == [op : {"create"}, cp : CPs, arg : Row, at : {"read"}, seen : Row \cup {Absent},
             cost : Costs, over : SUBSET Marks]
Updating == [op : {"update"}, cp : CPs, arg : EditPayloads, at : {"read", "checked", "cleared"},
             seen : Row, cost : Costs, over : SUBSET Marks]
Deciding == [op : {"submit", "approve", "reject"}, cp : CPs, arg : {{}}, at : {"read"},
             seen : Row, cost : Costs, over : SUBSET Marks]
BundleSaves == [op : {"bundle"}, cp : {NoCP}, at : {"read"}, over : SUBSET Marks, seen : {Absent},
              arg : [b : Bundles, offs : SUBSET Discounts, cs : SUBSET CPs, new : BOOLEAN]]
BundleDrops == [op : {"unbundle"}, cp : {NoCP}, at : {"read"}, over : SUBSET Marks, seen : {Absent},
               arg : [b : Bundles]]
CustomCalls == {Idle, Over} \cup Creating \cup Updating \cup Deciding \cup BundleSaves \cup BundleDrops

CustomTypeInv ==
  /\ row \in [CPs -> Row \cup {Absent}]
  /\ base \in [price : Costs, published : BOOLEAN]
  /\ offers \in [Bundles -> SUBSET Discounts]
  /\ sold \in [Bundles -> {"none", "kept", "lost"}]
  /\ independent \in BOOLEAN
  /\ req \in [Requests -> CustomCalls]
  /\ reviewed \subseteq CPs /\ selfPublished \subseteq CPs /\ overtaken \subseteq CPs
  /\ lost \subseteq CPs /\ excused \subseteq CPs /\ clashed \subseteq CPs

LEMMA AbsentIsNoRow == Absent \notin Row /\ \A x \in Row : x.status # "absent"
BY DEF Absent, Row, Reviewable

\* A request is of one kind, which its operation tells.
LEMMA CallIs ==
  ASSUME NEW q \in CustomCalls
  PROVE  /\ q.op = "create" => q \in Creating
         /\ q.op = "update" => q \in Updating
         /\ q.op \in {"submit", "approve", "reject"} => q \in Deciding
         /\ q.op = "bundle" => q \in BundleSaves
         /\ q.op = "unbundle" => q \in BundleDrops
         /\ q \notin {Idle, Over} => q.over \in SUBSET Marks /\ q.op \notin {"idle", "done"}
BY DEF CustomCalls, Creating, Updating, Deciding, BundleSaves, BundleDrops, Idle, Over

Mark(q, X) == IF q \in {Idle, Over} THEN q ELSE [q EXCEPT !.over = @ \cup X]

LEMMA MarkIs ==
  ASSUME NEW q \in CustomCalls, NEW X \in SUBSET Marks
  PROVE  /\ Mark(q, X) \in CustomCalls
         /\ q \in {Idle, Over} => Mark(q, X) = q
         /\ q \notin {Idle, Over} => /\ Mark(q, X).op = q.op /\ Mark(q, X).at = q.at /\ Mark(q, X).cp = q.cp
                                     /\ Mark(q, X).arg = q.arg /\ Mark(q, X).seen = q.seen
                                     /\ q.op = "update" => Mark(q, X).cost = q.cost
                                     /\ Mark(q, X).over = q.over \cup X
                                     /\ Mark(q, X) \notin {Idle, Over}
BY DEF Mark, CustomCalls, Creating, Updating, Deciding, BundleSaves, BundleDrops, Idle, Over

\* What a write marks of the others.
Marked(q, c, what) == what \ IF q.cp = c THEN {} ELSE {"row"}

LEMMA FinishMoves ==
  ASSUME CustomTypeInv, NEW r \in Requests, NEW c, NEW what \in SUBSET Marks,
         req' = Touch(Done(req, r), c, what)
  PROVE  /\ req' \in [Requests -> CustomCalls]
         /\ req'[r] = Over
         /\ \A s \in Requests \ {r} : req'[s] = Mark(req[s], Marked(req[s], c, what))
<1>0. Over \in CustomCalls
  BY DEF CustomCalls
<1>1. \A s \in Requests \ {r} : req'[s] = Mark(req[s], Marked(req[s], c, what))
  BY DEF Touch, Done, Mark, Marked, CustomTypeInv
<1>2. req'[r] = Over
  BY DEF Touch, Done, CustomTypeInv
<1>3. ASSUME NEW s \in Requests \ {r}
      PROVE  req'[s] \in CustomCalls
  <2>1. req[s] \in CustomCalls
    BY DEF CustomTypeInv
  <2>2. Marked(req[s], c, what) \in SUBSET Marks
    BY DEF Marked
  <2> QED
    BY <1>1, <2>1, <2>2, MarkIs
<1>4. req' = [s \in Requests |-> req'[s]]
  BY DEF Touch
<1> QED
  BY <1>0, <1>1, <1>2, <1>3, <1>4

LEMMA StartMovesC ==
  ASSUME CustomTypeInv, NEW r \in Requests, NEW q \in CustomCalls, Start(r, q)
  PROVE  /\ req' \in [Requests -> CustomCalls]
         /\ req'[r] = q /\ \A s \in Requests \ {r} : req'[s] = req[s]
BY DEF Start, CustomTypeInv

LEMMA EndMovesC ==
  ASSUME CustomTypeInv, NEW r \in Requests, Ends(r)
  PROVE  /\ req' \in [Requests -> CustomCalls]
         /\ req'[r] = Over /\ \A s \in Requests \ {r} : req'[s] = req[s]
<1>1. Over \in CustomCalls
  BY DEF CustomCalls
<1> QED
  BY <1>1 DEF Ends, Done, CustomTypeInv

-------------------------------------------------------------------------------
(* Custom products: the inductive invariant.                                 *)

SameFace(x, y) == x.status = y.status /\ x.provider = y.provider /\ x.pricing = y.pricing /\ x.price = y.price
\* What an edit makes of the row it read, as far as its price goes.
Planned(q) == [q.seen EXCEPT !.pricing = Or(q.arg.pricing, @), !.price = Or(q.arg.price, @)]

\* What a request in flight knows of the rows, unless it was overtaken.
CreateSound(q) ==
  /\ row[q.cp] = Absent /\ q.arg.status = "DRAFT" /\ q.arg.text \in Slugs \cup {q.cp, NoText}
  /\ "floor" \notin q.over => RowCovers(q.arg, base.price, q.arg.bundles)
  /\ "slug" \notin q.over /\ q.arg.text # NoText => \A d \in Standing : row[d].text # q.arg.text
Agrees(q) == "row" \notin q.over => row[q.cp] # Absent /\ SameFace(row[q.cp], q.seen)
Forced(q) == ContentEdit(q.arg) /\ q.seen.status = "PUBLISHED" /\ q.seen.provider => q.arg.status = {"PENDING_REVIEW"}
EditCovers(q) ==
  q.at # "read" /\ "row" \notin q.over /\ "floor" \notin q.over =>
    /\ \A bs \in q.arg.bundles : RowCovers(Planned(q), base.price, bs)
    /\ q.arg.bundles = {} /\ q.arg.price # {} => RowCovers(Planned(q), base.price, row[q.cp].bundles)
EditFree(q) ==
  q.at # "read" /\ "slug" \notin q.over => \A t \in q.arg.slug, d \in Standing \ {q.cp} : row[d].text # t
EditSound(q) == Forced(q) /\ ("floor" \notin q.over => q.cost = base.price) /\ EditCovers(q) /\ EditFree(q)
SaveSound(q) == q.over = {} => \A c \in q.arg.cs \cap Standing : Covers(row[c], base.price, q.arg.offs)
RequestSound(q) ==
  /\ q.op = "create" => CreateSound(q)
  /\ q.op \in {"update", "submit", "approve", "reject"} => Agrees(q)
  /\ q.op = "update" => EditSound(q)
  /\ q.op = "bundle" => SaveSound(q)

\* No two requests create the same row.
CreatesApart == \A r, s \in Running("create") : r # s => req[r].cp # req[s].cp

\* An edit is about to write the slug it has cleared.
Rewriting(c) == \E r \in Requests : req[r].op = "update" /\ req[r].at = "cleared" /\ req[r].cp = c /\ req[r].arg.slug # {}
SlugInv ==
  /\ \A c \in Standing : row[c].text \in Slugs \cup {c, NoText}
  /\ \A c, d \in Standing \ clashed : c # d /\ row[c].text # NoText => row[c].text # row[d].text
  /\ \A c \in Standing \ lost : row[c].text # NoText \/ Rewriting(c)

CustomInv ==
  /\ CustomTypeInv /\ (\A r \in Requests : RequestSound(req[r])) /\ CreatesApart
  /\ PublishedWasReviewed /\ BundleAboveCost /\ SlugInv

LEMMA OfferedEnough == CustomInv => OfferedIsSound
<1> SUFFICES ASSUME CustomInv
             PROVE  OpensAtItsSlug
  BY DEF CustomInv, OfferedIsSound
<1> SUFFICES ASSUME NEW c \in Standing \ (lost \cup clashed),
                    ~\E r \in Requests : req[r].op = "update" /\ req[r].at = "cleared" /\ req[r].cp = c
             PROVE  row[c].text # NoText /\ \A d \in Standing \ ({c} \cup clashed) : row[d].text # row[c].text
  BY DEF OpensAtItsSlug
<1>1. row[c].text # NoText
  BY DEF CustomInv, SlugInv, Rewriting
<1> QED
  BY <1>1 DEF CustomInv, SlugInv

LEMMA CustomInitInv == CustomInit => CustomInv
<1> SUFFICES ASSUME CustomInit
             PROVE  CustomInv
  OBVIOUS
<1>1. CustomTypeInv
  BY DEF CustomInit, CustomTypeInv, NoRequests, CustomCalls, Standing
<1>2. \A r \in Requests : req[r] = Idle
  BY DEF CustomInit, NoRequests
<1>3. \A r \in Requests : RequestSound(req[r])
  BY <1>2 DEF RequestSound, Idle
<1>4. CreatesApart
  BY <1>2 DEF CreatesApart, Running, Idle
<1>5. PublishedWasReviewed /\ BundleAboveCost
  BY DEF CustomInit, PublishedWasReviewed, BundleAboveCost
<1>6. SlugInv
  <2>1. \A c \in Standing : row[c].text \in Slugs \cup {c} /\ ~SlugTaken(row[c].text, c)
    BY DEF CustomInit
  <2>2. \A c \in Standing : row[c].text # NoText
    BY <2>1, SlugsOK DEF Standing
  <2> QED
    BY <2>1, <2>2 DEF SlugInv, SlugTaken
<1> QED
  BY <1>1, <1>3, <1>4, <1>5, <1>6 DEF CustomInv

\* A step of r that leaves the rows alone.
LEMMA AskKeeps ==
  ASSUME CustomInv, NEW r \in Requests, CustomTypeInv',
         row' = row, offers' = offers, base'.price = base.price, UNCHANGED history,
         \A s \in Requests \ {r} : req'[s] = req[s], RequestSound(req'[r]),
         req'[r].op = "create" => \A s \in Requests \ {r} : req[s].op = "create" => req[s].cp # req'[r].cp,
         req[r].op = "update" /\ req[r].at = "cleared" => req'[r] = req[r]
  PROVE  CustomInv'
<1>1. ASSUME NEW s \in Requests
      PROVE  RequestSound(req[s])'
  <2>1. RequestSound(req'[s])
    BY DEF CustomInv
  <2> QED
    BY <2>1 DEF RequestSound, CreateSound, Agrees, EditSound, EditCovers, EditFree, SaveSound, Forced, RowCovers,
                Standing, Planned
<1>2. CreatesApart'
  BY DEF CreatesApart, Running, CustomInv
<1>3. PublishedWasReviewed' /\ BundleAboveCost'
  BY DEF CustomInv, PublishedWasReviewed, BundleAboveCost, RowCovers, Standing, history
<1>4. SlugInv'
  <2>1. \A c \in CPs : Rewriting(c) => Rewriting(c)'
    BY DEF Rewriting
  <2> QED
    BY <2>1 DEF CustomInv, SlugInv, Standing, history
<1> QED
  BY <1>1, <1>2, <1>3, <1>4 DEF CustomInv

-------------------------------------------------------------------------------
(* Custom products: the steps that read.                                     *)

\* A step of r to q that leaves the rows alone: what is to be shown of q.
LEMMA AskGoes ==
  ASSUME CustomInv, NEW r \in Requests, NEW q \in CustomCalls,
         req' \in [Requests -> CustomCalls], req'[r] = q, \A s \in Requests \ {r} : req'[s] = req[s],
         row' = row, offers' = offers, base' = base \/ base' = [base EXCEPT !.published = ~@],
         sold' \in [Bundles -> {"none", "kept", "lost"}], independent' \in BOOLEAN, UNCHANGED history,
         RequestSound(q),
         q.op = "create" => \A s \in Requests \ {r} : req[s].op = "create" => req[s].cp # q.cp,
         ~(req[r].op = "update" /\ req[r].at = "cleared")
  PROVE  CustomInv'
<1>1. base' \in [price : Costs, published : BOOLEAN] /\ base'.price = base.price
  BY DEF CustomInv, CustomTypeInv
<1>2. CustomTypeInv'
  BY <1>1 DEF CustomInv, CustomTypeInv, history
<1> QED
  BY <1>1, <1>2, AskKeeps

LEMMA IdleSound == RequestSound(Over) /\ Over \in CustomCalls /\ Idle \in CustomCalls /\ Over.op = "done"
BY DEF RequestSound, Over, CustomCalls, Idle

LEMMA EndKeeps ==
  ASSUME CustomInv, NEW r \in Requests, Ends(r),
         row' = row, offers' = offers, base' = base \/ base' = [base EXCEPT !.published = ~@],
         sold' \in [Bundles -> {"none", "kept", "lost"}], independent' \in BOOLEAN, UNCHANGED history,
         ~(req[r].op = "update" /\ req[r].at = "cleared")
  PROVE  CustomInv'
<1>1. CustomTypeInv
  BY DEF CustomInv
<1>2. /\ req' \in [Requests -> CustomCalls]
      /\ req'[r] = Over /\ \A s \in Requests \ {r} : req'[s] = req[s]
  BY <1>1, EndMovesC
<1> QED
  BY <1>2, IdleSound, AskGoes

LEMMA StartKeeps ==
  ASSUME CustomInv, NEW r \in Requests, NEW q \in CustomCalls, Arrives(r), Start(r, q), UNCHANGED <<rows, history>>,
         RequestSound(q),
         q.op = "create" => \A s \in Requests \ {r} : req[s].op = "create" => req[s].cp # q.cp
  PROVE  CustomInv'
<1>1. CustomTypeInv
  BY DEF CustomInv
<1>2. /\ req' \in [Requests -> CustomCalls]
      /\ req'[r] = q /\ \A s \in Requests \ {r} : req'[s] = req[s]
  BY <1>1, StartMovesC
<1>3. ~(req[r].op = "update" /\ req[r].at = "cleared")
  BY DEF Arrives, Idle
<1>4. sold' \in [Bundles -> {"none", "kept", "lost"}] /\ independent' \in BOOLEAN
  BY <1>1 DEF CustomTypeInv, rows
<1> QED
  BY <1>2, <1>3, <1>4, AskGoes DEF rows

LEMMA QuitKeeps ==
  ASSUME CustomInv, NEW r \in Requests, Ends(r), UNCHANGED <<rows, history>>,
         ~(req[r].op = "update" /\ req[r].at = "cleared")
  PROVE  CustomInv'
<1>4. sold' \in [Bundles -> {"none", "kept", "lost"}] /\ independent' \in BOOLEAN
  BY DEF CustomInv, CustomTypeInv, rows
<1> QED
  BY <1>4, EndKeeps DEF rows

\* The ids that requests in flight are making.
LEMMA NobodyMakes ==
  ASSUME CustomInv, NEW c, c \notin {req[s].cp : s \in InFlight}
  PROVE  \A s \in Requests : req[s].op = "create" => req[s].cp # c
BY DEF InFlight, Idle, Over

LEMMA CreateReadsKeeps ==
  ASSUME CustomInv, NEW r \in Requests, NEW c \in CPs, NEW slug \in Slugs, NEW price \in Prices, NEW bs \in SUBSET Bundles,
         CreateReads(r, c, slug, price, bs)
  PROVE  CustomInv'
<1> DEFINE new == [status |-> "DRAFT", provider |-> TRUE, pricing |-> "SINGLE",
                   price |-> price, text |-> slug, bundles |-> bs]
           q == Begin(r, "create", c, new)
<1>1. /\ Arrives(r) /\ row[c] = Absent /\ c \notin {req[s].cp : s \in InFlight} /\ UNCHANGED <<rows, history>>
  BY DEF CreateReads
<1>2. CASE Ends(r)
  <2>1. ~(req[r].op = "update" /\ req[r].at = "cleared")
    BY <1>1 DEF Arrives, Idle
  <2> QED
    BY <1>1, <1>2, <2>1, QuitKeeps
<1>3. CASE ~Ends(r)
  <2>1. ~SlugTaken(slug, c) /\ RowCovers(new, base.price, bs) /\ Start(r, q)
    BY <1>3 DEF CreateReads
  <2>2. new \in Row /\ new.status = "DRAFT" /\ new.text = slug /\ new.bundles = bs
    BY DEF Row, Reviewable, Pricing, Texts
  <2> HIDE DEF new
  <2>3. /\ q.op = "create" /\ q.cp = c /\ q.arg = new /\ q.over = {}
        /\ q.at = "read" /\ q.seen = Absent /\ q.cost = base.price
    BY <1>1 DEF Begin
  <2>4. q \in CustomCalls
    <3>1. base.price \in Costs
      BY DEF CustomInv, CustomTypeInv
    <3> QED
      BY <1>1, <2>2, <3>1 DEF Begin, CustomCalls, Creating, Marks
  <2> HIDE DEF q
  <2>5. \A d \in Standing : row[d].text # slug
    BY <1>1, <2>1 DEF SlugTaken, Standing
  <2>6. RequestSound(q)
    BY <1>1, <2>1, <2>2, <2>3, <2>5 DEF RequestSound, CreateSound
  <2> QED
    BY <1>1, <2>1, <2>3, <2>4, <2>6, NobodyMakes, StartKeeps
<1> QED
  BY <1>2, <1>3

LEMMA DuplicateReadsKeeps ==
  ASSUME CustomInv, NEW r \in Requests, NEW c \in CPs, NEW d \in CPs, DuplicateReads(r, c, d)
  PROVE  CustomInv'
<1> DEFINE new == [row[c] EXCEPT !.status = "DRAFT", !.bundles = {}, !.text = IF @ = NoText THEN NoText ELSE d]
           q == Begin(r, "create", d, new)
<1>1. /\ Arrives(r) /\ c \in Standing /\ row[d] = Absent /\ d \notin {req[s].cp : s \in InFlight}
      /\ UNCHANGED <<rows, history>>
  BY DEF DuplicateReads
<1>2. CASE Ends(r)
  <2>1. ~(req[r].op = "update" /\ req[r].at = "cleared")
    BY <1>1 DEF Arrives, Idle
  <2> QED
    BY <1>1, <1>2, <2>1, QuitKeeps
<1>3. CASE ~Ends(r)
  <2>1. Start(r, q)
    BY <1>3 DEF DuplicateReads
  <2>2. new \in Row /\ new.status = "DRAFT" /\ new.text \in {d, NoText} /\ new.bundles = {}
    <3>1. row[c] \in Row
      BY <1>1 DEF CustomInv, CustomTypeInv, Standing
    <3> QED
      BY <3>1 DEF Row, Reviewable, Texts
  <2> HIDE DEF new
  <2>3. /\ q.op = "create" /\ q.cp = d /\ q.arg = new /\ q.over = {}
        /\ q.at = "read" /\ q.seen = Absent /\ q.cost = base.price
    BY <1>1 DEF Begin
  <2>4. q \in CustomCalls
    <3>1. base.price \in Costs
      BY DEF CustomInv, CustomTypeInv
    <3> QED
      BY <1>1, <2>2, <3>1 DEF Begin, CustomCalls, Creating, Marks
  <2> HIDE DEF q
  <2>5. \A x \in Standing : row[x].text # d
    BY <1>1, SlugsOK DEF CustomInv, SlugInv, Standing
  <2>6. RequestSound(q)
    BY <1>1, <2>2, <2>3, <2>5 DEF RequestSound, CreateSound, RowCovers
  <2> QED
    BY <1>1, <2>1, <2>3, <2>4, <2>6, NobodyMakes, StartKeeps
<1> QED
  BY <1>2, <1>3

LEMMA UpdateReadsKeeps ==
  ASSUME CustomInv, NEW r \in Requests, NEW c \in CPs, NEW e \in Edits, UpdateReads(r, c, e)
  PROVE  CustomInv'
<1> DEFINE new == [e EXCEPT !.status = ForcedStatus(row[c], e)]
           q == Begin(r, "update", c, new)
<1>1. Arrives(r) /\ c \in Standing /\ UNCHANGED <<rows, history>>
  BY DEF UpdateReads
<1>2. CASE Ends(r)
  <2>1. ~(req[r].op = "update" /\ req[r].at = "cleared")
    BY <1>1 DEF Arrives, Idle
  <2> QED
    BY <1>1, <1>2, <2>1, QuitKeeps
<1>3. CASE ~Ends(r)
  <2>1. Start(r, q)
    BY <1>3 DEF UpdateReads
  <2>2. row[c] \in Row /\ row[c] # Absent
    BY <1>1 DEF CustomInv, CustomTypeInv, Standing
  <2>3. new \in EditPayloads /\ new.status = ForcedStatus(row[c], e) /\ ContentEdit(new) = ContentEdit(e)
    <3>1. e \in EditPayloads
      BY EditsOK
    <3>2. ForcedStatus(row[c], e) \in Maybe(Reviewable)
      BY <3>1 DEF ForcedStatus, Maybe, Reviewable, EditPayloads
    <3> QED
      BY <3>1, <3>2 DEF EditPayloads, ContentEdit
  <2> HIDE DEF new
  <2>4. /\ q.op = "update" /\ q.cp = c /\ q.arg = new /\ q.over = {}
        /\ q.at = "read" /\ q.seen = row[c] /\ q.cost = base.price
    BY DEF Begin
  <2>5. q \in CustomCalls
    <3>1. base.price \in Costs
      BY DEF CustomInv, CustomTypeInv
    <3> QED
      BY <2>2, <2>3, <3>1 DEF Begin, CustomCalls, Updating, Marks
  <2> HIDE DEF q
  <2>6. Agrees(q)
    BY <2>2, <2>4 DEF Agrees, SameFace
  <2>7. EditSound(q)
    BY <2>3, <2>4 DEF EditSound, Forced, EditCovers, EditFree, ForcedStatus
  <2>8. RequestSound(q)
    BY <2>4, <2>6, <2>7 DEF RequestSound
  <2> QED
    BY <1>1, <2>1, <2>4, <2>5, <2>8, StartKeeps
<1> QED
  BY <1>2, <1>3

LEMMA UpdateChecksKeeps ==
  ASSUME CustomInv, NEW r \in Requests, UpdateChecks(r)
  PROVE  CustomInv'
<1>1. req[r].op = "update" /\ req[r].at = "read" /\ UNCHANGED <<rows, history>>
  BY DEF UpdateChecks
<1>2. CASE Ends(r)
  BY <1>1, <1>2, QuitKeeps
<1>3. CASE ~Ends(r)
  <2> DEFINE q == req[r]
             p == [q EXCEPT !.at = "checked"]
  <2>1. ~UpdateRefused(q) /\ req' = [req EXCEPT ![r] = p]
    BY <1>3 DEF UpdateChecks
  <2>2. q \in Updating /\ RequestSound(q)
    BY <1>1, CallIs DEF CustomInv, CustomTypeInv
  <2>3. p \in CustomCalls /\ p.op = "update" /\ p.at = "checked" /\ p.cp = q.cp /\ p.arg = q.arg
        /\ p.over = q.over /\ p.seen = q.seen /\ p.cost = q.cost
    BY <2>2 DEF Updating, CustomCalls
  <2>4. req' \in [Requests -> CustomCalls] /\ req'[r] = p /\ \A s \in Requests \ {r} : req'[s] = req[s]
    BY <2>1, <2>3 DEF CustomInv, CustomTypeInv
  <2> HIDE DEF p
  <2>5. Agrees(q) /\ Forced(q) /\ ("floor" \notin q.over => q.cost = base.price)
    BY <1>1, <2>2 DEF RequestSound, EditSound
  <2>6. Agrees(p) /\ Forced(p) /\ ("floor" \notin p.over => p.cost = base.price)
    BY <2>3, <2>5 DEF Agrees, Forced
  <2>7. EditFree(p)
    BY <2>1, <2>3 DEF EditFree, UpdateRefused, SlugTaken
  <2>8. Planned(p) = Planned(q)
    BY <2>3 DEF Planned
  <2>9. EditCovers(p)
    <3> SUFFICES ASSUME "row" \notin q.over, "floor" \notin q.over
                 PROVE  /\ \A bs \in q.arg.bundles : RowCovers(Planned(q), base.price, bs)
                        /\ q.arg.bundles = {} /\ q.arg.price # {} => RowCovers(Planned(q), base.price, row[q.cp].bundles)
      BY <2>3, <2>8 DEF EditCovers
    <3>1. q.cost = base.price /\ row[q.cp] # Absent
      BY <2>5 DEF Agrees
    <3>2. \A bs \in q.arg.bundles : RowCovers(Planned(q), q.cost, bs)
      BY <2>1 DEF UpdateRefused, Planned
    <3>3. q.arg.bundles = {} /\ q.arg.price # {} => RowCovers(Planned(q), q.cost, row[q.cp].bundles)
      BY <2>1, <3>1 DEF UpdateRefused, Planned
    <3> QED
      BY <3>1, <3>2, <3>3
  <2>10. RequestSound(p)
    BY <2>3, <2>6, <2>7, <2>9 DEF RequestSound, EditSound
  <2>11. sold' \in [Bundles -> {"none", "kept", "lost"}] /\ independent' \in BOOLEAN
    BY <1>1 DEF CustomInv, CustomTypeInv, rows
  <2> QED
    BY <1>1, <2>3, <2>4, <2>10, <2>11, AskGoes DEF rows
<1> QED
  BY <1>2, <1>3

LEMMA ReviewReadsKeeps ==
  ASSUME CustomInv, NEW r \in Requests, NEW c \in CPs, NEW op \in {"submit", "approve", "reject"}, ReviewReads(r, c, op)
  PROVE  CustomInv'
<1> DEFINE q == Begin(r, op, c, {})
<1>1. Arrives(r) /\ c \in Standing /\ UNCHANGED <<rows, history>>
  BY DEF ReviewReads
<1>2. CASE Ends(r)
  <2>1. ~(req[r].op = "update" /\ req[r].at = "cleared")
    BY <1>1 DEF Arrives, Idle
  <2> QED
    BY <1>1, <1>2, <2>1, QuitKeeps
<1>3. CASE ~Ends(r)
  <2>1. Start(r, q)
    BY <1>3 DEF ReviewReads
  <2>2. row[c] \in Row /\ row[c] # Absent
    BY <1>1 DEF CustomInv, CustomTypeInv, Standing
  <2>3. q.op = op /\ q.cp = c /\ q.over = {} /\ q.seen = row[c]
    BY DEF Begin
  <2>4. q \in CustomCalls
    <3>1. base.price \in Costs
      BY DEF CustomInv, CustomTypeInv
    <3> QED
      BY <2>2, <3>1 DEF Begin, CustomCalls, Deciding, Marks
  <2> HIDE DEF q
  <2>5. RequestSound(q)
    BY <2>2, <2>3 DEF RequestSound, Agrees, SameFace
  <2> QED
    BY <1>1, <2>1, <2>3, <2>4, <2>5, StartKeeps
<1> QED
  BY <1>2, <1>3

LEMMA BundleReadsKeeps ==
  ASSUME CustomInv, NEW r \in Requests, NEW b \in Bundles, NEW offs \in SUBSET Discounts, NEW cs \in SUBSET Standing,
         BundleReads(r, b, offs, cs)
  PROVE  CustomInv'
<1> DEFINE q == [op |-> "bundle", cp |-> NoCP, at |-> "read", over |-> {}, seen |-> Absent,
                 arg |-> [b |-> b, offs |-> offs, cs |-> cs, new |-> offers[b] = {}]]
<1>1. Arrives(r) /\ UNCHANGED <<rows, history>>
  BY DEF BundleReads
<1>2. CASE Ends(r)
  <2>1. ~(req[r].op = "update" /\ req[r].at = "cleared")
    BY <1>1 DEF Arrives, Idle
  <2> QED
    BY <1>1, <1>2, <2>1, QuitKeeps
<1>3. CASE ~Ends(r)
  <2>1. Start(r, q) /\ \A c \in cs : Covers(row[c], base.price, offs)
    BY <1>3 DEF BundleReads
  <2>2. q \in CustomCalls
    BY DEF CustomCalls, BundleSaves, Standing, Marks
  <2>3. q.op = "bundle" /\ q.arg.cs = cs /\ q.arg.offs = offs
    OBVIOUS
  <2> HIDE DEF q
  <2>4. RequestSound(q)
    BY <2>1, <2>3 DEF RequestSound, SaveSound
  <2> QED
    BY <1>1, <2>1, <2>2, <2>3, <2>4, StartKeeps
<1> QED
  BY <1>2, <1>3

LEMMA BundleDeleteReadsKeeps ==
  ASSUME CustomInv, NEW r \in Requests, NEW b \in Bundles, BundleDeleteReads(r, b)
  PROVE  CustomInv'
<1> DEFINE q == [op |-> "unbundle", cp |-> NoCP, at |-> "read", over |-> {}, seen |-> Absent, arg |-> [b |-> b]]
<1>1. Arrives(r) /\ UNCHANGED <<rows, history>>
  BY DEF BundleDeleteReads
<1>2. CASE Ends(r)
  <2>1. ~(req[r].op = "update" /\ req[r].at = "cleared")
    BY <1>1 DEF Arrives, Idle
  <2> QED
    BY <1>1, <1>2, <2>1, QuitKeeps
<1>3. CASE ~Ends(r)
  <2>1. Start(r, q)
    BY <1>3 DEF BundleDeleteReads
  <2>2. q \in CustomCalls
    BY DEF CustomCalls, BundleDrops, Marks
  <2>3. q.op = "unbundle"
    OBVIOUS
  <2>4. RequestSound(q)
    BY <2>3 DEF RequestSound
  <2> QED
    BY <1>1, <2>1, <2>2, <2>3, <2>4, StartKeeps
<1> QED
  BY <1>2, <1>3

\* The steps that write the provider's status, the store's type or an order.
LEMMA AsideKeeps ==
  ASSUME CustomInv, NEW r \in Requests,
         BaseStatus(r) \/ StoreType(r) \/ \E b \in Bundles : Ordered(r, b)
  PROVE  CustomInv'
<1>1. Arrives(r) /\ Ends(r) /\ row' = row /\ offers' = offers /\ UNCHANGED history
      /\ (base' = base \/ base' = [base EXCEPT !.published = ~@])
  BY DEF BaseStatus, StoreType, Ordered
<1>2. independent' \in BOOLEAN
  BY DEF CustomInv, CustomTypeInv, BaseStatus, StoreType, Ordered
<1>3. sold' \in [Bundles -> {"none", "kept", "lost"}]
  BY DEF CustomInv, CustomTypeInv, BaseStatus, StoreType, Ordered
<1>4. ~(req[r].op = "update" /\ req[r].at = "cleared")
  BY <1>1 DEF Arrives, Idle
<1> QED
  BY <1>1, <1>2, <1>3, <1>4, EndKeeps

-------------------------------------------------------------------------------
(* Custom products: what a write leaves of what the others know.             *)

FloorStays == base'.price = base.price /\ \A b \in Bundles : offers'[b] \subseteq offers[b]
SlugsStay ==
  \A d \in CPs : row'[d] # Absent /\ row'[d].text # NoText => row[d] # Absent /\ row'[d].text = row[d].text
FaceStays(c) ==
  row[c] # Absent => row'[c] # Absent /\ SameFace(row'[c], row[c])
BundlesShrink(c) == row[c] # Absent /\ row'[c] # Absent => row'[c].bundles \subseteq row[c].bundles
CostStays ==
  /\ base'.price = base.price
  /\ \A c \in CPs : row'[c] # Absent =>
       /\ row[c] # Absent
       /\ row'[c].provider = row[c].provider /\ row'[c].pricing = row[c].pricing /\ row'[c].price = row[c].price

LEMMA SoundKept ==
  ASSUME CustomTypeInv, CustomTypeInv', NEW s \in Requests, RequestSound(req[s]), NEW X \in SUBSET Marks,
         req'[s] = Mark(req[s], X),
         "floor" \in X \/ FloorStays,
         "slug" \in X \/ SlugsStay,
         req[s].op \in {"update", "submit", "approve", "reject"} => "row" \in X \/ FaceStays(req[s].cp),
         req[s].op = "update" => "row" \in X \/ "floor" \in X \/ BundlesShrink(req[s].cp),
         req[s].op = "create" => row'[req[s].cp] = Absent,
         req[s].op = "bundle" => X # {} \/ CostStays
  PROVE  RequestSound(req[s])'
<1> DEFINE q == req[s]
<1>0. q \in CustomCalls
  BY DEF CustomTypeInv
<1>1. CASE q \in {Idle, Over}
  BY <1>1 DEF Mark, RequestSound, Idle, Over
<1>2. CASE q \notin {Idle, Over}
  <2>1. /\ req'[s].op = q.op /\ req'[s].at = q.at /\ req'[s].cp = q.cp /\ req'[s].arg = q.arg /\ req'[s].seen = q.seen
        /\ req'[s].over = q.over \cup X /\ (q.op = "update" => req'[s].cost = q.cost)
    BY <1>0, <1>2, MarkIs
  <2>2. ASSUME q.op = "create"
        PROVE  CreateSound(req[s])'
    <3>1. q \in Creating /\ CreateSound(q)
      BY <1>0, <2>2, CallIs DEF RequestSound
    <3>2. row'[q.cp] = Absent /\ q.arg.status = "DRAFT" /\ q.arg.text \in Slugs \cup {q.cp, NoText}
      BY <2>2, <3>1 DEF CreateSound
    <3>3. ASSUME "floor" \notin q.over \cup X
          PROVE  \A b \in q.arg.bundles : Covers(q.arg, base'.price, offers'[b])
      <4>1. RowCovers(q.arg, base.price, q.arg.bundles) /\ FloorStays
        BY <3>1, <3>3 DEF CreateSound
      <4>2. q.arg.bundles \subseteq Bundles
        BY <3>1 DEF Creating, Row
      <4> QED
        BY <4>1, <4>2 DEF RowCovers, FloorStays, Covers
    <3>4. ASSUME "slug" \notin q.over \cup X, q.arg.text # NoText
          PROVE  \A d \in Standing' : row'[d].text # q.arg.text
      BY <3>1, <3>4 DEF CreateSound, SlugsStay, Standing
    <3> QED
      BY <2>1, <3>2, <3>3, <3>4 DEF CreateSound, RowCovers
  <2>3. ASSUME q.op \in {"update", "submit", "approve", "reject"}
        PROVE  Agrees(req[s])'
    <3>1. Agrees(q)
      BY <2>3 DEF RequestSound
    <3> QED
      BY <2>1, <2>3, <3>1 DEF Agrees, FaceStays, SameFace
  <2>4. ASSUME q.op = "update"
        PROVE  EditSound(req[s])'
    <3>1. q \in Updating /\ EditSound(q) /\ Agrees(q)
      BY <1>0, <2>4, CallIs DEF RequestSound
    <3>2. Forced(req[s])'
      BY <2>1, <3>1 DEF EditSound, Forced
    <3>3. ("floor" \notin req[s].over => req[s].cost = base.price)'
      BY <2>1, <2>4, <3>1 DEF EditSound, FloorStays
    <3>4. EditFree(req[s])'
      <4> SUFFICES ASSUME q.at # "read", "slug" \notin q.over \cup X, NEW t \in q.arg.slug, NEW d \in Standing' \ {q.cp}
                   PROVE  row'[d].text # t
        BY <2>1 DEF EditFree
      <4>1. t # NoText
        BY <3>1, SlugsOK DEF Updating, EditPayloads, Maybe
      <4> QED
        BY <3>1, <4>1 DEF EditSound, EditFree, SlugsStay, Standing
    <3>5. EditCovers(req[s])'
      <4> SUFFICES ASSUME q.at # "read", "row" \notin q.over \cup X, "floor" \notin q.over \cup X
                   PROVE  /\ \A bs \in q.arg.bundles : \A b \in bs : Covers(Planned(q), base'.price, offers'[b])
                          /\ q.arg.bundles = {} /\ q.arg.price # {} =>
                               \A b \in row'[q.cp].bundles : Covers(Planned(q), base'.price, offers'[b])
        BY <2>1 DEF EditCovers, RowCovers, Planned
      <4>1. FloorStays /\ BundlesShrink(q.cp) /\ FaceStays(q.cp) /\ row[q.cp] # Absent
        BY <2>4, <3>1 DEF Agrees
      <4>2. /\ \A bs \in q.arg.bundles : RowCovers(Planned(q), base.price, bs)
            /\ q.arg.bundles = {} /\ q.arg.price # {} => RowCovers(Planned(q), base.price, row[q.cp].bundles)
        BY <3>1 DEF EditSound, EditCovers
      <4>3. \A b \in Bundles : Covers(Planned(q), base.price, offers[b]) => Covers(Planned(q), base'.price, offers'[b])
        BY <4>1 DEF FloorStays, Covers
      <4>4. \A bs \in q.arg.bundles : bs \subseteq Bundles
        BY <3>1 DEF Updating, EditPayloads, Maybe
      <4>5. row'[q.cp].bundles \subseteq row[q.cp].bundles /\ row[q.cp].bundles \subseteq Bundles
        <5>1. row[q.cp] \in Row /\ row'[q.cp] # Absent
          BY <3>1, <4>1 DEF CustomTypeInv, Updating, FaceStays
        <5> QED
          BY <4>1, <5>1 DEF BundlesShrink, Row
      <4> QED
        BY <4>2, <4>3, <4>4, <4>5 DEF RowCovers
    <3> QED
      BY <3>2, <3>3, <3>4, <3>5 DEF EditSound
  <2>5. ASSUME q.op = "bundle"
        PROVE  SaveSound(req[s])'
    <3>1. q \in BundleSaves /\ SaveSound(q)
      BY <1>0, <2>5, CallIs DEF RequestSound
    <3> SUFFICES ASSUME q.over \cup X = {}, NEW c \in q.arg.cs \cap Standing'
                 PROVE  Covers(row'[c], base'.price, q.arg.offs)
      BY <2>1 DEF SaveSound
    <3>2. CostStays /\ c \in Standing
      BY <2>5 DEF CostStays, Standing
    <3> QED
      BY <3>1, <3>2 DEF SaveSound, CostStays, Covers, Standing
  <2> QED
    BY <2>1, <2>2, <2>3, <2>4, <2>5 DEF RequestSound
<1> QED
  BY <1>1, <1>2

\* A write that ends request r and marks the others: what they know stays so.
LEMMA WriteKeeps ==
  ASSUME CustomInv, CustomTypeInv', NEW r \in Requests, NEW c, NEW what \in SUBSET Marks,
         req' = Touch(Done(req, r), c, what),
         "floor" \in what \/ FloorStays,
         "slug" \in what \/ SlugsStay,
         \A d \in CPs : (d = c /\ "row" \in what) \/ FaceStays(d),
         \A d \in CPs : (d = c /\ "row" \in what) \/ "floor" \in what \/ BundlesShrink(d),
         \A s \in Requests \ {r} : req[s].op = "create" => row'[req[s].cp] = Absent,
         "floor" \in what \/ "slug" \in what \/ CostStays
  PROVE  /\ (\A s \in Requests : RequestSound(req[s]))'
         /\ CreatesApart'
         /\ \A x \in CPs : Rewriting(x) /\ ~(req[r].op = "update" /\ req[r].cp = x /\ req[r].arg.slug # {}) => Rewriting(x)'
<1>1. /\ req' \in [Requests -> CustomCalls] /\ req'[r] = Over
      /\ \A s \in Requests \ {r} : req'[s] = Mark(req[s], Marked(req[s], c, what))
  BY FinishMoves DEF CustomInv
<1>2. ASSUME NEW s \in Requests \ {r}
      PROVE  RequestSound(req[s])'
  <2> DEFINE X == Marked(req[s], c, what)
  <2>1. X \in SUBSET Marks /\ req'[s] = Mark(req[s], X) /\ RequestSound(req[s]) /\ CustomTypeInv
    BY <1>1 DEF Marked, CustomInv
  <2>2. ("floor" \in what => "floor" \in X) /\ ("slug" \in what => "slug" \in X)
        /\ (req[s].cp = c /\ "row" \in what => "row" \in X)
    BY DEF Marked
  <2>3. req[s].op \in {"update", "submit", "approve", "reject"} => req[s].cp \in CPs
    BY <2>1, CallIs DEF CustomTypeInv, Updating, Deciding
  <2> HIDE DEF X
  <2> QED
    BY <2>1, <2>2, <2>3, SoundKept
<1>3. RequestSound(req[r])'
  BY <1>1 DEF RequestSound, Over
<1>4. \A s \in Requests \ {r} : req'[s].op = req[s].op
        /\ (req[s].op \in {"create", "update"} => req'[s].cp = req[s].cp /\ req'[s].at = req[s].at /\ req'[s].arg = req[s].arg)
  <2> TAKE s \in Requests \ {r}
  <2>1. req[s] \in CustomCalls /\ Marked(req[s], c, what) \in SUBSET Marks
    BY DEF CustomInv, CustomTypeInv, Marked
  <2>2. req[s] \in {Idle, Over} => req[s].op \notin {"create", "update"}
    BY DEF Idle, Over
  <2> QED
    BY <1>1, <2>1, <2>2, MarkIs
<1>5. CreatesApart'
  BY <1>1, <1>4 DEF CreatesApart, Running, Over, CustomInv
<1>6. ASSUME NEW x \in CPs, Rewriting(x), ~(req[r].op = "update" /\ req[r].cp = x /\ req[r].arg.slug # {})
      PROVE  Rewriting(x)'
  <2>1. PICK s \in Requests : req[s].op = "update" /\ req[s].at = "cleared" /\ req[s].cp = x /\ req[s].arg.slug # {}
    BY <1>6 DEF Rewriting
  <2> QED
    BY <1>4, <1>6, <2>1 DEF Rewriting
<1> QED
  BY <1>2, <1>3, <1>5, <1>6

LEMMA CreateWritesKeeps ==
  ASSUME CustomInv, NEW r \in Requests, CreateWrites(r)
  PROVE  CustomInv'
<1> DEFINE q == req[r]
           c == q.cp
<1>1. q \in Creating /\ CreateSound(q) /\ q.op = "create"
  BY CallIs DEF CreateWrites, CustomInv, CustomTypeInv, RequestSound
<1>2. CASE Ends(r) /\ UNCHANGED <<rows, history>>
  BY <1>1, <1>2, QuitKeeps
<1>3. CASE ~(Ends(r) /\ UNCHANGED <<rows, history>>)
  <2> DEFINE what == {"slug", "floor"}
  <2>1. /\ row' = [row EXCEPT ![c] = q.arg] /\ req' = Touch(Done(req, r), c, what)
        /\ reviewed' = reviewed \ {c}
        /\ clashed' = IF "slug" \in q.over THEN clashed \cup {c} ELSE clashed
        /\ excused' = IF "floor" \in q.over THEN excused \cup {c} ELSE excused \ {c}
        /\ overtaken' = overtaken \ {c}
        /\ lost' = IF q.arg.text = NoText THEN lost \cup {c} ELSE lost \ {c}
        /\ selfPublished' = selfPublished \ {c}
        /\ UNCHANGED <<base, offers, sold, independent>>
    BY <1>3 DEF CreateWrites, Finish
  <2>2. c \in CPs /\ q.arg \in Row /\ row[c] = Absent /\ q.arg # Absent
    BY <1>1, AbsentIsNoRow DEF Creating, CreateSound
  <2>3. row'[c] = q.arg /\ (\A d \in CPs \ {c} : row'[d] = row[d]) /\ row' \in [CPs -> Row \cup {Absent}]
    BY <2>1, <2>2 DEF CustomInv, CustomTypeInv
  <2>4. req' \in [Requests -> CustomCalls]
    BY <2>1, FinishMoves DEF CustomInv, Marks
  <2>5. CustomTypeInv'
    BY <2>1, <2>2, <2>3, <2>4 DEF CustomInv, CustomTypeInv
  <2>6. \A s \in Requests \ {r} : req[s].op = "create" => row'[req[s].cp] = Absent
    <3> TAKE s \in Requests \ {r}
    <3> HAVE req[s].op = "create"
    <3>1. req[s].cp # c
      BY <1>1 DEF CustomInv, CreatesApart, Running
    <3>2. req[s].cp \in CPs /\ row[req[s].cp] = Absent
      BY CallIs DEF CustomInv, CustomTypeInv, RequestSound, CreateSound, Creating
    <3> QED
      BY <2>3, <3>1, <3>2
  <2>7. \A d \in CPs : FaceStays(d)
    BY <2>2, <2>3 DEF FaceStays, SameFace
  <2>8. /\ (\A s \in Requests : RequestSound(req[s]))' /\ CreatesApart'
        /\ \A x \in CPs : Rewriting(x) => Rewriting(x)'
    BY <1>1, <2>1, <2>5, <2>6, <2>7, WriteKeeps DEF Marks
  <2>9. Standing' = Standing \cup {c}
    BY <2>2, <2>3 DEF Standing
  <2>10. PublishedWasReviewed'
    BY <1>1, <2>1, <2>2, <2>3, <2>9 DEF CustomInv, PublishedWasReviewed, CreateSound, Standing
  <2>11. BundleAboveCost'
    BY <1>1, <2>1, <2>2, <2>3, <2>9 DEF CustomInv, BundleAboveCost, CreateSound, Standing, RowCovers
  <2>12. SlugInv'
    <3>1. \A x \in Standing' : row'[x].text \in Slugs \cup {x, NoText}
      BY <1>1, <2>2, <2>3, <2>9 DEF CustomInv, SlugInv, CreateSound, Standing
    <3>2. ASSUME NEW x \in Standing' \ clashed', NEW y \in Standing' \ clashed', x # y, row'[x].text # NoText
          PROVE  row'[x].text # row'[y].text
      <4>1. "slug" \notin q.over /\ q.arg.text # NoText => \A d \in Standing : row[d].text # q.arg.text
        BY <1>1 DEF CreateSound
      <4>2. c \notin clashed' => "slug" \notin q.over
        BY <2>1
      <4>3. CASE x = c
        BY <2>3, <2>9, <3>2, <4>1, <4>2, <4>3 DEF Standing
      <4>4. CASE y = c
        BY <2>3, <2>9, <3>2, <4>1, <4>2, <4>4 DEF Standing
      <4>5. CASE x # c /\ y # c
        BY <2>1, <2>3, <2>9, <3>2, <4>5 DEF CustomInv, SlugInv, Standing
      <4> QED
        BY <4>3, <4>4, <4>5
    <3>3. \A x \in Standing' \ lost' : row'[x].text # NoText \/ Rewriting(x)'
      BY <2>1, <2>2, <2>3, <2>8, <2>9 DEF CustomInv, SlugInv, Standing
    <3> QED
      BY <3>1, <3>2, <3>3 DEF SlugInv
  <2> QED
    BY <2>5, <2>8, <2>10, <2>11, <2>12 DEF CustomInv
<1> QED
  BY <1>2, <1>3

LEMMA MarkNothing == \A q \in CustomCalls : Mark(q, {}) = q
BY DEF Mark, CustomCalls, Creating, Updating, Deciding, BundleSaves, BundleDrops, Idle, Over

LEMMA UpdateClearsKeeps ==
  ASSUME CustomInv, NEW r \in Requests, UpdateClears(r)
  PROVE  CustomInv'
<1> DEFINE q == req[r]
           c == q.cp
           p == [q EXCEPT !.at = "cleared"]
<1>1. q.op = "update" /\ q.at = "checked" /\ q \in Updating /\ Agrees(q) /\ EditSound(q) /\ c \in CPs
  BY CallIs DEF UpdateClears, CustomInv, CustomTypeInv, RequestSound, Updating
<1>2. /\ row' = IF row[c] = Absent THEN row
                ELSE [row EXCEPT ![c].text = IF q.arg.slug # {} THEN NoText ELSE @,
                                 ![c].bundles = IF q.arg.bundles # {} THEN {} ELSE @]
      /\ req' = [req EXCEPT ![r] = p]
      /\ UNCHANGED <<base, offers, sold, independent, history>>
  <2>1. req' = [req EXCEPT ![r].at = "cleared"]
    BY DEF UpdateClears
  <2>2. req' = [req EXCEPT ![r] = p]
    BY <2>1 DEF CustomInv, CustomTypeInv
  <2> QED
    BY <2>2 DEF UpdateClears
<1>3. p \in CustomCalls /\ p.op = "update" /\ p.at = "cleared" /\ p.cp = c /\ p.arg = q.arg
      /\ p.over = q.over /\ p.seen = q.seen /\ p.cost = q.cost
  BY <1>1 DEF Updating, CustomCalls
<1>4. req' \in [Requests -> CustomCalls] /\ req'[r] = p /\ \A s \in Requests \ {r} : req'[s] = req[s]
  BY <1>2, <1>3 DEF CustomInv, CustomTypeInv
<1> HIDE DEF p
<1>5. /\ row' \in [CPs -> Row \cup {Absent}]
      /\ \A d \in CPs \ {c} : row'[d] = row[d]
      /\ row[c] = Absent => row'[c] = Absent
      /\ row[c] # Absent => /\ row'[c] \in Row /\ SameFace(row'[c], row[c])
                            /\ row'[c].text = IF q.arg.slug # {} THEN NoText ELSE row[c].text
                            /\ row'[c].bundles = IF q.arg.bundles # {} THEN {} ELSE row[c].bundles
  <2>1. CASE row[c] = Absent
    BY <1>2, <2>1 DEF CustomInv, CustomTypeInv
  <2>2. CASE row[c] # Absent
    <3>1. row[c] \in Row /\ row \in [CPs -> Row \cup {Absent}]
      BY <1>1, <2>2 DEF CustomInv, CustomTypeInv
    <3> DEFINE next == [row[c] EXCEPT !.text = IF q.arg.slug # {} THEN NoText ELSE @,
                                      !.bundles = IF q.arg.bundles # {} THEN {} ELSE @]
    <3>2. next \in Row /\ SameFace(next, row[c])
          /\ next.text = (IF q.arg.slug # {} THEN NoText ELSE row[c].text)
          /\ next.bundles = (IF q.arg.bundles # {} THEN {} ELSE row[c].bundles)
      BY <3>1 DEF Row, Texts, SameFace
    <3>3. row' = [row EXCEPT ![c] = next]
      BY <1>1, <1>2, <2>2, <3>1
    <3> HIDE DEF next
    <3> QED
      BY <1>1, <2>2, <3>1, <3>2, <3>3
  <2> QED
    BY <2>1, <2>2
<1>6. Standing' = Standing
  BY <1>5, AbsentIsNoRow DEF Standing
<1>7. CustomTypeInv'
  BY <1>2, <1>4, <1>5 DEF CustomInv, CustomTypeInv, history
<1>8. FloorStays
  BY <1>2 DEF FloorStays
<1>9. SlugsStay
  BY <1>5, <1>6 DEF SlugsStay, Standing
<1>10. \A d \in CPs : FaceStays(d) /\ BundlesShrink(d)
  BY <1>5, AbsentIsNoRow DEF FaceStays, BundlesShrink, SameFace
<1>11. CostStays
  BY <1>2, <1>5 DEF CostStays, SameFace
<1>12. ASSUME NEW s \in Requests \ {r}
       PROVE  RequestSound(req[s])'
  <2>1. CustomTypeInv /\ RequestSound(req[s]) /\ req[s] \in CustomCalls
    BY DEF CustomInv, CustomTypeInv
  <2>2. req'[s] = Mark(req[s], {}) /\ {} \in SUBSET Marks
    BY <1>4, <2>1, MarkNothing
  <2>3. /\ req[s].op \in {"update", "submit", "approve", "reject"} => req[s].cp \in CPs
        /\ req[s].op = "create" => req[s].cp \in CPs /\ row[req[s].cp] = Absent
    BY <2>1, CallIs DEF Updating, Deciding, Creating, RequestSound, CreateSound
  <2>4. req[s].op = "create" => row'[req[s].cp] = Absent
    BY <1>5, <2>3
  <2> QED
    BY <1>7, <1>8, <1>9, <1>10, <1>11, <2>1, <2>2, <2>3, <2>4, SoundKept
<1>13. RequestSound(req[r])'
  <2>1. Agrees(req[r])'
    BY <1>1, <1>3, <1>4, <1>10 DEF Agrees, FaceStays, SameFace
  <2>2. Forced(req[r])' /\ ("floor" \notin req[r].over => req[r].cost = base.price)'
    BY <1>1, <1>2, <1>3, <1>4 DEF EditSound, Forced
  <2>3. EditFree(req[r])'
    BY <1>1, <1>3, <1>4, <1>5, <1>6 DEF EditSound, EditFree, Standing
  <2>4. EditCovers(req[r])'
    <3> SUFFICES ASSUME "row" \notin q.over, "floor" \notin q.over
                 PROVE  /\ \A bs \in q.arg.bundles : RowCovers(Planned(q), base.price, bs)
                        /\ q.arg.bundles = {} /\ q.arg.price # {} =>
                             \A b \in row'[c].bundles : Covers(Planned(q), base.price, offers[b])
      BY <1>2, <1>3, <1>4 DEF EditCovers, RowCovers, Planned
    <3>1. row[c] # Absent
      BY <1>1 DEF Agrees
    <3> QED
      BY <1>1, <1>5, <3>1 DEF EditSound, EditCovers, RowCovers
  <2> QED
    BY <1>3, <1>4, <2>1, <2>2, <2>3, <2>4 DEF RequestSound, EditSound
<1>14. CreatesApart'
  BY <1>3, <1>4 DEF CreatesApart, Running, CustomInv
<1>15. PublishedWasReviewed'
  <2>1. \A x \in Standing : row'[x].status = row[x].status /\ row'[x].provider = row[x].provider
    BY <1>5 DEF Standing, SameFace
  <2>2. reviewed' \cup selfPublished' \cup overtaken' = reviewed \cup selfPublished \cup overtaken
    BY <1>2 DEF history
  <2>3. PublishedWasReviewed
    BY DEF CustomInv
  <2> QED
    BY <1>6, <2>1, <2>2, <2>3 DEF PublishedWasReviewed
<1>16. BundleAboveCost'
  <2> SUFFICES ASSUME NEW x \in Standing \ excused
               PROVE  \A b \in row'[x].bundles : Covers(row'[x], base.price, offers[b])
    BY <1>2, <1>6 DEF BundleAboveCost, RowCovers, history
  <2>1. \A b \in row[x].bundles : Covers(row[x], base.price, offers[b])
    BY DEF CustomInv, BundleAboveCost, RowCovers
  <2> QED
    BY <1>5, <2>1 DEF Standing, SameFace, Covers
<1>17. SlugInv'
  <2>1. \A x \in CPs : Rewriting(x) => Rewriting(x)'
    BY <1>1, <1>3, <1>4 DEF Rewriting
  <2>2. \A x \in CPs : x = c /\ q.arg.slug # {} => Rewriting(x)'
    BY <1>3, <1>4 DEF Rewriting
  <2>3. \A x \in Standing : row'[x].text = row[x].text \/ (x = c /\ row'[x].text = NoText /\ q.arg.slug # {})
    BY <1>5 DEF Standing
  <2>4. SlugInv /\ lost' = lost /\ clashed' = clashed
    BY <1>2 DEF CustomInv, history
  <2>5. \A x \in Standing : row'[x].text \in Slugs \cup {x, NoText}
    BY <2>3, <2>4 DEF SlugInv
  <2>6. \A x, y \in Standing \ clashed : x # y /\ row'[x].text # NoText => row'[x].text # row'[y].text
    <3> SUFFICES ASSUME NEW x \in Standing \ clashed, NEW y \in Standing \ clashed, x # y, row'[x].text # NoText
                 PROVE  row'[x].text # row'[y].text
      OBVIOUS
    <3>1. row'[x].text = row[x].text /\ row[x].text # row[y].text
      BY <2>3, <2>4 DEF SlugInv
    <3>2. CASE row'[y].text = row[y].text
      BY <3>1, <3>2
    <3>3. CASE row'[y].text = NoText
      BY <3>3
    <3> QED
      BY <2>3, <3>2, <3>3
  <2>7. \A x \in Standing \ lost : row'[x].text # NoText \/ Rewriting(x)'
    <3> TAKE x \in Standing \ lost
    <3>1. x \in CPs /\ (row[x].text # NoText \/ Rewriting(x))
      BY <2>4 DEF SlugInv, Standing
    <3>2. CASE row'[x].text = row[x].text
      BY <2>1, <3>1, <3>2
    <3>3. CASE x = c /\ q.arg.slug # {}
      BY <2>2, <3>1, <3>3
    <3> QED
      BY <2>3, <3>2, <3>3
  <2> QED
    BY <1>6, <2>4, <2>5, <2>6, <2>7 DEF SlugInv
<1> QED
  BY <1>7, <1>12, <1>13, <1>14, <1>15, <1>16, <1>17 DEF CustomInv

LEMMA UpdateBreaksKeeps ==
  ASSUME CustomInv, NEW r \in Requests, UpdateBreaks(r)
  PROVE  CustomInv'
<1> DEFINE q == req[r]
           c == q.cp
<1>1. /\ q.op = "update" /\ q.at = "cleared" /\ Ends(r) /\ c \in CPs
      /\ lost' = IF q.arg.slug # {} THEN lost \cup {c} ELSE lost
      /\ UNCHANGED <<rows, reviewed, selfPublished, overtaken, excused, clashed>>
  BY CallIs DEF UpdateBreaks, CustomInv, CustomTypeInv, Updating
<1>2. /\ req' \in [Requests -> CustomCalls]
      /\ req'[r] = Over /\ \A s \in Requests \ {r} : req'[s] = req[s]
  BY <1>1, EndMovesC DEF CustomInv
<1>3. CustomTypeInv'
  BY <1>1, <1>2 DEF CustomInv, CustomTypeInv, rows
<1>4. ASSUME NEW s \in Requests
      PROVE  RequestSound(req[s])'
  <2>1. RequestSound(req'[s])
    BY <1>2, IdleSound DEF CustomInv
  <2> QED
    BY <1>1, <2>1 DEF RequestSound, CreateSound, Agrees, EditSound, EditCovers, EditFree, SaveSound, Forced, RowCovers,
                Standing, Planned, rows
<1>5. CreatesApart'
  BY <1>2 DEF CreatesApart, Running, CustomInv, Over
<1>6. PublishedWasReviewed' /\ BundleAboveCost'
  BY <1>1 DEF CustomInv, PublishedWasReviewed, BundleAboveCost, RowCovers, Standing, rows
<1>7. SlugInv'
  <2>1. \A x \in CPs : Rewriting(x) => Rewriting(x)' \/ x \in lost'
    BY <1>1, <1>2 DEF Rewriting
  <2> QED
    BY <1>1, <2>1 DEF CustomInv, SlugInv, Standing, rows
<1> QED
  BY <1>3, <1>4, <1>5, <1>6, <1>7 DEF CustomInv

LEMMA OrIs ==
  ASSUME NEW S, NEW given \in Maybe(S), NEW old
  PROVE  /\ given = {} => Or(given, old) = old
         /\ given # {} => Or(given, old) \in given /\ Or(given, old) \in S /\ given = {Or(given, old)}
BY DEF Or, Maybe

LEMMA UpdateWritesKeeps ==
  ASSUME CustomInv, NEW r \in Requests, UpdateWrites(r)
  PROVE  CustomInv'
<1> DEFINE q == req[r]
           c == q.cp
           e == q.arg
           checked == e.bundles # {} \/ e.price # {}
           what == {"row"} \cup (IF e.slug # {} THEN {"slug"} ELSE {})
                     \cup (IF checked \/ e.pricing # {} THEN {"floor"} ELSE {})
<1>1. q \in Updating /\ q.op = "update" /\ q.at = "cleared" /\ Agrees(q) /\ EditSound(q) /\ c \in CPs /\ e \in EditPayloads
      /\ ~UpdateFails(q)
  BY CallIs DEF UpdateWrites, CustomInv, CustomTypeInv, RequestSound, Updating
<1>2. /\ row' = [row EXCEPT ![c] = Edited(@, e)]
      /\ req' = Touch(Done(req, r), c, what)
      /\ reviewed' = IF ContentEdit(e) THEN reviewed \ {c} ELSE reviewed
      /\ selfPublished' = IF e.status = {"PUBLISHED"} THEN selfPublished \cup {c}
                          ELSE IF e.status # {} THEN selfPublished \ {c} ELSE selfPublished
      /\ overtaken' = IF "row" \in q.over THEN overtaken \cup {c} ELSE overtaken
      /\ lost' = IF e.slug # {} THEN lost \ {c} ELSE lost
      /\ clashed' = IF e.slug # {} /\ "slug" \in q.over THEN clashed \cup {c} ELSE clashed
      /\ excused' = IF \/ q.over \cap {"row", "floor"} # {} /\ (checked \/ e.pricing # {})
                       \/ e.pricing # {} /\ ~checked
                    THEN excused \cup {c}
                    ELSE IF checked THEN excused \ {c} ELSE excused
      /\ UNCHANGED <<base, offers, sold, independent>>
  BY DEF UpdateWrites, Finish
<1>3. row[c] \in Row /\ row[c] # Absent
  BY <1>1, AbsentIsNoRow DEF UpdateFails, CustomInv, CustomTypeInv
<1> DEFINE next == Edited(row[c], e)
<1>4. /\ next.status = Or(e.status, row[c].status) /\ next.price = Or(e.price, row[c].price)
      /\ next.pricing = Or(e.pricing, row[c].pricing) /\ next.text = Or(e.slug, row[c].text)
      /\ next.bundles = Or(e.bundles, row[c].bundles) /\ next.provider = row[c].provider
  BY <1>3 DEF Edited, Row
<1>5. /\ e.status \in Maybe(Reviewable) /\ e.price \in Maybe(Prices) /\ e.pricing \in Maybe(Pricing)
      /\ e.slug \in Maybe(Slugs) /\ e.bundles \in Maybe(SUBSET Bundles)
  BY <1>1 DEF EditPayloads
<1>6. next \in Row
  <2>1. /\ Or(e.status, row[c].status) \in Reviewable /\ Or(e.price, row[c].price) \in Prices
        /\ Or(e.pricing, row[c].pricing) \in Pricing /\ Or(e.slug, row[c].text) \in Texts
        /\ Or(e.bundles, row[c].bundles) \in SUBSET Bundles
    <3>1. /\ row[c].status \in Reviewable /\ row[c].price \in Prices /\ row[c].pricing \in Pricing
          /\ row[c].text \in Texts /\ row[c].bundles \in SUBSET Bundles
      BY <1>3 DEF Row
    <3> QED
      BY <1>5, <3>1, OrIs DEF Texts
  <2> QED
    BY <1>3, <2>1 DEF Edited, Row
<1>7. row' = [row EXCEPT ![c] = next]
  BY <1>2
<1> HIDE DEF next
<1>8. row'[c] = next /\ (\A d \in CPs \ {c} : row'[d] = row[d]) /\ row' \in [CPs -> Row \cup {Absent}] /\ next # Absent
  BY <1>1, <1>6, <1>7, AbsentIsNoRow DEF CustomInv, CustomTypeInv
<1>9. Standing' = Standing /\ c \in Standing
  BY <1>1, <1>3, <1>8 DEF Standing
<1>10. what \in SUBSET Marks
  BY DEF Marks
<1>11. CustomTypeInv'
  <2>1. req' \in [Requests -> CustomCalls]
    BY <1>2, <1>10, FinishMoves DEF CustomInv
  <2> QED
    BY <1>1, <1>2, <1>8, <2>1 DEF CustomInv, CustomTypeInv
<1>12. /\ (\A s \in Requests : RequestSound(req[s]))' /\ CreatesApart'
       /\ \A x \in CPs : Rewriting(x) /\ ~(c = x /\ e.slug # {}) => Rewriting(x)'
  <2>1. FloorStays
    BY <1>2 DEF FloorStays
  <2>2. "slug" \in what \/ SlugsStay
    <3> SUFFICES ASSUME e.slug = {}
                 PROVE  SlugsStay
      OBVIOUS
    <3>1. next.text = row[c].text
      BY <1>4, <1>5, OrIs
    <3> QED
      BY <1>3, <1>8, <3>1 DEF SlugsStay
  <2>3. \A d \in CPs : d = c \/ (FaceStays(d) /\ BundlesShrink(d))
    BY <1>8 DEF FaceStays, BundlesShrink, SameFace
  <2>4. \A s \in Requests \ {r} : req[s].op = "create" => row'[req[s].cp] = Absent
    <3> TAKE s \in Requests \ {r}
    <3> HAVE req[s].op = "create"
    <3>1. req[s].cp \in CPs /\ row[req[s].cp] = Absent
      BY CallIs DEF CustomInv, CustomTypeInv, RequestSound, CreateSound, Creating
    <3> QED
      BY <1>3, <1>8, <3>1
  <2>5. "floor" \in what \/ CostStays
    <3> SUFFICES ASSUME e.price = {}, e.pricing = {}
                 PROVE  CostStays
      OBVIOUS
    <3>1. next.price = row[c].price /\ next.pricing = row[c].pricing /\ next.provider = row[c].provider
      BY <1>4, <1>5, OrIs
    <3> QED
      BY <1>2, <1>3, <1>8, <3>1 DEF CostStays
  <2> HIDE DEF checked
  <2>6. "row" \in what
    OBVIOUS
  <2> HIDE DEF what
  <2> QED
    BY <1>1, <1>2, <1>10, <1>11, <2>1, <2>2, <2>3, <2>4, <2>5, <2>6, WriteKeeps
<1>13. PublishedWasReviewed'
  <2> SUFFICES ASSUME NEW x \in Standing, row'[x].status = "PUBLISHED", row'[x].provider
               PROVE  x \in reviewed' \cup selfPublished' \cup overtaken'
    BY <1>9 DEF PublishedWasReviewed
  <2>1. row[x].status = "PUBLISHED" /\ row[x].provider => x \in reviewed \cup selfPublished \cup overtaken
    BY DEF CustomInv, PublishedWasReviewed
  <2>2. CASE x # c
    <3>1. row'[x] = row[x]
      BY <1>8, <2>2 DEF Standing
    <3> QED
      BY <1>2, <2>1, <2>2, <3>1
  <2>3. CASE x = c /\ "row" \in q.over
    BY <1>2, <2>3
  <2>4. CASE x = c /\ "row" \notin q.over
    <3>1. SameFace(row[c], q.seen)
      BY <1>1, <2>4 DEF Agrees
    <3>2. CASE e.status # {}
      <4>1. e.status = {"PUBLISHED"}
        BY <1>4, <1>5, <1>8, <2>4, <3>2, OrIs
      <4> QED
        BY <1>2, <2>4, <4>1
    <3>3. CASE e.status = {}
      <4>1. row[c].status = "PUBLISHED" /\ row[c].provider
        BY <1>4, <1>5, <1>8, <2>4, <3>3, OrIs
      <4>2. ~ContentEdit(e)
        BY <1>1, <3>1, <3>3, <4>1 DEF EditSound, Forced, SameFace
      <4> QED
        BY <1>2, <2>1, <2>4, <3>3, <4>1, <4>2
    <3> QED
      BY <3>2, <3>3
  <2> QED
    BY <2>2, <2>3, <2>4
<1>14. BundleAboveCost'
  <2> SUFFICES ASSUME NEW x \in Standing \ excused'
               PROVE  \A b \in row'[x].bundles : Covers(row'[x], base.price, offers[b])
    BY <1>2, <1>9 DEF BundleAboveCost, RowCovers
  <2>1. x \notin excused => \A b \in row[x].bundles : Covers(row[x], base.price, offers[b])
    BY DEF CustomInv, BundleAboveCost, RowCovers
  <2>2. CASE x # c
    BY <1>2, <1>8, <2>1, <2>2 DEF Standing
  <2>3. CASE x = c /\ checked
    <3>1. "row" \notin q.over /\ "floor" \notin q.over
      BY <1>2, <2>3
    <3>2. /\ \A bs \in e.bundles : RowCovers(Planned(q), base.price, bs)
          /\ e.bundles = {} /\ e.price # {} => RowCovers(Planned(q), base.price, row[c].bundles)
          /\ SameFace(row[c], q.seen)
      BY <1>1, <3>1 DEF EditSound, EditCovers, Agrees
    <3>3. /\ Planned(q).pricing = next.pricing /\ Planned(q).price = next.price /\ Planned(q).provider = next.provider
      <4>1. /\ Planned(q).pricing = Or(e.pricing, q.seen.pricing) /\ Planned(q).price = Or(e.price, q.seen.price)
            /\ Planned(q).provider = q.seen.provider
        BY <1>1 DEF Planned, Updating, Row
      <4> QED
        BY <1>4, <3>2, <4>1 DEF SameFace
    <3>4. RowCovers(Planned(q), base.price, next.bundles)
      <4>1. CASE e.bundles # {}
        BY <1>4, <1>5, <3>2, <4>1, OrIs
      <4>2. CASE e.bundles = {}
        BY <1>4, <1>5, <2>3, <3>2, <4>2, OrIs
      <4> QED
        BY <4>1, <4>2
    <3> QED
      BY <1>8, <2>3, <3>3, <3>4 DEF RowCovers, Covers
  <2>4. CASE x = c /\ ~checked
    <3>1. e.pricing = {} /\ e.price = {} /\ e.bundles = {} /\ x \notin excused
      BY <1>2, <2>4
    <3>2. /\ next.pricing = row[c].pricing /\ next.price = row[c].price /\ next.bundles = row[c].bundles
          /\ next.provider = row[c].provider
      BY <1>4, <1>5, <3>1, OrIs
    <3> QED
      BY <1>8, <2>1, <2>4, <3>1, <3>2 DEF Covers
  <2> QED
    BY <2>2, <2>3, <2>4
<1>15. SlugInv'
  <2>1. /\ e.slug # {} => next.text \in e.slug /\ next.text \in Slugs /\ next.text # NoText
        /\ e.slug = {} => next.text = row[c].text
    BY <1>4, <1>5, OrIs, SlugsOK
  <2>2. \A x \in Standing : row'[x].text \in Slugs \cup {x, NoText}
    <3> TAKE x \in Standing
    <3>1. row[x].text \in Slugs \cup {x, NoText}
      BY DEF CustomInv, SlugInv
    <3>2. CASE x = c
      BY <1>8, <2>1, <3>1, <3>2
    <3>3. CASE x # c
      BY <1>8, <3>1, <3>3 DEF Standing
    <3> QED
      BY <3>2, <3>3
  <2>3. ASSUME NEW x \in Standing \ clashed', NEW y \in Standing \ clashed', x # y, row'[x].text # NoText
        PROVE  row'[x].text # row'[y].text
    <3>1. x \notin clashed /\ y \notin clashed /\ (x = c \/ y = c => e.slug = {} \/ "slug" \notin q.over)
      BY <1>2, <2>3
    <3>2. row[x].text # NoText => row[x].text # row[y].text
      BY <2>3, <3>1 DEF CustomInv, SlugInv
    <3>3. "slug" \notin q.over => \A t \in e.slug, d \in Standing \ {c} : row[d].text # t
      BY <1>1 DEF EditSound, EditFree
    <3>4. CASE e.slug = {}
      <4>1. row'[x].text = row[x].text /\ row'[y].text = row[y].text
        BY <1>8, <2>1, <3>4 DEF Standing
      <4> QED
        BY <2>3, <3>2, <4>1
    <3>5. CASE e.slug # {} /\ x = c
      <4>1. row'[y] = row[y] /\ row[y].text # next.text
        BY <1>8, <2>1, <2>3, <3>1, <3>3, <3>5 DEF Standing
      <4> QED
        BY <1>8, <3>5, <4>1
    <3>6. CASE e.slug # {} /\ y = c
      <4>1. row'[x] = row[x] /\ row[x].text # next.text
        BY <1>8, <2>1, <2>3, <3>1, <3>3, <3>6 DEF Standing
      <4> QED
        BY <1>8, <3>6, <4>1
    <3>7. CASE x # c /\ y # c
      <4>1. row'[x] = row[x] /\ row'[y] = row[y]
        BY <1>8, <3>7 DEF Standing
      <4> QED
        BY <2>3, <3>2, <4>1
    <3> QED
      BY <3>4, <3>5, <3>6, <3>7
  <2>4. ASSUME NEW x \in Standing \ lost'
        PROVE  row'[x].text # NoText \/ Rewriting(x)'
    <3>1. x \in CPs /\ (x \notin lost => row[x].text # NoText \/ Rewriting(x))
      BY DEF CustomInv, SlugInv, Standing
    <3>2. CASE x = c /\ e.slug # {}
      BY <1>8, <2>1, <3>2
    <3>3. CASE x = c /\ e.slug = {}
      BY <1>2, <1>8, <1>12, <2>1, <2>4, <3>1, <3>3
    <3>4. CASE x # c
      BY <1>2, <1>8, <1>12, <2>4, <3>1, <3>4
    <3> QED
      BY <3>2, <3>3, <3>4
  <2> QED
    BY <1>9, <2>2, <2>3, <2>4 DEF SlugInv
<1> QED
  BY <1>11, <1>12, <1>13, <1>14, <1>15 DEF CustomInv

LEMMA DeleteCPKeeps ==
  ASSUME CustomInv, NEW r \in Requests, NEW c \in CPs, DeleteCP(r, c)
  PROVE  CustomInv'
<1>1. /\ Arrives(r) /\ c \in Standing /\ row' = [row EXCEPT ![c] = Absent]
      /\ req' = Touch(Done(req, r), c, {"row"}) /\ UNCHANGED <<base, offers, sold, independent, history>>
  BY DEF DeleteCP
<1>2. row'[c] = Absent /\ (\A d \in CPs \ {c} : row'[d] = row[d]) /\ row' \in [CPs -> Row \cup {Absent}]
  BY <1>1 DEF CustomInv, CustomTypeInv
<1>3. Standing' = Standing \ {c}
  BY <1>2 DEF Standing
<1>4. {"row"} \in SUBSET Marks
  BY DEF Marks
<1>5. CustomTypeInv'
  <2>1. req' \in [Requests -> CustomCalls]
    BY <1>1, <1>4, FinishMoves DEF CustomInv
  <2> QED
    BY <1>1, <1>2, <2>1 DEF CustomInv, CustomTypeInv, history
<1>6. /\ (\A s \in Requests : RequestSound(req[s]))' /\ CreatesApart'
      /\ \A x \in CPs : Rewriting(x) => Rewriting(x)'
  <2>1. FloorStays
    BY <1>1 DEF FloorStays
  <2>2. SlugsStay /\ CostStays
    BY <1>1, <1>2 DEF SlugsStay, CostStays
  <2>3. \A d \in CPs : d = c \/ (FaceStays(d) /\ BundlesShrink(d))
    BY <1>2 DEF FaceStays, BundlesShrink, SameFace
  <2>4. \A s \in Requests \ {r} : req[s].op = "create" => row'[req[s].cp] = Absent
    <3> TAKE s \in Requests \ {r}
    <3> HAVE req[s].op = "create"
    <3>1. req[s].cp \in CPs /\ row[req[s].cp] = Absent
      BY CallIs DEF CustomInv, CustomTypeInv, RequestSound, CreateSound, Creating
    <3> QED
      BY <1>2, <3>1
  <2>5. req[r].op # "update"
    BY <1>1 DEF Arrives, Idle
  <2> QED
    BY <1>1, <1>4, <1>5, <2>1, <2>2, <2>3, <2>4, <2>5, WriteKeeps
<1>7. PublishedWasReviewed' /\ BundleAboveCost'
  BY <1>1, <1>2, <1>3 DEF CustomInv, PublishedWasReviewed, BundleAboveCost, RowCovers, Standing, history
<1>8. SlugInv'
  BY <1>1, <1>2, <1>3, <1>6 DEF CustomInv, SlugInv, Standing, history
<1> QED
  BY <1>5, <1>6, <1>7, <1>8 DEF CustomInv

LEMMA ReviewWritesKeeps ==
  ASSUME CustomInv, NEW r \in Requests, ReviewWrites(r)
  PROVE  CustomInv'
<1> DEFINE q == req[r]
           c == q.cp
<1>1. q.op \in {"submit", "approve", "reject"} /\ q \in Deciding /\ c \in CPs /\ Agrees(q)
  BY CallIs DEF ReviewWrites, CustomInv, CustomTypeInv, RequestSound, Deciding
<1>2. CASE Ends(r) /\ UNCHANGED <<rows, history>>
  BY <1>1, <1>2, QuitKeeps
<1>3. CASE ~(Ends(r) /\ UNCHANGED <<rows, history>>)
  <2>1. /\ row[c] # Absent /\ row' = [row EXCEPT ![c].status = Outcome(q)]
        /\ req' = Touch(Done(req, r), c, {"row"})
        /\ reviewed' = IF q.op = "approve" /\ "row" \notin q.over THEN reviewed \cup {c} ELSE reviewed
        /\ overtaken' = IF "row" \notin q.over THEN overtaken ELSE overtaken \cup {c}
        /\ selfPublished' = selfPublished \ {c}
        /\ UNCHANGED <<base, offers, sold, independent, lost, excused, clashed>>
    BY <1>3 DEF ReviewWrites, Finish
  <2> DEFINE next == [row[c] EXCEPT !.status = Outcome(q)]
  <2>2. row[c] \in Row
    BY <1>1, <2>1 DEF CustomInv, CustomTypeInv
  <2>3. Outcome(q) \in Reviewable /\ (q.op = "approve" \/ (q.op = "submit" /\ ~q.seen.provider) \/ Outcome(q) # "PUBLISHED")
    BY <1>1 DEF Outcome, Reviewable
  <2>4. /\ next \in Row /\ next.status = Outcome(q) /\ next.provider = row[c].provider /\ next.pricing = row[c].pricing
        /\ next.price = row[c].price /\ next.text = row[c].text /\ next.bundles = row[c].bundles
    BY <2>2, <2>3 DEF Row
  <2>5. row' = [row EXCEPT ![c] = next]
    BY <2>1
  <2> HIDE DEF next
  <2>6. row'[c] = next /\ (\A d \in CPs \ {c} : row'[d] = row[d]) /\ row' \in [CPs -> Row \cup {Absent}] /\ next # Absent
    BY <1>1, <2>4, <2>5, AbsentIsNoRow DEF CustomInv, CustomTypeInv
  <2>7. Standing' = Standing /\ c \in Standing
    BY <1>1, <2>1, <2>6 DEF Standing
  <2>8. {"row"} \in SUBSET Marks
    BY DEF Marks
  <2>9. CustomTypeInv'
    <3>1. req' \in [Requests -> CustomCalls]
      BY <2>1, <2>8, FinishMoves DEF CustomInv
    <3> QED
      BY <1>1, <2>1, <2>6, <3>1 DEF CustomInv, CustomTypeInv
  <2>10. /\ (\A s \in Requests : RequestSound(req[s]))' /\ CreatesApart'
         /\ \A x \in CPs : Rewriting(x) => Rewriting(x)'
    <3>1. FloorStays
      BY <2>1 DEF FloorStays
    <3>2. SlugsStay /\ CostStays
      BY <2>1, <2>4, <2>6 DEF SlugsStay, CostStays
    <3>3. \A d \in CPs : d = c \/ (FaceStays(d) /\ BundlesShrink(d))
      BY <2>6 DEF FaceStays, BundlesShrink, SameFace
    <3>4. \A s \in Requests \ {r} : req[s].op = "create" => row'[req[s].cp] = Absent
      <4> TAKE s \in Requests \ {r}
      <4> HAVE req[s].op = "create"
      <4>1. req[s].cp \in CPs /\ row[req[s].cp] = Absent
        BY CallIs DEF CustomInv, CustomTypeInv, RequestSound, CreateSound, Creating
      <4> QED
        BY <2>1, <2>6, <4>1
    <3> QED
      BY <1>1, <2>1, <2>8, <2>9, <3>1, <3>2, <3>3, <3>4, WriteKeeps
  <2>11. PublishedWasReviewed'
    <3> SUFFICES ASSUME NEW x \in Standing, row'[x].status = "PUBLISHED", row'[x].provider
                 PROVE  x \in reviewed' \cup selfPublished' \cup overtaken'
      BY <2>7 DEF PublishedWasReviewed
    <3>1. CASE x # c
      BY <2>1, <2>6, <3>1 DEF CustomInv, PublishedWasReviewed, Standing
    <3>2. CASE x = c /\ "row" \in q.over
      BY <2>1, <3>2
    <3>3. CASE x = c /\ "row" \notin q.over
      <4>1. q.seen.provider
        BY <1>1, <2>4, <2>6, <3>3 DEF Agrees, SameFace
      <4>2. q.op = "approve"
        BY <2>3, <2>4, <2>6, <3>3, <4>1
      <4> QED
        BY <2>1, <3>3, <4>2
    <3> QED
      BY <3>1, <3>2, <3>3
  <2>12. BundleAboveCost'
    BY <2>1, <2>4, <2>6, <2>7, SMTT(40) DEF CustomInv, BundleAboveCost, RowCovers, Covers, Standing
  <2>13. SlugInv'
    <3>1. \A x \in Standing : row'[x].text = row[x].text
      BY <2>4, <2>6 DEF Standing
    <3> QED
      BY <2>1, <2>7, <2>10, <3>1 DEF CustomInv, SlugInv, Standing
  <2> QED
    BY <2>9, <2>10, <2>11, <2>12, <2>13 DEF CustomInv
<1> QED
  BY <1>2, <1>3

LEMMA BasePriceKeeps ==
  ASSUME CustomInv, NEW r \in Requests, NEW p \in Costs, BasePrice(r, p)
  PROVE  CustomInv'
<1>1. /\ Arrives(r) /\ base' = [base EXCEPT !.price = p] /\ req' = Touch(Done(req, r), NoCP, {"floor"})
      /\ excused' = excused \cup {c \in Standing : row[c].bundles # {}}
      /\ UNCHANGED <<row, offers, sold, independent, reviewed, selfPublished, overtaken, lost, clashed>>
  BY DEF BasePrice
<1>2. {"floor"} \in SUBSET Marks /\ Standing' = Standing
  BY <1>1 DEF Marks, Standing
<1>3. CustomTypeInv'
  <2>1. req' \in [Requests -> CustomCalls]
    BY <1>1, <1>2, FinishMoves DEF CustomInv
  <2> QED
    BY <1>1, <2>1 DEF CustomInv, CustomTypeInv, Standing
<1>4. /\ (\A s \in Requests : RequestSound(req[s]))' /\ CreatesApart'
      /\ \A x \in CPs : Rewriting(x) => Rewriting(x)'
  <2>1. SlugsStay /\ \A d \in CPs : FaceStays(d) /\ BundlesShrink(d)
    BY <1>1 DEF SlugsStay, FaceStays, BundlesShrink, SameFace
  <2>2. \A s \in Requests \ {r} : req[s].op = "create" => row'[req[s].cp] = Absent
    <3> TAKE s \in Requests \ {r}
    <3> HAVE req[s].op = "create"
    <3>1. row[req[s].cp] = Absent
      BY CallIs DEF CustomInv, CustomTypeInv, RequestSound, CreateSound
    <3> QED
      BY <1>1, <3>1
  <2>3. req[r].op # "update"
    BY <1>1 DEF Arrives, Idle
  <2> QED
    BY <1>1, <1>2, <1>3, <2>1, <2>2, <2>3, WriteKeeps
<1>5. PublishedWasReviewed'
  BY <1>1, <1>2 DEF CustomInv, PublishedWasReviewed
<1>6. BundleAboveCost'
  <2> SUFFICES ASSUME NEW x \in Standing \ excused'
               PROVE  row[x].bundles = {}
    BY <1>1, <1>2 DEF BundleAboveCost, RowCovers
  <2> QED
    BY <1>1
<1>7. SlugInv'
  BY <1>1, <1>2, <1>4 DEF CustomInv, SlugInv, Standing
<1> QED
  BY <1>3, <1>4, <1>5, <1>6, <1>7 DEF CustomInv

LEMMA BundleWritesKeeps ==
  ASSUME CustomInv, NEW r \in Requests, BundleWrites(r)
  PROVE  CustomInv'
<1> DEFINE q == req[r]
           a == q.arg
<1>1. /\ q.op = "bundle" /\ q \in BundleSaves /\ SaveSound(q)
      /\ UNCHANGED <<base, independent, reviewed, selfPublished, overtaken, lost, clashed>>
  BY CallIs DEF BundleWrites, CustomInv, CustomTypeInv, RequestSound
<1>2. a.b \in Bundles /\ a.offs \in SUBSET Discounts /\ a.cs \in SUBSET CPs
  BY <1>1 DEF BundleSaves
<1>3. CASE Ends(r) /\ UNCHANGED <<row, offers, sold, excused>>
  <2>1. UNCHANGED <<rows, history>>
    BY <1>1, <1>3 DEF rows, history
  <2> QED
    BY <1>1, <1>3, <2>1, QuitKeeps
<1>4. CASE ~(Ends(r) /\ UNCHANGED <<row, offers, sold, excused>>)
  <2>1. /\ a.cs \subseteq Standing
        /\ offers' = [offers EXCEPT ![a.b] = a.offs]
        /\ row' = [c \in CPs |->
             IF c \notin Standing THEN row[c]
             ELSE [row[c] EXCEPT !.bundles = IF c \in a.cs THEN @ \cup {a.b} ELSE @ \ {a.b}]]
        /\ sold' = [sold EXCEPT ![a.b] = IF @ = "kept" THEN "lost" ELSE @]
        /\ req' = Touch(Done(req, r), NoCP, {"floor"})
        /\ excused' = IF q.over = {} THEN excused ELSE excused \cup a.cs
    BY <1>4 DEF BundleWrites
  <2>2. /\ row' \in [CPs -> Row \cup {Absent}] /\ Standing' = Standing
        /\ \A c \in CPs \ Standing : row'[c] = row[c]
        /\ \A c \in Standing : /\ SameFace(row'[c], row[c]) /\ row'[c].text = row[c].text /\ row'[c] # Absent
                               /\ row'[c].bundles = IF c \in a.cs THEN row[c].bundles \cup {a.b} ELSE row[c].bundles \ {a.b}
    <3>1. ASSUME NEW c \in Standing
          PROVE  /\ SameFace(row'[c], row[c]) /\ row'[c].text = row[c].text /\ row'[c] # Absent /\ row'[c] \in Row
                 /\ row'[c].bundles = IF c \in a.cs THEN row[c].bundles \cup {a.b} ELSE row[c].bundles \ {a.b}
      <4> DEFINE bs == IF c \in a.cs THEN row[c].bundles \cup {a.b} ELSE row[c].bundles \ {a.b}
      <4>1. row[c] \in Row /\ row'[c] = [row[c] EXCEPT !.bundles = bs]
        BY <2>1 DEF CustomInv, CustomTypeInv, Standing
      <4>2. bs \in SUBSET Bundles
        BY <1>2, <4>1 DEF Row
      <4> HIDE DEF bs
      <4>3. row'[c] \in Row /\ SameFace(row'[c], row[c]) /\ row'[c].text = row[c].text /\ row'[c].bundles = bs
        BY <4>1, <4>2 DEF Row, SameFace
      <4> QED
        BY <4>3, AbsentIsNoRow DEF bs
    <3>2. \A c \in CPs \ Standing : row'[c] = row[c] /\ row[c] = Absent
      BY <2>1 DEF Standing
    <3>3. row' = [c \in CPs |-> row'[c]]
      BY <2>1
    <3>4. row' \in [CPs -> Row \cup {Absent}]
      BY <3>1, <3>2, <3>3 DEF Standing
    <3> QED
      BY <3>1, <3>2, <3>4 DEF Standing
  <2>3. {"floor"} \in SUBSET Marks
    BY DEF Marks
  <2>4. CustomTypeInv'
    <3>1. req' \in [Requests -> CustomCalls]
      BY <2>1, <2>3, FinishMoves DEF CustomInv
    <3>2. offers' \in [Bundles -> SUBSET Discounts] /\ sold' \in [Bundles -> {"none", "kept", "lost"}]
      BY <1>2, <2>1 DEF CustomInv, CustomTypeInv
    <3>3. excused' \subseteq CPs
      BY <1>2, <2>1 DEF CustomInv, CustomTypeInv
    <3> QED
      BY <1>1, <2>2, <3>1, <3>2, <3>3 DEF CustomInv, CustomTypeInv
  <2>5. /\ (\A s \in Requests : RequestSound(req[s]))' /\ CreatesApart'
        /\ \A x \in CPs : Rewriting(x) => Rewriting(x)'
    <3>1. SlugsStay /\ \A d \in CPs : FaceStays(d)
      BY <2>2 DEF SlugsStay, FaceStays, Standing
    <3>2. \A s \in Requests \ {r} : req[s].op = "create" => row'[req[s].cp] = Absent
      <4> TAKE s \in Requests \ {r}
      <4> HAVE req[s].op = "create"
      <4>1. req[s].cp \in CPs /\ row[req[s].cp] = Absent
        BY CallIs DEF CustomInv, CustomTypeInv, RequestSound, CreateSound, Creating
      <4> QED
        BY <2>2, <4>1 DEF Standing
    <3> QED
      BY <1>1, <2>1, <2>3, <2>4, <3>1, <3>2, WriteKeeps
  <2>6. PublishedWasReviewed'
    BY <1>1, <2>2 DEF CustomInv, PublishedWasReviewed, SameFace
  <2>7. BundleAboveCost'
    <3> SUFFICES ASSUME NEW x \in Standing \ excused', NEW b \in row'[x].bundles
                 PROVE  Covers(row'[x], base.price, offers'[b])
      BY <1>1, <2>2 DEF BundleAboveCost, RowCovers
    <3>1. x \notin excused /\ (x \in a.cs => q.over = {})
      BY <2>1
    <3>2. row[x] \in Row /\ SameFace(row'[x], row[x])
      BY <2>2 DEF CustomInv, CustomTypeInv, Standing
    <3>3. CASE b = a.b
      <4>1. x \in a.cs
        BY <2>2, <3>3
      <4>2. Covers(row[x], base.price, a.offs)
        BY <1>1, <3>1, <4>1 DEF SaveSound
      <4>3. offers'[b] = a.offs
        BY <1>2, <2>1, <3>3 DEF CustomInv, CustomTypeInv
      <4> QED
        BY <3>2, <4>2, <4>3 DEF Covers, SameFace
    <3>4. CASE b # a.b
      <4>1. b \in row[x].bundles /\ b \in Bundles
        BY <2>2, <3>2, <3>4, ZenonT(60) DEF Row
      <4>2. Covers(row[x], base.price, offers[b])
        BY <3>1, <4>1 DEF CustomInv, BundleAboveCost, RowCovers
      <4>3. offers'[b] = offers[b]
        BY <2>1, <3>4, <4>1 DEF CustomInv, CustomTypeInv
      <4> QED
        BY <3>2, <4>2, <4>3 DEF Covers, SameFace
    <3> QED
      BY <3>3, <3>4
  <2>8. SlugInv'
    <3>1. \A x \in Standing : row'[x].text = row[x].text
      BY <2>2
    <3> QED
      BY <1>1, <2>2, <2>5, <3>1 DEF CustomInv, SlugInv, Standing
  <2> QED
    BY <2>4, <2>5, <2>6, <2>7, <2>8 DEF CustomInv
<1> QED
  BY <1>3, <1>4

LEMMA BundleDeletesKeeps ==
  ASSUME CustomInv, NEW r \in Requests, BundleDeletes(r)
  PROVE  CustomInv'
<1> DEFINE b == req[r].arg.b
<1>1. /\ req[r].op = "unbundle" /\ b \in Bundles /\ Ends(r) /\ offers' = [offers EXCEPT ![b] = {}]
      /\ row' = [c \in CPs |-> IF c \in Standing THEN [row[c] EXCEPT !.bundles = @ \ {b}] ELSE Absent]
      /\ sold' = [sold EXCEPT ![b] = IF @ = "kept" THEN "lost" ELSE @]
      /\ UNCHANGED <<base, independent, history>>
  BY CallIs DEF BundleDeletes, CustomInv, CustomTypeInv, BundleDrops
<1>2. /\ req' \in [Requests -> CustomCalls]
      /\ req'[r] = Over /\ \A s \in Requests \ {r} : req'[s] = req[s]
  BY <1>1, EndMovesC DEF CustomInv
<1>3. /\ row' \in [CPs -> Row \cup {Absent}] /\ Standing' = Standing
      /\ \A c \in CPs \ Standing : row'[c] = row[c]
      /\ \A c \in Standing : /\ SameFace(row'[c], row[c]) /\ row'[c].text = row[c].text /\ row'[c] # Absent
                             /\ row'[c].bundles = row[c].bundles \ {b}
  <2>1. ASSUME NEW c \in Standing
        PROVE  /\ SameFace(row'[c], row[c]) /\ row'[c].text = row[c].text /\ row'[c] # Absent /\ row'[c] \in Row
               /\ row'[c].bundles = row[c].bundles \ {b}
    <3>1. row[c] \in Row /\ row'[c] = [row[c] EXCEPT !.bundles = row[c].bundles \ {b}]
      BY <1>1 DEF CustomInv, CustomTypeInv, Standing
    <3> QED
      BY <3>1, AbsentIsNoRow DEF Row, SameFace
  <2>2. \A c \in CPs \ Standing : row'[c] = Absent /\ row[c] = Absent
    BY <1>1 DEF Standing
  <2>3. row' = [c \in CPs |-> row'[c]]
    BY <1>1
  <2>4. row' \in [CPs -> Row \cup {Absent}]
    BY <2>1, <2>2, <2>3 DEF Standing
  <2> QED
    BY <2>1, <2>2, <2>4 DEF Standing
<1>4. offers' \in [Bundles -> SUBSET Discounts] /\ \A x \in Bundles : offers'[x] \subseteq offers[x]
  BY <1>1 DEF CustomInv, CustomTypeInv
<1>5. CustomTypeInv'
  <2>1. sold' \in [Bundles -> {"none", "kept", "lost"}]
    BY <1>1 DEF CustomInv, CustomTypeInv
  <2> QED
    BY <1>1, <1>2, <1>3, <1>4, <2>1 DEF CustomInv, CustomTypeInv, history
<1>6. ASSUME NEW s \in Requests \ {r}
      PROVE  RequestSound(req[s])'
  <2>1. CustomTypeInv /\ RequestSound(req[s]) /\ req[s] \in CustomCalls
    BY DEF CustomInv, CustomTypeInv
  <2>2. req'[s] = Mark(req[s], {}) /\ {} \in SUBSET Marks
    BY <1>2, <2>1, MarkNothing
  <2>3. FloorStays
    BY <1>1, <1>4 DEF FloorStays
  <2>4. SlugsStay /\ CostStays
    BY <1>1, <1>3 DEF SlugsStay, CostStays, SameFace, Standing
  <2>5. \A d \in CPs : FaceStays(d) /\ BundlesShrink(d)
    BY <1>3 DEF FaceStays, BundlesShrink, Standing
  <2>6. /\ req[s].op \in {"update", "submit", "approve", "reject"} => req[s].cp \in CPs
        /\ req[s].op = "create" => req[s].cp \in CPs /\ row[req[s].cp] = Absent
    BY <2>1, CallIs DEF Updating, Deciding, Creating, RequestSound, CreateSound
  <2>7. req[s].op = "create" => row'[req[s].cp] = Absent
    BY <1>3, <2>6 DEF Standing
  <2> QED
    BY <1>5, <2>1, <2>2, <2>3, <2>4, <2>5, <2>6, <2>7, SoundKept
<1>7. (\A s \in Requests : RequestSound(req[s]))'
  BY <1>2, <1>6, IdleSound DEF RequestSound, Over
<1>8. CreatesApart'
  BY <1>2 DEF CreatesApart, Running, CustomInv, Over
<1>9. PublishedWasReviewed'
  BY <1>1, <1>3 DEF CustomInv, PublishedWasReviewed, SameFace, history
<1>10. BundleAboveCost'
  <2> SUFFICES ASSUME NEW x \in Standing \ excused, NEW y \in row'[x].bundles
               PROVE  Covers(row'[x], base.price, offers'[y])
    BY <1>1, <1>3 DEF BundleAboveCost, RowCovers, history
  <2>1. y \in row[x].bundles /\ row[x] \in Row /\ SameFace(row'[x], row[x])
    BY <1>3 DEF CustomInv, CustomTypeInv, Standing
  <2>2. Covers(row[x], base.price, offers[y])
    BY <2>1 DEF CustomInv, BundleAboveCost, RowCovers
  <2>3. offers'[y] \subseteq offers[y]
    BY <1>4, <2>1 DEF Row
  <2> QED
    BY <2>1, <2>2, <2>3 DEF Covers, SameFace
<1>11. SlugInv'
  <2>1. \A x \in CPs : Rewriting(x) => Rewriting(x)'
    BY <1>1, <1>2 DEF Rewriting
  <2>2. \A x \in Standing : row'[x].text = row[x].text
    BY <1>3
  <2> QED
    BY <1>1, <1>3, <2>1, <2>2 DEF CustomInv, SlugInv, Standing, history
<1> QED
  BY <1>5, <1>7, <1>8, <1>9, <1>10, <1>11 DEF CustomInv

LEMMA CustomStutterKeeps ==
  ASSUME CustomInv, UNCHANGED varsCustom
  PROVE  CustomInv'
<1>1. CustomTypeInv' /\ CreatesApart' /\ PublishedWasReviewed' /\ BundleAboveCost' /\ SlugInv'
  BY DEF CustomInv, varsCustom, CustomTypeInv, CreatesApart, Running, PublishedWasReviewed, BundleAboveCost, RowCovers,
         SlugInv, Rewriting, Standing
<1>2. ASSUME NEW s \in Requests
      PROVE  RequestSound(req[s])'
  BY ZenonT(60) DEF CustomInv, varsCustom, RequestSound, CreateSound, Agrees, EditSound, EditCovers, EditFree, SaveSound, Forced,
         RowCovers, Standing, Planned
<1> QED
  BY <1>1, <1>2 DEF CustomInv

LEMMA CustomNextInv == CustomInv /\ [CustomNext]_varsCustom => CustomInv'
<1> SUFFICES ASSUME CustomInv, CustomNext
             PROVE  CustomInv'
  BY CustomStutterKeeps
<1> PICK r \in Requests : Creator(r) \/ Reviewer(r) \/ Bundling(r) \/ StoreType(r)
  BY DEF CustomNext
<1>1. CASE Creator(r)
  <2>1. ASSUME NEW c \in CPs, NEW s \in Slugs, NEW p \in Prices, NEW bs \in SUBSET Bundles, CreateReads(r, c, s, p, bs)
        PROVE  CustomInv'
    BY <2>1, CreateReadsKeeps
  <2>2. ASSUME NEW c \in CPs, NEW d \in CPs, DuplicateReads(r, c, d)
        PROVE  CustomInv'
    BY <2>2, DuplicateReadsKeeps
  <2>3. ASSUME NEW c \in CPs, NEW e \in Edits, UpdateReads(r, c, e)
        PROVE  CustomInv'
    BY <2>3, UpdateReadsKeeps
  <2>4. ASSUME NEW c \in CPs, DeleteCP(r, c) \/ ReviewReads(r, c, "submit")
        PROVE  CustomInv'
    BY <2>4, DeleteCPKeeps, ReviewReadsKeeps
  <2> QED
    BY <1>1, <2>1, <2>2, <2>3, <2>4, CreateWritesKeeps, UpdateChecksKeeps, UpdateClearsKeeps, UpdateWritesKeeps,
       UpdateBreaksKeeps DEF Creator, Submitted
<1>2. CASE Reviewer(r)
  <2>1. ASSUME NEW c \in CPs, NEW op \in {"approve", "reject"}, ReviewReads(r, c, op)
        PROVE  CustomInv'
    BY <2>1, ReviewReadsKeeps
  <2>2. ASSUME NEW p \in Costs, BasePrice(r, p)
        PROVE  CustomInv'
    BY <2>2, BasePriceKeeps
  <2> QED
    BY <1>2, <2>1, <2>2, ReviewWritesKeeps, AsideKeeps DEF Reviewer, Approved, Rejected
<1>3. CASE Bundling(r)
  <2>1. ASSUME NEW b \in Bundles, NEW d \in Discounts, NEW cs \in SUBSET Standing, BundleReads(r, b, {d}, cs)
        PROVE  CustomInv'
    BY <2>1, BundleReadsKeeps
  <2>2. ASSUME NEW b \in Bundles, BundleDeleteReads(r, b) \/ Ordered(r, b)
        PROVE  CustomInv'
    BY <2>2, BundleDeleteReadsKeeps, AsideKeeps
  <2> QED
    BY <1>3, <2>1, <2>2, BundleWritesKeeps, BundleDeletesKeeps DEF Bundling
<1> QED
  BY <1>1, <1>2, <1>3, AsideKeeps

\* The rows, the requests and what each of them read keep their shape: an edit
\* carries a payload of UpdateCustomProductDto, a bundle its offers and links.
THEOREM CustomTyped == CustomSpec => []CustomTypeInv
<1>1. CustomInv => CustomTypeInv
  BY DEF CustomInv
<1> QED
  BY <1>1, CustomInitInv, CustomNextInv, PTL DEF CustomSpec

\* However creations, copies, edits, deletions, submissions, decisions, base
\* prices and bundles interleave: what is published under a provider's name the
\* provider approved, no bundle sells below what the provider is owed, and
\* every custom product opens at a slug of its own.
THEOREM OfferedStaysSound == CustomSpec => []OfferedIsSound
<1> QED
  BY OfferedEnough, CustomInitInv, CustomNextInv, PTL DEF CustomSpec

-------------------------------------------------------------------------------
(* The shop: typing.                                                         *)

Stocks == {{}} \cup {{n} : n \in Nat}
Books  == {{}} \cup {{n} : n \in Int}
VariantRows == {Unborn, Gone} \cup {Live(s) : s \in Stocks}
PartNames == {"translations", "attributes", "tags"}
CatRows == {NoCat, GoneCat} \cup {Coll(p) : p \in Maybe(Cats)}
LineRows == {NoLine} \cup [item : {{i} : i \in Items}, offer : Maybe(Offers), qty : Nat \ {0}]

\* What is left of a save: its statements and the parts they replace.
Twice  == <<"attributes", "tags">>
Once   == <<"tags">>
Editings ==
  {<<"row", "sync">>, <<"sync">>,
   <<"row", "unlink", "link">>, <<"unlink", "link">>, <<"link">>, <<"row", "bundles">>, <<"bundles">>,
   <<"row", "clear", "create", "clear", "create", "clear", "create">>,
   <<"row", "sync", "clear", "create", "clear", "create", "clear", "create">>,
   <<"sync", "clear", "create", "clear", "create", "clear", "create">>,
   <<"clear", "create", "clear", "create", "clear", "create">>,
   <<"create", "clear", "create", "clear", "create">>}
Plans ==
  {<<t, Parts>> : t \in Editings} \cup
  {<<t, Twice>> : t \in {<<"clear", "create", "clear", "create">>, <<"create", "clear", "create">>,
                         <<"create", "create", "link", "bundles", "sync">>}} \cup
  {<<t, Once>> : t \in {<<"clear", "create">>, <<"create">>, <<"create", "link", "bundles", "sync">>}} \cup
  {<<t, << >> >> : t \in {<<"link", "bundles", "sync">>, <<"bundles", "sync">>, <<"sync">>}}

\* The parts of the product that such a save has yet to create: the one it has
\* cleared, or all that are left when the product is new.
Missing(t, ps) ==
  IF Head(t) # "create" THEN {} ELSE IF t[Len(t)] = "create" THEN {Head(ps)} ELSE {ps[i] : i \in 1 .. Len(ps)}

\* What the next statement of a save leaves of it.
PlanGoesOn(t, ps) ==
  /\ Head(t) \notin {"create"} /\ Len(t) # 1 => <<Tail(t), ps>> \in Plans
  /\ Head(t) \notin {"clear", "create"} => Missing(t, ps) = {} /\ (Len(t) # 1 => Missing(Tail(t), ps) = {})
  /\ Head(t) = "clear" => /\ Len(t) # 1 /\ Head(ps) \in PartNames
                          /\ Missing(t, ps) = {} /\ Missing(Tail(t), ps) = {Head(ps)}
  /\ Head(t) = "create" => /\ Head(ps) \in PartNames /\ Head(ps) \in Missing(t, ps)
                           /\ Len(t) # 1 => <<Tail(t), Tail(ps)>> \in Plans
                                            /\ Missing(Tail(t), Tail(ps)) = Missing(t, ps) \ {Head(ps)}
                           /\ Len(t) = 1 => Missing(t, ps) = {Head(ps)}
  /\ Head(t) \in {"row", "sync", "unlink", "link", "bundles", "clear", "create"}
LEMMA PlanMoves ==
  ASSUME NEW t, NEW ps, <<t, ps>> \in Plans
  PROVE  PlanGoesOn(t, ps)
<1>1. PlanGoesOn(<<"row", "sync">>, Parts)
  BY DEF PlanGoesOn, Missing, Plans, Editings, Parts, Twice, Once, PartNames
<1>2. PlanGoesOn(<<"sync">>, Parts)
  BY DEF PlanGoesOn, Missing, Plans, Editings, Parts, Twice, Once, PartNames
<1>3. PlanGoesOn(<<"row", "unlink", "link">>, Parts)
  BY DEF PlanGoesOn, Missing, Plans, Editings, Parts, Twice, Once, PartNames
<1>4. PlanGoesOn(<<"unlink", "link">>, Parts)
  BY DEF PlanGoesOn, Missing, Plans, Editings, Parts, Twice, Once, PartNames
<1>5. PlanGoesOn(<<"link">>, Parts)
  BY DEF PlanGoesOn, Missing, Plans, Editings, Parts, Twice, Once, PartNames
<1>6. PlanGoesOn(<<"row", "bundles">>, Parts)
  BY DEF PlanGoesOn, Missing, Plans, Editings, Parts, Twice, Once, PartNames
<1>7. PlanGoesOn(<<"bundles">>, Parts)
  BY DEF PlanGoesOn, Missing, Plans, Editings, Parts, Twice, Once, PartNames
<1>8. PlanGoesOn(<<"row", "clear", "create", "clear", "create", "clear", "create">>, Parts)
  BY DEF PlanGoesOn, Missing, Plans, Editings, Parts, Twice, Once, PartNames
<1>9. PlanGoesOn(<<"row", "sync", "clear", "create", "clear", "create", "clear", "create">>, Parts)
  BY DEF PlanGoesOn, Missing, Plans, Editings, Parts, Twice, Once, PartNames
<1>10. PlanGoesOn(<<"sync", "clear", "create", "clear", "create", "clear", "create">>, Parts)
  BY DEF PlanGoesOn, Missing, Plans, Editings, Parts, Twice, Once, PartNames
<1>11. PlanGoesOn(<<"clear", "create", "clear", "create", "clear", "create">>, Parts)
  BY DEF PlanGoesOn, Missing, Plans, Editings, Parts, Twice, Once, PartNames
<1>12. PlanGoesOn(<<"create", "clear", "create", "clear", "create">>, Parts)
  BY DEF PlanGoesOn, Missing, Plans, Editings, Parts, Twice, Once, PartNames
<1>13. PlanGoesOn(<<"clear", "create", "clear", "create">>, Twice)
  BY DEF PlanGoesOn, Missing, Plans, Editings, Parts, Twice, Once, PartNames
<1>14. PlanGoesOn(<<"create", "clear", "create">>, Twice)
  BY DEF PlanGoesOn, Missing, Plans, Editings, Parts, Twice, Once, PartNames
<1>15. PlanGoesOn(<<"create", "create", "link", "bundles", "sync">>, Twice)
  BY DEF PlanGoesOn, Missing, Plans, Editings, Parts, Twice, Once, PartNames
<1>16. PlanGoesOn(<<"clear", "create">>, Once)
  BY DEF PlanGoesOn, Missing, Plans, Editings, Parts, Twice, Once, PartNames
<1>17. PlanGoesOn(<<"create">>, Once)
  BY DEF PlanGoesOn, Missing, Plans, Editings, Parts, Twice, Once, PartNames
<1>18. PlanGoesOn(<<"create", "link", "bundles", "sync">>, Once)
  BY DEF PlanGoesOn, Missing, Plans, Editings, Parts, Twice, Once, PartNames
<1>19. PlanGoesOn(<<"link", "bundles", "sync">>, << >>)
  BY DEF PlanGoesOn, Missing, Plans, Editings, Parts, Twice, Once, PartNames
<1>20. PlanGoesOn(<<"bundles", "sync">>, << >>)
  BY DEF PlanGoesOn, Missing, Plans, Editings, Parts, Twice, Once, PartNames
<1>21. PlanGoesOn(<<"sync">>, << >>)
  BY DEF PlanGoesOn, Missing, Plans, Editings, Parts, Twice, Once, PartNames
<1>22. \A x \in Editings : PlanGoesOn(x, Parts)
  BY <1>1, <1>2, <1>3, <1>4, <1>5, <1>6, <1>7, <1>8, <1>9, <1>10, <1>11, <1>12 DEF Editings
<1> QED
  BY <1>13, <1>14, <1>15, <1>16, <1>17, <1>18, <1>19, <1>20, <1>21, <1>22 DEF Plans

\* The requests of the three parts of the shop.
Showns == UNION {[S -> Stocks] : S \in SUBSET Vs}
Saving ==
  {q \in [op : {"save"}, p : Ps, todo : {x[1] : x \in Plans}, shown : Showns, counted : SUBSET Vs,
          new : SUBSET Vs, first : Nat, parts : {x[2] : x \in Plans}, cats : SUBSET Cats, foreign : BOOLEAN] :
     <<q.todo, q.parts>> \in Plans /\ q.counted \subseteq DOMAIN q.shown /\ q.new \cap DOMAIN q.shown = {}}
SaveCalls == {Idle, Over} \cup Saving

Storing == [op : {"newcat"}, at : {"row"}, c : Owned, parent : Maybe(Cats), ps : SUBSET Ps]
Linking == [op : {"link"}, at : {"clear", "attach"}, c : Cats, ps : SUBSET Ps]
Editing == [op : {"edit"}, c : Cats, parents : Maybe(Maybe(Cats)), pss : SUBSET SUBSET Ps, at : {"walk", "row"},
            cursor : SUBSET Cats, seen : SUBSET Cats]
Reordering == [op : {"reorder"}, at : {"write"}, ids : [1 .. 2 -> Cats]]
CollectCalls == {Idle, Over} \cup Storing \cup Linking \cup Editing \cup Reordering

Adding == [op : {"add"}, at : {"validate", "same", "find", "write"}, item : Items, offer : Maybe(Offers),
           qty : Quantities, found : Maybe(Lines), read : Nat]
Changing == [op : {"update"}, at : {"validate", "multiple", "write"}, l : Lines, qty : Maybe(Quantities),
             offers : Maybe(Maybe(Offers)), row : LineRows \ {NoLine}]
Asking   == [op : {"show"}, at : {"fetch"}]
Looking  == [op : {"show"}, at : {"look"}, todo : SUBSET (Lines \X Offers)]
Clearing == [op : {"show"}, at : {"look", "clear"}, todo : SUBSET (Lines \X Offers), l : Lines]
Paying   == [op : {"checkout"}, at : {"place", "empty"}, taken : [Items -> Nat]]
CartCalls == {Idle, Over} \cup Adding \cup Changing \cup Asking \cup Looking \cup Clearing \cup Paying

ProductsTyped ==
  /\ product \in [Ps -> {"none", "gone", "DRAFT", "PUBLISHED"}]
  /\ part \in [Ps -> [PartNames -> Nat]]
  /\ variant \in [Vs -> VariantRows]
  /\ links \subseteq Ps \X Cats
  /\ book \in [Vs -> Books]
  /\ stale \subseteq Vs /\ died \subseteq Ps /\ overlap \subseteq Ps
CollectionsTyped ==
  cat \in [Cats -> CatRows] /\ crossed \in BOOLEAN
CartTyped ==
  /\ line \in [Lines -> LineRows]
  /\ offer \in [Offers -> {"live", "off", "gone"}]
  /\ wanted \in [Items -> Int] /\ ordered \in [Items -> Nat] /\ raced \in BOOLEAN
ShopTypeInv ==
  /\ ProductsTyped /\ CollectionsTyped /\ CartTyped
  /\ req \in [Requests -> SaveCalls \cup CollectCalls \cup CartCalls]

\* A request is of one kind, which its operation tells.
LEMMA KindsApart ==
  /\ \A q \in Saving : q.op = "save"
  /\ \A q \in Storing : q.op = "newcat"
  /\ \A q \in Linking : q.op = "link"
  /\ \A q \in Editing : q.op = "edit"
  /\ \A q \in Reordering : q.op = "reorder"
  /\ \A q \in Adding : q.op = "add"
  /\ \A q \in Changing : q.op = "update"
  /\ \A q \in Asking \cup Looking \cup Clearing : q.op = "show"
  /\ \A q \in Paying : q.op = "checkout"
  /\ Idle.op = "idle" /\ Over.op = "done"
BY DEF Saving, Storing, Linking, Editing, Reordering, Adding, Changing, Asking, Looking, Clearing, Paying, Idle, Over

LEMMA SaveIs ==
  ASSUME ShopTypeInv, NEW r \in Requests, req[r].op = "save"
  PROVE  req[r] \in Saving
<1>1. req[r] \in SaveCalls \cup CollectCalls \cup CartCalls
  BY DEF ShopTypeInv
<1> QED
  BY <1>1, KindsApart DEF SaveCalls, CollectCalls, CartCalls
LEMMA CollectIs ==
  ASSUME ShopTypeInv, NEW r \in Requests
  PROVE  /\ req[r].op = "newcat" => req[r] \in Storing
         /\ req[r].op = "link" => req[r] \in Linking
         /\ req[r].op = "edit" => req[r] \in Editing
         /\ req[r].op = "reorder" => req[r] \in Reordering
<1>1. req[r] \in SaveCalls \cup CollectCalls \cup CartCalls
  BY DEF ShopTypeInv
<1> QED
  BY <1>1, KindsApart DEF SaveCalls, CollectCalls, CartCalls
LEMMA CartCallIs ==
  ASSUME ShopTypeInv, NEW r \in Requests
  PROVE  /\ req[r].op = "add" => req[r] \in Adding
         /\ req[r].op = "update" => req[r] \in Changing
         /\ req[r].op = "show" => req[r] \in Asking \cup Looking \cup Clearing
         /\ req[r].op = "checkout" => req[r] \in Paying
<1>1. req[r] \in SaveCalls \cup CollectCalls \cup CartCalls
  BY DEF ShopTypeInv
<1> QED
  BY <1>1, KindsApart DEF SaveCalls, CollectCalls, CartCalls

\* Request r goes on within one part of the shop.
Moves(r, S) == req[r] \in S /\ \E x \in S : req' = [req EXCEPT ![r] = x]

LEMMA MovesTyped ==
  ASSUME ShopTypeInv, NEW r \in Requests, NEW S \in {SaveCalls, CollectCalls, CartCalls}, Moves(r, S)
  PROVE  /\ req' \in [Requests -> SaveCalls \cup CollectCalls \cup CartCalls]
         /\ req[r] \in S /\ req'[r] \in S /\ \A s \in Requests \ {r} : req'[s] = req[s]
BY DEF Moves, ShopTypeInv

LEMMA ArrivesMoves ==
  ASSUME ShopTypeInv, NEW r \in Requests, NEW S, Idle \in S, Over \in S, Arrives(r)
  PROVE  /\ Ends(r) => Moves(r, S)
         /\ \A q \in S : Start(r, q) => Moves(r, S)
BY DEF Moves, Ends, Start, Done, Arrives

LEMMA SubNat == \A s \in Stocks : s # {0} => {n - 1 : n \in s} \in Stocks
<1> SUFFICES ASSUME NEW s \in Stocks, s # {0}
             PROVE  {n - 1 : n \in s} \in Stocks
  OBVIOUS
<1>1. CASE s = {}
  BY <1>1 DEF Stocks
<1>2. CASE s # {}
  <2>1. PICK k \in Nat : s = {k}
    BY <1>2 DEF Stocks
  <2>2. {n - 1 : n \in s} = {k - 1} /\ k - 1 \in Nat
    BY <2>1
  <2> QED
    BY <2>2 DEF Stocks
<1> QED
  BY <1>1, <1>2

LEMMA SubInt == \A s \in Books : {n - 1 : n \in s} \in Books
<1> SUFFICES ASSUME NEW s \in Books
             PROVE  {n - 1 : n \in s} \in Books
  OBVIOUS
<1>1. CASE s = {}
  BY <1>1 DEF Books
<1>2. CASE s # {}
  <2>1. PICK k \in Int : s = {k}
    BY <1>2 DEF Books
  <2>2. {n - 1 : n \in s} = {k - 1} /\ k - 1 \in Int
    BY <2>1
  <2> QED
    BY <2>2 DEF Books
<1> QED
  BY <1>1, <1>2

LEMMA LiveIs ==
  /\ \A s : Live(s).is = "live" /\ Live(s).stock = s
  /\ \A x \in VariantRows : x.is = "live" => x.stock \in Stocks /\ x = Live(x.stock)
  /\ Unborn.is # "live" /\ Gone.is # "live"
  /\ Unborn \in VariantRows /\ Gone \in VariantRows
  /\ \A s \in Stocks : Live(s) \in VariantRows /\ s \in Books
<1>1. \A s : Live(s).is = "live" /\ Live(s).stock = s
  BY DEF Live
<1>2. Unborn.is # "live" /\ Gone.is # "live"
  BY DEF Unborn, Gone
<1>3. \A x \in VariantRows : x.is = "live" => x.stock \in Stocks /\ x = Live(x.stock)
  BY <1>1, <1>2 DEF VariantRows
<1>4. \A s \in Stocks : s \in Books
  BY DEF Stocks, Books
<1> QED
  BY <1>1, <1>2, <1>3, <1>4 DEF VariantRows

LEMMA PartNamesAre == ToSet(Parts) = PartNames
BY DEF ToSet, Parts, PartNames

\* What is left of a save after a statement.
LEMMA RestIs ==
  ASSUME NEW q \in Saving, Head(q.todo) # "create"
  PROVE  /\ Len(q.todo) = 1 => Rest(q) = Over
         /\ Len(q.todo) # 1 => /\ Rest(q) \in Saving /\ Rest(q).todo = Tail(q.todo)
                               /\ \A f \in {"op", "p", "shown", "counted", "new", "first", "parts", "cats", "foreign"} :
                                    Rest(q)[f] = q[f]
         /\ Rest(q) \in SaveCalls
<1>1. <<q.todo, q.parts>> \in Plans
  BY DEF Saving
<1>2. CASE Len(q.todo) = 1
  BY <1>2 DEF Rest, SaveCalls
<1>3. CASE Len(q.todo) # 1
  <2>1. Rest(q) = [q EXCEPT !.todo = Tail(q.todo)]
    BY <1>3 DEF Rest
  <2>2. PlanGoesOn(q.todo, q.parts)
    BY <1>1, PlanMoves
  <2>3. <<Tail(q.todo), q.parts>> \in Plans
    BY <1>3, <2>2 DEF PlanGoesOn
  <2> DEFINE w == Tail(q.todo)
  <2>4. w \in {x[1] : x \in Plans}
    BY <2>3
  <2> HIDE DEF w
  <2>5. [q EXCEPT !.todo = w] \in Saving
    BY <2>3, <2>4 DEF Saving, w
  <2> QED
    BY <1>3, <2>1, <2>5 DEF Saving, SaveCalls, w
<1> QED
  BY <1>2, <1>3

LEMMA GoesOnMoves ==
  ASSUME ShopTypeInv, NEW r \in Requests, NEW step, step # "create", NextIs(r, step), GoesOn(r) \/ Ends(r)
  PROVE  /\ Moves(r, SaveCalls) /\ req[r] \in Saving /\ Head(req[r].todo) = step
         /\ req'[r] = Over \/ (req'[r] = Rest(req[r]) /\ req'[r] \in Saving)
<1>1. req[r] \in Saving /\ Head(req[r].todo) = step
  BY SaveIs DEF NextIs, Running
<1>2. Rest(req[r]) \in SaveCalls /\ (Rest(req[r]) = Over \/ Rest(req[r]) \in Saving)
  BY <1>1, RestIs
<1>3. Over \in SaveCalls /\ req[r] \in SaveCalls
  BY <1>1 DEF SaveCalls
<1>4. CASE GoesOn(r)
  BY <1>1, <1>2, <1>3, <1>4 DEF GoesOn, Moves, ShopTypeInv
<1>5. CASE Ends(r)
  BY <1>1, <1>3, <1>5 DEF Ends, Done, Moves, ShopTypeInv
<1> QED
  BY <1>4, <1>5

LEMMA OpensMoves ==
  ASSUME ShopTypeInv, NEW r \in Requests, NEW p \in Ps, Opens(r, p)
  PROVE  /\ Moves(r, SaveCalls) /\ p \in Existing /\ UNCHANGED varsP
         /\ \E q \in Saving : /\ req' = [req EXCEPT ![r] = q] /\ req[r] = Idle /\ q.op = "save" /\ q.p = p
                              /\ Head(q.todo) = "row"
<1>1. PICK drop, counted \in {{}} \cup {{v} : v \in VariantsOf(p)}, n \in Counts,
           new \in {{}} \cup {{v} : v \in Unused(p)}, cats \in {{}, Cats}, foreign \in BOOLEAN, sends \in Payloads :
        /\ drop \cap counted = {}
        /\ "variants" \notin sends => drop = {} /\ counted = {} /\ new = {}
        /\ "collections" \notin sends => cats = {}
        /\ "bundles" \notin sends => ~foreign
        /\ Start(r, [op |-> "save", p |-> p, todo |-> Statements(sends),
             shown |-> [v \in VariantsOf(p) \ drop |-> IF v \in counted THEN {n} ELSE variant[v].stock],
             counted |-> counted, new |-> new, first |-> n, parts |-> Parts,
             cats |-> cats, foreign |-> foreign])
  BY DEF Opens
<1> DEFINE shown == [v \in VariantsOf(p) \ drop |-> IF v \in counted THEN {n} ELSE variant[v].stock]
           q == [op |-> "save", p |-> p, todo |-> Statements(sends), shown |-> shown,
                 counted |-> counted, new |-> new, first |-> n, parts |-> Parts, cats |-> cats, foreign |-> foreign]
<1>2. Arrives(r) /\ p \in Existing /\ UNCHANGED varsP /\ Start(r, q)
  BY <1>1 DEF Opens
<1>3. shown \in Showns /\ DOMAIN shown = VariantsOf(p) \ drop
  <2>1. \A v \in VariantsOf(p) : v \in Vs /\ variant[v].stock \in Stocks
    BY LiveIs DEF VariantsOf, IsLive, ShopTypeInv, ProductsTyped
  <2>2. {n} \in Stocks
    BY CountsNat DEF Stocks
  <2>3. VariantsOf(p) \ drop \in SUBSET Vs
    BY <2>1
  <2>4. shown \in [VariantsOf(p) \ drop -> Stocks]
    BY <2>1, <2>2
  <2> QED
    BY <2>3, <2>4 DEF Showns
<1>4. <<Statements(sends), Parts>> \in Plans /\ Head(Statements(sends)) = "row"
  <2>1. /\ {"variants"} # {"collections"} /\ {"variants"} # {"bundles"} /\ {"collections"} # {"bundles"}
        /\ {"variants"} # {"parts"} /\ {"collections"} # {"parts"} /\ {"bundles"} # {"parts"}
        /\ {"variants", "parts"} # {"variants"} /\ {"variants", "parts"} # {"collections"}
        /\ {"variants", "parts"} # {"bundles"} /\ {"variants", "parts"} # {"parts"}
    OBVIOUS
  <2>2. CASE sends = {"variants"}
    <3>1. Statements(sends) = <<"row", "sync">>
      BY <2>1, <2>2 DEF Statements
    <3> QED
      BY <3>1 DEF Plans, Editings
  <2>3. CASE sends = {"collections"}
    <3>1. Statements(sends) = <<"row", "unlink", "link">>
      BY <2>1, <2>3 DEF Statements
    <3> QED
      BY <3>1 DEF Plans, Editings
  <2>4. CASE sends = {"bundles"}
    <3>1. Statements(sends) = <<"row", "bundles">>
      BY <2>1, <2>4 DEF Statements
    <3> QED
      BY <3>1 DEF Plans, Editings
  <2>5. CASE sends = {"parts"}
    <3>1. Statements(sends) = <<"row", "clear", "create", "clear", "create", "clear", "create">>
      BY <2>1, <2>5 DEF Statements
    <3> QED
      BY <3>1 DEF Plans, Editings
  <2>6. CASE sends = {"variants", "parts"}
    <3>1. Statements(sends) = <<"row", "sync", "clear", "create", "clear", "create", "clear", "create">>
      BY <2>1, <2>6 DEF Statements
    <3> QED
      BY <3>1 DEF Plans, Editings
  <2> QED
    BY <2>2, <2>3, <2>4, <2>5, <2>6 DEF Payloads
<1>5. new \in SUBSET Vs /\ counted \in SUBSET Vs /\ cats \in SUBSET Cats /\ n \in Nat
  BY CountsNat DEF Unused, VariantsOf
<1>6. new \cap DOMAIN shown = {} /\ counted \subseteq DOMAIN shown
  <2>1. \A v \in new : variant[v] = Unborn
    BY DEF Unused
  <2>2. \A v \in VariantsOf(p) : variant[v] # Unborn
    BY LiveIs DEF VariantsOf, IsLive
  <2>3. counted \subseteq VariantsOf(p) /\ counted \cap drop = {}
    BY <1>1
  <2> QED
    BY <1>3, <2>1, <2>2, <2>3
<1> HIDE DEF shown
<1>7. q \in Saving
  <2>1. Statements(sends) \in {x[1] : x \in Plans} /\ Parts \in {x[2] : x \in Plans}
    BY <1>4
  <2> QED
    BY <1>3, <1>4, <1>5, <1>6, <2>1 DEF Saving
<1>8. q.op = "save" /\ q.p = p /\ q.todo = Statements(sends)
  OBVIOUS
<1> HIDE DEF q
<1>9. req' = [req EXCEPT ![r] = q] /\ req[r] = Idle
  BY <1>2 DEF Start, Arrives
<1> QED
  BY <1>2, <1>4, <1>7, <1>8, <1>9 DEF Moves, SaveCalls

LEMMA CreatesMoves ==
  ASSUME ShopTypeInv, NEW r \in Requests, NEW p \in Ps, Creates(r, p)
  PROVE  /\ Moves(r, SaveCalls) /\ ProductsTyped' /\ product[p] = "none"
         /\ \E q \in Saving : /\ req' = [req EXCEPT ![r] = q] /\ req[r] = Idle /\ q.op = "save" /\ q.p = p
                              /\ q.todo = <<"create", "create", "link", "bundles", "sync">> /\ q.parts = Twice
<1>1. PICK new \in {{}} \cup {{v} : v \in Unused(p)}, n \in Counts, cats \in {{}, Cats}, foreign \in BOOLEAN :
       Start(r, [op |-> "save", p |-> p, todo |-> <<"create", "create", "link", "bundles", "sync">>,
                 shown |-> [v \in {} |-> {}], counted |-> {}, new |-> new, first |-> n,
                 parts |-> Tail(Parts), cats |-> cats, foreign |-> foreign])
  BY DEF Creates
<1> DEFINE todo == <<"create", "create", "link", "bundles", "sync">>
           shown == [v \in {} |-> {}]
           q == [op |-> "save", p |-> p, todo |-> todo, shown |-> shown, counted |-> {}, new |-> new, first |-> n,
                 parts |-> Tail(Parts), cats |-> cats, foreign |-> foreign]
<1>2. /\ Arrives(r) /\ product[p] = "none" /\ product' = [product EXCEPT ![p] = "DRAFT"] /\ Start(r, q)
      /\ part' = [part EXCEPT ![p]["translations"] = 1] /\ UNCHANGED <<variant, cat, links, histP>>
  BY <1>1 DEF Creates
<1>3. shown \in Showns /\ DOMAIN shown = {}
  BY DEF Showns
<1>4. Tail(Parts) = Twice
  BY DEF Parts, Twice
<1>5. new \in SUBSET Vs /\ cats \in SUBSET Cats /\ n \in Nat
  BY CountsNat DEF Unused
<1> HIDE DEF shown
<1>6. q \in Saving
  <2>1. <<todo, Twice>> \in Plans
    BY DEF Plans
  <2>2. todo \in {x[1] : x \in Plans} /\ Twice \in {x[2] : x \in Plans}
    BY <2>1
  <2> HIDE DEF todo
  <2> QED
    BY <1>3, <1>4, <1>5, <2>1, <2>2 DEF Saving
<1>7. q.op = "save" /\ q.p = p /\ q.todo = todo /\ q.parts = Twice
  BY <1>4
<1> HIDE DEF q
<1>8. req' = [req EXCEPT ![r] = q] /\ req[r] = Idle
  BY <1>2 DEF Start, Arrives
<1>9. ProductsTyped'
  BY <1>2 DEF ShopTypeInv, ProductsTyped, PartNames, histP
<1> QED
  BY <1>2, <1>6, <1>7, <1>8, <1>9 DEF Moves, SaveCalls

LEMMA SavesRowMoves ==
  ASSUME ShopTypeInv, NEW r \in Requests, SavesRow(r)
  PROVE  Moves(r, SaveCalls) /\ ProductsTyped'
<1>1. NextIs(r, "row") /\ (GoesOn(r) \/ Ends(r)) /\ UNCHANGED <<rowsP, book, stale, died>>
      /\ (overlap' = overlap \/ overlap' = overlap \cup {req[r].p})
  BY DEF SavesRow
<1>2. Moves(r, SaveCalls) /\ req[r] \in Saving
  BY <1>1, GoesOnMoves
<1> QED
  BY <1>1, <1>2 DEF Saving, ShopTypeInv, ProductsTyped, rowsP

LEMMA SyncedTyped ==
  ASSUME ShopTypeInv, NEW q \in Saving, NEW v \in Vs
  PROVE  Synced(q, v) \in VariantRows
<1>1. variant[v] \in VariantRows /\ Gone \in VariantRows
  BY LiveIs DEF ShopTypeInv, ProductsTyped
<1>2. q.shown \in Showns /\ q.first \in Nat
  BY DEF Saving
<1>3. v \in DOMAIN q.shown => q.shown[v] \in Stocks
  BY <1>2 DEF Showns
<1>4. {q.first} \in Stocks
  BY <1>2 DEF Stocks
<1> QED
  BY <1>1, <1>3, <1>4, LiveIs DEF Synced

LEMMA SavesVariantsMoves ==
  ASSUME ShopTypeInv, NEW r \in Requests, SavesVariants(r)
  PROVE  Moves(r, SaveCalls) /\ ProductsTyped'
<1> DEFINE q == req[r]
<1>1. NextIs(r, "sync") /\ (GoesOn(r) \/ Ends(r)) /\ UNCHANGED <<product, part, cat, links, died, overlap>>
  BY DEF SavesVariants
<1>2. Moves(r, SaveCalls) /\ q \in Saving
  BY <1>1, GoesOnMoves
<1>3. CASE UNCHANGED <<variant, book, stale>>
  BY <1>1, <1>2, <1>3 DEF ShopTypeInv, ProductsTyped
<1>4. CASE ~UNCHANGED <<variant, book, stale>>
  <2>1. /\ variant' = [v \in Vs |-> Synced(q, v)]
        /\ book' = [v \in Vs |-> CASE v \in q.new     -> {q.first}
                                   [] v \in q.counted -> q.shown[v]
                                   [] OTHER           -> book[v]]
        /\ stale' = (stale \ Counted(q)) \cup SoldSince(q)
    BY <1>4 DEF SavesVariants
  <2> SUFFICES /\ variant' \in [Vs -> VariantRows] /\ book' \in [Vs -> Books] /\ stale' \subseteq Vs
    BY <1>1, <1>2 DEF ShopTypeInv, ProductsTyped
  <2>2. variant' \in [Vs -> VariantRows]
    BY <1>2, <2>1, SyncedTyped
  <2>3. ASSUME NEW v \in Vs
        PROVE  book'[v] \in Books
    <3>1. book[v] \in Books /\ {q.first} \in Books
      BY <1>2 DEF ShopTypeInv, ProductsTyped, Saving, Books
    <3>2. v \in q.counted => q.shown[v] \in Books
      BY <1>2, LiveIs DEF Saving, Showns
    <3> QED
      BY <2>1, <3>1, <3>2
  <2>4. stale' \subseteq Vs
    BY <1>2, <2>1 DEF ShopTypeInv, ProductsTyped, SoldSince, Saving, Showns
  <2> QED
    BY <2>1, <2>2, <2>3, <2>4
<1> QED
  BY <1>2, <1>3, <1>4

\* Statements of a save that write the links or the parts, or nothing.
LEMMA SaveWritesMoves ==
  ASSUME ShopTypeInv, NEW r \in Requests, FreesLinks(r) \/ Attaches(r) \/ ChecksBundles(r) \/ ClearsPart(r)
  PROVE  Moves(r, SaveCalls) /\ ProductsTyped'
<1> DEFINE q == req[r]
<1>1. CASE FreesLinks(r)
  <2>1. Moves(r, SaveCalls)
    BY <1>1, GoesOnMoves DEF FreesLinks
  <2> QED
    BY <1>1, <2>1 DEF FreesLinks, ShopTypeInv, ProductsTyped, histP, LinksOf
<1>2. CASE Attaches(r)
  <2>1. Moves(r, SaveCalls) /\ q \in Saving
    BY <1>2, GoesOnMoves DEF Attaches
  <2>2. links' \subseteq links \cup {<<q.p, c>> : c \in q.cats \cap Rows}
    BY <1>2 DEF Attaches
  <2>3. {<<q.p, c>> : c \in q.cats \cap Rows} \subseteq Ps \X Cats
    BY <2>1 DEF Saving
  <2>4. links' \subseteq Ps \X Cats
    BY <2>2, <2>3 DEF ShopTypeInv, ProductsTyped
  <2> QED
    BY <1>2, <2>1, <2>4 DEF Attaches, ShopTypeInv, ProductsTyped, histP
<1>3. CASE ChecksBundles(r)
  <2>1. Moves(r, SaveCalls)
    BY <1>3, GoesOnMoves DEF ChecksBundles
  <2> QED
    BY <1>3, <2>1 DEF ChecksBundles, ShopTypeInv, ProductsTyped, varsP
<1>4. CASE ClearsPart(r)
  <2>1. Moves(r, SaveCalls) /\ q \in Saving
    BY <1>4, GoesOnMoves DEF ClearsPart
  <2>2. part' = [part EXCEPT ![q.p][Head(q.parts)] = 0] /\ UNCHANGED <<product, variant, cat, links, histP>>
    BY <1>4 DEF ClearsPart
  <2> HIDE DEF q
  <2>3. part' \in [Ps -> [PartNames -> Nat]]
    BY <2>2 DEF ShopTypeInv, ProductsTyped
  <2> QED
    BY <2>1, <2>2, <2>3 DEF ShopTypeInv, ProductsTyped, histP
<1> QED
  BY <1>1, <1>2, <1>3, <1>4

LEMMA CreatesPartMoves ==
  ASSUME ShopTypeInv, NEW r \in Requests, CreatesPart(r)
  PROVE  /\ Moves(r, SaveCalls) /\ ProductsTyped' /\ req[r] \in Saving
         /\ ~Ends(r) => req'[r] = Over \/ (req'[r] \in Saving /\ req'[r].p = req[r].p /\ req'[r].todo = Tail(req[r].todo)
                                           /\ req'[r].parts = Tail(req[r].parts))
         /\ req'[r] = Over => Ends(r) \/ Len(req[r].todo) = 1
<1> DEFINE q == req[r]
           x == Head(q.parts)
           n == [q EXCEPT !.parts = Tail(@)]
<1>1. NextIs(r, "create") /\ UNCHANGED <<product, variant, cat, links, histP>>
  BY DEF CreatesPart
<1>2. q \in Saving /\ Head(q.todo) = "create"
  BY <1>1, SaveIs DEF NextIs, Running
<1>3. PlanGoesOn(q.todo, q.parts)
  BY <1>2, PlanMoves DEF Saving
<1>4. CASE Ends(r) /\ UNCHANGED part
  BY <1>1, <1>2, <1>4 DEF Ends, Done, Moves, SaveCalls, ShopTypeInv, ProductsTyped, histP
<1>5. CASE ~(Ends(r) /\ UNCHANGED part)
  <2>1. part' = [part EXCEPT ![q.p][x] = @ + 1] /\ req' = [req EXCEPT ![r] = Rest(n)]
    BY <1>5 DEF CreatesPart
  <2>2. Rest(n) = Over \/ (Rest(n) \in Saving /\ Rest(n).p = q.p /\ Rest(n).todo = Tail(q.todo) /\ Rest(n).parts = Tail(q.parts)
                           /\ Len(q.todo) # 1)
    <3>1. n.todo = q.todo /\ n = [q EXCEPT !.parts = Tail(q.parts)]
      BY <1>2 DEF Saving
    <3>2. CASE Len(q.todo) = 1
      BY <3>1, <3>2 DEF Rest
    <3>3. CASE Len(q.todo) # 1
      <4> DEFINE t == Tail(q.todo)
                 ps == Tail(q.parts)
      <4>1. <<t, ps>> \in Plans
        BY <1>2, <1>3, <3>3 DEF PlanGoesOn
      <4>2. t \in {y[1] : y \in Plans} /\ ps \in {y[2] : y \in Plans}
        BY <4>1
      <4>3. Rest(n) = [n EXCEPT !.todo = t]
        BY <3>1, <3>3 DEF Rest
      <4> HIDE DEF t, ps
      <4>4. n = [q EXCEPT !.parts = ps]
        BY <3>1 DEF ps
      <4>5. Rest(n) \in Saving /\ Rest(n).p = q.p /\ Rest(n).todo = t /\ Rest(n).parts = ps
        BY <1>2, <4>1, <4>2, <4>3, <4>4 DEF Saving
      <4> QED
        BY <3>3, <4>5 DEF t, ps
    <3> QED
      BY <3>2, <3>3
  <2>3. Rest(n) = Over => Len(q.todo) = 1
    <3>1. n.todo = q.todo
      BY <1>2 DEF Saving
    <3>2. Rest(n).op = "done" => Len(q.todo) = 1
      BY <1>2, <3>1 DEF Rest, Saving
    <3> QED
      BY <3>2 DEF Over
  <2> HIDE DEF n
  <2>4. Moves(r, SaveCalls) /\ req'[r] = Rest(n)
    BY <1>2, <2>1, <2>2 DEF Moves, SaveCalls, ShopTypeInv
  <2>5. part' \in [Ps -> [PartNames -> Nat]]
    <3>1. q.p \in Ps /\ x \in PartNames
      BY <1>2, <1>3 DEF Saving, PlanGoesOn
    <3> HIDE DEF q, x
    <3> QED
      BY <2>1, <3>1 DEF ShopTypeInv, ProductsTyped
  <2> QED
    BY <1>1, <1>2, <2>2, <2>3, <2>4, <2>5 DEF ShopTypeInv, ProductsTyped, histP
<1> QED
  BY <1>4, <1>5

LEMMA SaveDiesMoves ==
  ASSUME ShopTypeInv, NEW r \in Requests, SaveDies(r)
  PROVE  Moves(r, SaveCalls) /\ ProductsTyped' /\ req[r] \in Saving
<1>1. req[r] \in Saving
  BY SaveIs DEF SaveDies, Running
<1>2. Ends(r) /\ died' = died \cup {req[r].p} /\ UNCHANGED <<rowsP, book, stale, overlap>>
  BY DEF SaveDies
<1> QED
  BY <1>1, <1>2 DEF Ends, Done, Moves, SaveCalls, ShopTypeInv, ProductsTyped, rowsP, Saving

LEMMA SimpleMoves ==
  ASSUME ShopTypeInv, NEW r \in Requests,
         \/ \E p \in Ps : SetsStatus(r, p) \/ Deletes(r, p) \/ AddsVariant(r, p)
         \/ \E v \in Vs : DeletesVariant(r, v) \/ Sold(r, v) \/ \E n \in Counts : SetsStock(r, v, n)
  PROVE  Arrives(r) /\ Ends(r) /\ Moves(r, SaveCalls) /\ ProductsTyped'
<1>1. Arrives(r) /\ Ends(r)
  BY DEF SetsStatus, Deletes, AddsVariant, DeletesVariant, Sold, SetsStock
<1>2. Moves(r, SaveCalls)
  BY <1>1, ArrivesMoves DEF SaveCalls
<1>3. Gone \in VariantRows /\ \A n \in Counts : {n} \in Books /\ Live({n}) \in VariantRows
  BY LiveIs, CountsNat DEF Stocks
<1>4. ASSUME NEW p \in Ps, SetsStatus(r, p)
      PROVE  ProductsTyped'
  BY <1>4 DEF SetsStatus, ShopTypeInv, ProductsTyped, histP
<1>5. ASSUME NEW p \in Ps, Deletes(r, p)
      PROVE  ProductsTyped'
  <2>1. part' = [part EXCEPT ![p] = [x \in PartNames |-> 0]]
    BY <1>5, PartNamesAre DEF Deletes
  <2>2. variant' \in [Vs -> VariantRows]
    BY <1>3, <1>5 DEF Deletes, ShopTypeInv, ProductsTyped
  <2> QED
    BY <1>5, <2>1, <2>2 DEF Deletes, ShopTypeInv, ProductsTyped, histP, LinksOf
<1>6. ASSUME NEW p \in Ps, AddsVariant(r, p)
      PROVE  ProductsTyped'
  BY <1>3, <1>6 DEF AddsVariant, ShopTypeInv, ProductsTyped
<1>7. ASSUME NEW v \in Vs, DeletesVariant(r, v)
      PROVE  ProductsTyped'
  BY <1>3, <1>7 DEF DeletesVariant, ShopTypeInv, ProductsTyped, histP
<1>8. ASSUME NEW v \in Vs, Sold(r, v)
      PROVE  ProductsTyped'
  <2>1. /\ IsLive(v) /\ variant[v].stock # {0} /\ variant' = [variant EXCEPT ![v] = Live({n - 1 : n \in variant[v].stock})]
        /\ book' = [book EXCEPT ![v] = {n - 1 : n \in book[v]}]
        /\ UNCHANGED <<product, part, cat, links, stale, died, overlap>>
    BY <1>8 DEF Sold, Sells, ShopTypeInv, ProductsTyped
  <2>2. variant[v].stock \in Stocks
    BY <2>1, LiveIs DEF IsLive, ShopTypeInv, ProductsTyped
  <2>3. Live({n - 1 : n \in variant[v].stock}) \in VariantRows
    BY <2>1, <2>2, SubNat, LiveIs
  <2>4. {n - 1 : n \in book[v]} \in Books
    BY SubInt DEF ShopTypeInv, ProductsTyped
  <2> QED
    BY <2>1, <2>3, <2>4 DEF ShopTypeInv, ProductsTyped
<1>9. ASSUME NEW v \in Vs, NEW n \in Counts, SetsStock(r, v, n)
      PROVE  ProductsTyped'
  BY <1>3, <1>9 DEF SetsStock, ShopTypeInv, ProductsTyped
<1> QED
  BY <1>1, <1>2, <1>4, <1>5, <1>6, <1>7, <1>8, <1>9

LEMMA DuplicatesMoves ==
  ASSUME ShopTypeInv, NEW r \in Requests, NEW p \in Ps, NEW p2 \in Ps, Duplicates(r, p, p2)
  PROVE  /\ Arrives(r) /\ Ends(r) /\ Moves(r, SaveCalls) /\ ProductsTyped'
         /\ \A v \in Vs : \/ variant'[v] = variant[v] /\ book'[v] = book[v]
                          \/ IsLive(v)' /\ book'[v] = variant'[v].stock
<1>1. Arrives(r) /\ Ends(r) /\ product' = [product EXCEPT ![p2] = "DRAFT"] /\ part' = [part EXCEPT ![p2] = part[p]]
      /\ (died' = died \/ died' = died \cup {p2}) /\ UNCHANGED <<cat, links, stale, overlap>>
  BY DEF Duplicates
<1>2. Moves(r, SaveCalls)
  BY <1>1, ArrivesMoves DEF SaveCalls
<1> DEFINE Copying == {f \in [VariantsOf(p) -> Unused(p2)] : IsInjective(f)}
           copy == CHOOSE f \in [VariantsOf(p) -> Unused(p2)] : IsInjective(f)
           from(v) == CHOOSE o \in VariantsOf(p) : copy[o] = v
           copied == {copy[o] : o \in VariantsOf(p)}
<1>3. /\ variant' = [v \in Vs |-> IF v \in copied THEN variant[from(v)] ELSE variant[v]]
      /\ book' = [v \in Vs |-> IF v \in copied THEN variant[from(v)].stock ELSE book[v]]
  BY DEF Duplicates
<1>4. ASSUME NEW v \in copied
      PROVE  from(v) \in VariantsOf(p)
  <2>1. \E o \in VariantsOf(p) : copy[o] = v
    OBVIOUS
  <2> HIDE DEF copy
  <2> QED
    BY <2>1
<1> HIDE DEF copied, from
<1>5. \A o \in VariantsOf(p) : variant[o] \in VariantRows /\ variant[o].is = "live" /\ variant[o].stock \in Books
  BY LiveIs DEF VariantsOf, IsLive, ShopTypeInv, ProductsTyped
<1>6. variant' \in [Vs -> VariantRows] /\ book' \in [Vs -> Books]
  BY <1>3, <1>4, <1>5 DEF ShopTypeInv, ProductsTyped
<1>7. \A v \in Vs : \/ variant'[v] = variant[v] /\ book'[v] = book[v]
                    \/ IsLive(v)' /\ book'[v] = variant'[v].stock
  BY <1>3, <1>4, <1>5 DEF IsLive
<1> QED
  BY <1>1, <1>2, <1>6, <1>7 DEF ShopTypeInv, ProductsTyped

LEMMA SellingMoves ==
  ASSUME ShopTypeInv, NEW r \in Requests, NextP(r)
  PROVE  Moves(r, SaveCalls) /\ ProductsTyped'
<1>1. ASSUME NEW p \in Ps, Opens(r, p)
      PROVE  Moves(r, SaveCalls) /\ ProductsTyped'
  <2>1. Moves(r, SaveCalls) /\ UNCHANGED varsP
    BY <1>1, OpensMoves
  <2> QED
    BY <2>1 DEF varsP, ShopTypeInv, ProductsTyped
<1>2. ASSUME NEW p \in Ps, Creates(r, p)
      PROVE  Moves(r, SaveCalls) /\ ProductsTyped'
  BY <1>2, CreatesMoves
<1>3. ASSUME NEW p \in Ps, NEW p2 \in Ps, Duplicates(r, p, p2)
      PROVE  Moves(r, SaveCalls) /\ ProductsTyped'
  BY <1>3, DuplicatesMoves
<1> QED
  BY <1>1, <1>2, <1>3, SavesRowMoves, SavesVariantsMoves, SaveWritesMoves, CreatesPartMoves, SaveDiesMoves, SimpleMoves
  DEF NextP

-------------------------------------------------------------------------------
(* The shop: stock as counted, products whole.                               *)

LEMMA StockAside ==
  ASSUME StockIsCounted, ShopTypeInv', stale \subseteq stale',
         \A v \in Vs : \/ variant'[v] = variant[v] /\ book'[v] = book[v]
                       \/ ~IsLive(v)'
                       \/ book'[v] = variant'[v].stock
  PROVE  StockIsCounted'
BY DEF StockIsCounted, IsLive

LEMMA StockSelling ==
  ASSUME StockIsCounted, ShopTypeInv, ShopTypeInv', NEW r \in Requests, NextP(r)
  PROVE  StockIsCounted'
<1>1. CASE UNCHANGED <<variant, book, stale>>
  BY <1>1, StockAside
<1>2. CASE SavesVariants(r) /\ ~UNCHANGED <<variant, book, stale>>
  <2> DEFINE q == req[r]
  <2>1. q \in Saving
    BY <1>2, SaveIs DEF SavesVariants, NextIs, Running
  <2>2. /\ variant' = [v \in Vs |-> Synced(q, v)]
        /\ book' = [v \in Vs |-> CASE v \in q.new     -> {q.first}
                                   [] v \in q.counted -> q.shown[v]
                                   [] OTHER           -> book[v]]
        /\ stale' = (stale \ Counted(q)) \cup SoldSince(q)
    BY <1>2 DEF SavesVariants
  <2> SUFFICES ASSUME NEW v \in Vs \ stale', IsLive(v)'
               PROVE  variant'[v].stock = book'[v]
    BY DEF StockIsCounted
  <2>3. v \notin SoldSince(q) /\ (v \in stale => v \in Counted(q)) /\ variant'[v] = Synced(q, v)
    BY <2>2
  <2>4. q.counted \subseteq DOMAIN q.shown /\ q.new \cap DOMAIN q.shown = {}
    BY <2>1 DEF Saving
  <2>5. CASE v \in DOMAIN q.shown /\ IsLive(v)
    <3>1. Synced(q, v) = Live(q.shown[v])
      BY <2>4, <2>5 DEF Synced
    <3>4. variant'[v].stock = q.shown[v]
      BY <2>3, <3>1, LiveIs
    <3>2. v \notin q.new
      BY <2>4, <2>5
    <3>3. v \in q.counted \/ q.shown[v] = book[v]
      BY <2>3, <2>5 DEF SoldSince
    <3> QED
      BY <2>2, <3>2, <3>3, <3>4
  <2>6. CASE ~(v \in DOMAIN q.shown /\ IsLive(v)) /\ v \in q.new
    <3>1. variant'[v].stock = {q.first}
      BY <2>3, <2>6, LiveIs DEF Synced
    <3>2. book'[v] = {q.first}
      BY <2>2, <2>4, <2>6
    <3> QED
      BY <3>1, <3>2
  <2>7. CASE ~(v \in DOMAIN q.shown /\ IsLive(v)) /\ v \notin q.new
    <3>1. variant'[v] = IF OwnerOf[v] = q.p /\ IsLive(v) THEN Gone ELSE variant[v]
      BY <2>3, <2>7 DEF Synced
    <3>2. variant'[v] = variant[v]
      BY <3>1, LiveIs DEF IsLive
    <3>3. IsLive(v) /\ v \notin q.counted
      BY <2>4, <2>7, <3>2 DEF IsLive
    <3>4. v \notin stale /\ book'[v] = book[v]
      BY <2>2, <2>3, <2>7, <3>3 DEF Counted
    <3> QED
      BY <3>2, <3>3, <3>4 DEF StockIsCounted
  <2> QED
    BY <2>5, <2>6, <2>7
<1>3. ASSUME NEW p \in Ps, NEW p2 \in Ps, Duplicates(r, p, p2)
      PROVE  StockIsCounted'
  <2>1. stale' = stale
    BY <1>3 DEF Duplicates
  <2> QED
    BY <1>3, <2>1, DuplicatesMoves, StockAside
<1>4. ASSUME NEW p \in Ps, Deletes(r, p) \/ AddsVariant(r, p)
      PROVE  StockIsCounted'
  <2>1. CASE Deletes(r, p)
    BY <2>1, LiveIs, StockAside DEF Deletes, histP, ShopTypeInv, ProductsTyped, IsLive
  <2>2. CASE AddsVariant(r, p)
    <3>1. PICK v \in Unused(p), n \in Counts : variant' = [variant EXCEPT ![v] = Live({n})] /\ book' = [book EXCEPT ![v] = {n}]
      BY <2>2 DEF AddsVariant
    <3>2. \A w \in Vs : (variant'[w] = variant[w] /\ book'[w] = book[w]) \/ book'[w] = variant'[w].stock
      BY <3>1, LiveIs DEF ShopTypeInv, ProductsTyped
    <3> QED
      BY <2>2, <3>2, StockAside DEF AddsVariant
  <2> QED
    BY <1>4, <2>1, <2>2
<1>5. ASSUME NEW v \in Vs, DeletesVariant(r, v)
      PROVE  StockIsCounted'
  BY <1>5, LiveIs, StockAside DEF DeletesVariant, histP, ShopTypeInv, ProductsTyped, IsLive
<1>6. ASSUME NEW v \in Vs, Sold(r, v)
      PROVE  StockIsCounted'
  <2>1. /\ IsLive(v) /\ stale' = stale /\ variant' = [variant EXCEPT ![v] = Live({n - 1 : n \in variant[v].stock})]
        /\ book' = [book EXCEPT ![v] = {n - 1 : n \in book[v]}]
    BY <1>6 DEF Sold, Sells, ShopTypeInv, ProductsTyped
  <2>2. variant'[v].stock = {n - 1 : n \in variant[v].stock} /\ book'[v] = {n - 1 : n \in book[v]}
        /\ \A w \in Vs \ {v} : variant'[w] = variant[w] /\ book'[w] = book[w]
    BY <2>1, LiveIs DEF ShopTypeInv, ProductsTyped
  <2> QED
    BY <2>1, <2>2 DEF StockIsCounted, IsLive
<1>7. ASSUME NEW v \in Vs, NEW n \in Counts, SetsStock(r, v, n)
      PROVE  StockIsCounted'
  <2>1. variant' = [variant EXCEPT ![v] = Live({n})] /\ book' = [book EXCEPT ![v] = {n}] /\ stale' = stale \ {v}
    BY <1>7 DEF SetsStock
  <2>2. \A w \in Vs \ {v} : variant'[w] = variant[w] /\ book'[w] = book[w]
    BY <2>1 DEF ShopTypeInv, ProductsTyped
  <2>3. variant'[v].stock = book'[v]
    BY <2>1, LiveIs DEF ShopTypeInv, ProductsTyped
  <2> QED
    BY <2>1, <2>2, <2>3 DEF StockIsCounted, IsLive
<1> QED
  BY <1>1, <1>2, <1>3, <1>4, <1>5, <1>6, <1>7
  DEF NextP, Opens, Creates, SavesRow, FreesLinks, Attaches, ChecksBundles, ClearsPart, CreatesPart, SaveDies, SetsStatus,
      varsP, histP, rowsP

\* A save that has written the row of its product.
PastRow(q) == q.op = "save" /\ Head(q.todo) # "row"
Sound(p) == p \in Existing /\ p \notin died /\ p \notin overlap
PartsInv ==
  /\ \A p \in Ps : product[p] = "none" => \A x \in PartNames : part[p][x] = 0
  /\ \A r \in Requests : req[r].op = "save" => product[req[r].p] # "none"
  /\ \A r, s \in Requests : r # s /\ PastRow(req[r]) /\ PastRow(req[s]) /\ req[r].p = req[s].p => req[r].p \in overlap
  /\ \A r \in Requests, p \in Ps : PastRow(req[r]) /\ req[r].p = p /\ Sound(p) =>
       \A x \in PartNames : part[p][x] = IF x \in Missing(req[r].todo, req[r].parts) THEN 0 ELSE 1
  /\ \A p \in Ps : Sound(p) => \/ \E r \in Requests : PastRow(req[r]) /\ req[r].p = p
                               \/ \A x \in PartNames : part[p][x] = 1

LEMMA PartsEnough == PartsInv => PartsAreWhole
BY PartNamesAre DEF PartsInv, PartsAreWhole, Sound, PastRow, Running, Existing

\* A step that leaves the parts of what remains, and every save, alone.
LEMMA PartsAside ==
  ASSUME PartsInv, ShopTypeInv, NEW r \in Requests,
         \A s \in Requests \ {r} : req'[s] = req[s],
         req[r].op # "save", req'[r].op # "save" \/ (Head(req'[r].todo) = "row" /\ product'[req'[r].p] # "none"),
         \A p \in Ps : IF product[p] = "none" THEN part'[p] = part[p] ELSE product'[p] # "none",
         \A p \in Ps : p \in Existing' => p \in Existing /\ part'[p] = part[p],
         died' = died, overlap' = overlap
  PROVE  PartsInv'
<1>1. \A p \in Ps : Sound(p)' => Sound(p) /\ part'[p] = part[p]
  BY DEF Sound
<1>2. \A s \in Requests : /\ PastRow(req'[s]) <=> PastRow(req[s])
                          /\ PastRow(req[s]) => req'[s] = req[s] /\ s # r
                          /\ req'[s].op = "save" => (req'[s] = req[s]) \/ s = r
  BY DEF PastRow
<1>3. \A s \in Requests : req'[s].op = "save" /\ s # r => req'[s].p \in Ps
  BY SaveIs DEF Saving
<1>4. \A s \in Requests : req'[s].op = "save" => product'[req'[s].p] # "none"
  <2> TAKE s \in Requests
  <2> HAVE req'[s].op = "save"
  <2>1. CASE s # r
    BY <1>3, <2>1 DEF PartsInv
  <2>2. CASE s = r
    BY <2>2
  <2> QED
    BY <2>1, <2>2
<1>5. \A s, t \in Requests : s # t /\ PastRow(req'[s]) /\ PastRow(req'[t]) /\ req'[s].p = req'[t].p => req'[s].p \in overlap'
  BY <1>2 DEF PartsInv
<1>6. \A s \in Requests, p \in Ps : PastRow(req'[s]) /\ req'[s].p = p /\ Sound(p)' =>
        \A x \in PartNames : part'[p][x] = IF x \in Missing(req'[s].todo, req'[s].parts) THEN 0 ELSE 1
  BY <1>1, <1>2 DEF PartsInv
<1>7. \A p \in Ps : Sound(p)' => \/ \E s \in Requests : PastRow(req'[s]) /\ req'[s].p = p
                                 \/ \A x \in PartNames : part'[p][x] = 1
  BY <1>1, <1>2 DEF PartsInv
<1>8. \A p \in Ps : product'[p] = "none" => \A x \in PartNames : part'[p][x] = 0
  BY DEF PartsInv
<1> QED
  BY <1>4, <1>5, <1>6, <1>7, <1>8 DEF PartsInv, PastRow

\* A product is created: nothing was saved of it before.
LEMMA PartsBorn ==
  ASSUME PartsInv, ShopTypeInv, NEW r \in Requests, req[r].op # "save", NEW p \in Ps, product[p] = "none",
         \A s \in Requests \ {r} : req'[s] = req[s],
         req'[r].op = "save" => req'[r].p = p /\ PastRow(req'[r]),
         product'[p] = "DRAFT", \A x \in Ps \ {p} : product'[x] = product[x] /\ part'[x] = part[x],
         died \subseteq died', overlap' = overlap,
         p \notin died' => \A x \in PartNames :
           part'[p][x] = IF req'[r].op = "save" /\ x \in Missing(req'[r].todo, req'[r].parts) THEN 0 ELSE 1
  PROVE  PartsInv'
<1>1. \A s \in Requests \ {r} : req[s].op = "save" => req[s].p # p /\ req[s].p \in Ps
  BY SaveIs DEF PartsInv, Saving
<1>2. \A x \in Ps \ {p} : Sound(x)' => Sound(x)
  BY DEF Sound, Existing
<1>3. \A s \in Requests : req'[s].op = "save" => product'[req'[s].p] # "none"
  BY <1>1 DEF PartsInv
<1>4. \A s, t \in Requests : s # t /\ PastRow(req'[s]) /\ PastRow(req'[t]) /\ req'[s].p = req'[t].p => req'[s].p \in overlap'
  BY <1>1 DEF PartsInv, PastRow
<1>5. \A s \in Requests, y \in Ps : PastRow(req'[s]) /\ req'[s].p = y /\ Sound(y)' =>
        \A x \in PartNames : part'[y][x] = IF x \in Missing(req'[s].todo, req'[s].parts) THEN 0 ELSE 1
  <2> SUFFICES ASSUME NEW s \in Requests, NEW y \in Ps, PastRow(req'[s]), req'[s].p = y, Sound(y)'
               PROVE  \A x \in PartNames : part'[y][x] = IF x \in Missing(req'[s].todo, req'[s].parts) THEN 0 ELSE 1
    OBVIOUS
  <2>1. CASE s = r
    BY <2>1 DEF PastRow, Sound
  <2>2. CASE s # r
    BY <1>1, <1>2, <2>2 DEF PartsInv, PastRow
  <2> QED
    BY <2>1, <2>2
<1>6. \A y \in Ps : Sound(y)' => \/ \E s \in Requests : PastRow(req'[s]) /\ req'[s].p = y
                                 \/ \A x \in PartNames : part'[y][x] = 1
  <2> SUFFICES ASSUME NEW y \in Ps, Sound(y)', ~\E s \in Requests : PastRow(req'[s]) /\ req'[s].p = y
               PROVE  \A x \in PartNames : part'[y][x] = 1
    OBVIOUS
  <2>1. CASE y = p
    <3>1. req'[r].op # "save"
      BY <2>1
    <3> QED
      BY <2>1, <3>1 DEF Sound
  <2>2. CASE y # p
    <3>1. \A s \in Requests : ~(PastRow(req[s]) /\ req[s].p = y)
      BY DEF PastRow
    <3> QED
      BY <1>2, <2>2, <3>1 DEF PartsInv
  <2> QED
    BY <2>1, <2>2
<1>7. \A x \in Ps : product'[x] = "none" => \A y \in PartNames : part'[x][y] = 0
  BY DEF PartsInv
<1> QED
  BY <1>3, <1>4, <1>5, <1>6, <1>7 DEF PartsInv, PastRow

LEMMA CreateIsPastRow ==
  ASSUME NEW t, NEW ps, <<t, ps>> \in Plans, Head(t) = "create", Len(t) # 1
  PROVE  Head(Tail(t)) # "row"
<1>1. CASE t \in Editings
  BY <1>1 DEF Editings
<1>2. CASE t \in {<<"create", "clear", "create">>, <<"create", "create", "link", "bundles", "sync">>,
                  <<"create", "link", "bundles", "sync">>}
  BY <1>2
<1>3. \/ t \in Editings
      \/ t \in {<<"clear", "create", "clear", "create">>, <<"create", "clear", "create">>,
                <<"create", "create", "link", "bundles", "sync">>}
      \/ t \in {<<"clear", "create">>, <<"create">>, <<"create", "link", "bundles", "sync">>}
      \/ t \in {<<"link", "bundles", "sync">>, <<"bundles", "sync">>, <<"sync">>}
  BY DEF Plans
<1>4. \A x \in {<<"clear", "create", "clear", "create">>, <<"clear", "create">>, <<"link", "bundles", "sync">>,
                <<"bundles", "sync">>, <<"sync">>} : Head(x) # "create"
  OBVIOUS
<1>5. CASE t = <<"create">>
  BY <1>5
<1> QED
  BY <1>1, <1>2, <1>3, <1>4, <1>5, Zenon

\* A statement of a save: what the product is then.
LEMMA SaveStep ==
  ASSUME PartsInv, ShopTypeInv, NEW r \in Requests, req[r].op = "save", NEW p \in Ps, p = req[r].p,
         \A s \in Requests \ {r} : req'[s] = req[s],
         req'[r].op = "save" => req'[r].p = p,
         product' = product, \A x \in Ps \ {p} : part'[x] = part[x],
         died \subseteq died', overlap \subseteq overlap',
         ~PastRow(req[r]) => \A s \in Requests \ {r} : PastRow(req[s]) /\ req[s].p = p => p \in overlap',
         Sound(p)' /\ PastRow(req'[r]) =>
           \A x \in PartNames : part'[p][x] = IF x \in Missing(req'[r].todo, req'[r].parts) THEN 0 ELSE 1,
         Sound(p)' => \A x \in PartNames : part'[p][x] = IF PastRow(req'[r]) /\ x \in Missing(req'[r].todo, req'[r].parts) THEN 0 ELSE 1
  PROVE  PartsInv'
<1>1. \A x \in Ps : Sound(x)' => Sound(x)
  BY DEF Sound, Existing
<1>2. \A s \in Requests \ {r} : PastRow(req'[s]) /\ req'[s].p = p => p \in overlap'
  BY DEF PartsInv
<1>3. \A s \in Requests : req'[s].op = "save" => product'[req'[s].p] # "none"
  BY DEF PartsInv
<1>4. \A s, t \in Requests : s # t /\ PastRow(req'[s]) /\ PastRow(req'[t]) /\ req'[s].p = req'[t].p => req'[s].p \in overlap'
  <2> SUFFICES ASSUME NEW s \in Requests, NEW t \in Requests, s # t, PastRow(req'[s]), PastRow(req'[t]), req'[s].p = req'[t].p
               PROVE  req'[s].p \in overlap'
    OBVIOUS
  <2>1. CASE s # r /\ t # r
    BY <2>1 DEF PartsInv
  <2>2. CASE s = r
    BY <1>2, <2>2 DEF PastRow
  <2>3. CASE t = r
    BY <1>2, <2>3 DEF PastRow
  <2> QED
    BY <2>1, <2>2, <2>3
<1>5. \A s \in Requests, y \in Ps : PastRow(req'[s]) /\ req'[s].p = y /\ Sound(y)' =>
        \A x \in PartNames : part'[y][x] = IF x \in Missing(req'[s].todo, req'[s].parts) THEN 0 ELSE 1
  <2> SUFFICES ASSUME NEW s \in Requests, NEW y \in Ps, PastRow(req'[s]), req'[s].p = y, Sound(y)'
               PROVE  \A x \in PartNames : part'[y][x] = IF x \in Missing(req'[s].todo, req'[s].parts) THEN 0 ELSE 1
    OBVIOUS
  <2>1. CASE s = r
    BY <2>1 DEF PastRow
  <2>2. CASE s # r
    <3>1. y # p
      BY <1>2, <2>2 DEF Sound
    <3> QED
      BY <1>1, <2>2, <3>1 DEF PartsInv
  <2> QED
    BY <2>1, <2>2
<1>6. \A y \in Ps : Sound(y)' => \/ \E s \in Requests : PastRow(req'[s]) /\ req'[s].p = y
                                 \/ \A x \in PartNames : part'[y][x] = 1
  <2> SUFFICES ASSUME NEW y \in Ps, Sound(y)', ~\E s \in Requests : PastRow(req'[s]) /\ req'[s].p = y
               PROVE  \A x \in PartNames : part'[y][x] = 1
    OBVIOUS
  <2>1. CASE y = p
    <3>1. ~PastRow(req'[r])
      BY <2>1 DEF PastRow
    <3> QED
      BY <2>1, <3>1
  <2>2. CASE y # p
    <3>1. \A s \in Requests : ~(PastRow(req[s]) /\ req[s].p = y)
      BY <2>2
    <3> QED
      BY <1>1, <2>2, <3>1 DEF PartsInv
  <2> QED
    BY <2>1, <2>2
<1>7. \A x \in Ps : product'[x] = "none" => \A y \in PartNames : part'[x][y] = 0
  BY DEF PartsInv
<1> QED
  BY <1>3, <1>4, <1>5, <1>6, <1>7 DEF PartsInv, PastRow

\* A save goes on, or ends because its product is gone or nothing is missing.
LEMMA PartsGoOn ==
  ASSUME PartsInv, ShopTypeInv, NEW r \in Requests, NEW step \in {"sync", "unlink", "link", "bundles"}, NextIs(r, step),
         GoesOn(r) \/ Ends(r), product' = product, part' = part, died' = died, overlap' = overlap
  PROVE  PartsInv'
<1> DEFINE q == req[r]
<1>1. q \in Saving /\ Head(q.todo) = step /\ q.op = "save"
  BY SaveIs DEF NextIs, Running
<1>2. PlanGoesOn(q.todo, q.parts) /\ q.p \in Ps
  BY <1>1, PlanMoves DEF Saving
<1>3. Missing(q.todo, q.parts) = {}
  BY <1>1, <1>2 DEF PlanGoesOn
<1>4. PastRow(q)
  BY <1>1 DEF PastRow
<1>5. \A s \in Requests \ {r} : req'[s] = req[s]
  BY DEF GoesOn, Ends, Done, ShopTypeInv
<1> PICK p \in Ps : p = q.p
  BY <1>2
<1>6. \/ req'[r] = Over
      \/ req'[r].op = "save" /\ req'[r].p = p /\ Missing(req'[r].todo, req'[r].parts) = {}
  <2>1. CASE Ends(r)
    BY <2>1 DEF Ends, Done, ShopTypeInv
  <2>2. CASE GoesOn(r)
    <3>1. req'[r] = Rest(q)
      BY <2>2 DEF GoesOn, ShopTypeInv
    <3>2. CASE Len(q.todo) = 1
      BY <1>1, <3>1, <3>2, RestIs
    <3>3. CASE Len(q.todo) # 1
      <4>1. Missing(Tail(q.todo), q.parts) = {}
        BY <1>1, <1>2, <3>3 DEF PlanGoesOn
      <4>2. Rest(q) \in Saving /\ Rest(q).todo = Tail(q.todo) /\ Rest(q)["p"] = q["p"] /\ Rest(q)["parts"] = q["parts"]
        BY <1>1, <3>3, RestIs
      <4> QED
        BY <3>1, <4>1, <4>2 DEF Saving
    <3> QED
      BY <3>2, <3>3
  <2> QED
    BY <2>1, <2>2
<1>7. Sound(p)' => \A x \in PartNames : part'[p][x] = 1
  BY <1>3, <1>4 DEF PartsInv, Sound, Existing
<1>8. req'[r].op = "save" => req'[r].p = p /\ Missing(req'[r].todo, req'[r].parts) = {}
  BY <1>6 DEF Over
<1>9. q.op = "save" /\ p = q.p
  BY <1>1
<1> QED
  BY <1>4, <1>5, <1>7, <1>8, <1>9, SaveStep DEF PastRow

LEMMA PartsCleared ==
  ASSUME PartsInv, ShopTypeInv, NEW r \in Requests, ClearsPart(r)
  PROVE  PartsInv'
<1> DEFINE q == req[r]
           x == Head(q.parts)
<1>1. q \in Saving /\ Head(q.todo) = "clear" /\ q.op = "save" /\ PastRow(q) /\ <<q.todo, q.parts>> \in Plans
  BY SaveIs DEF ClearsPart, NextIs, Running, PastRow, Saving
<1>2. /\ Len(q.todo) # 1 /\ x \in PartNames /\ Missing(q.todo, q.parts) = {}
      /\ Missing(Tail(q.todo), q.parts) = {x}
  BY <1>1, PlanMoves DEF PlanGoesOn
<1> PICK p \in Ps : p = q.p
  BY <1>1 DEF Saving
<1>3. /\ Rest(q) \in Saving /\ Rest(q).todo = Tail(q.todo) /\ Rest(q)["p"] = q["p"] /\ Rest(q)["parts"] = q["parts"]
  BY <1>1, <1>2, RestIs
<1>4. req'[r] = Rest(q) /\ \A s \in Requests \ {r} : req'[s] = req[s]
  BY DEF ClearsPart, GoesOn, ShopTypeInv
<1>5. req'[r].p = p /\ Missing(req'[r].todo, req'[r].parts) = {x}
  BY <1>2, <1>3, <1>4
<1>6. product' = product /\ died' = died /\ overlap' = overlap /\ part' = [part EXCEPT ![p][x] = 0]
  BY DEF ClearsPart, histP
<1>7. /\ \A y \in Ps \ {p} : part'[y] = part[y]
      /\ part'[p][x] = 0 /\ \A y \in PartNames \ {x} : part'[p][y] = part[p][y]
  BY <1>2, <1>6 DEF ShopTypeInv, ProductsTyped
<1>8. Sound(p)' => \A y \in PartNames : part[p][y] = 1
  BY <1>1, <1>2, <1>6 DEF PartsInv, Sound, Existing
<1>9. Head(req'[r].todo) = "create" /\ PastRow(req'[r])
  <2>1. Head(req'[r].todo) = "create"
    BY <1>5 DEF Missing
  <2>2. req'[r].op = "save"
    BY <1>3, <1>4 DEF Saving
  <2> QED
    BY <2>1, <2>2 DEF PastRow
<1>10. Sound(p)' => \A y \in PartNames : part'[p][y] = IF y \in Missing(req'[r].todo, req'[r].parts) THEN 0 ELSE 1
  BY <1>5, <1>7, <1>8
<1>11. q.op = "save" /\ p = q.p
  BY <1>1
<1> HIDE DEF q, x
<1> QED
  BY <1>1, <1>4, <1>5, <1>6, <1>7, <1>9, <1>10, <1>11, SaveStep DEF q

LEMMA PartsCreated ==
  ASSUME PartsInv, ShopTypeInv, NEW r \in Requests, CreatesPart(r)
  PROVE  PartsInv'
<1> DEFINE q == req[r]
           x == Head(q.parts)
<1>1. q \in Saving /\ Head(q.todo) = "create" /\ q.op = "save" /\ PastRow(q) /\ <<q.todo, q.parts>> \in Plans
  BY SaveIs DEF CreatesPart, NextIs, Running, PastRow, Saving
<1>2. /\ x \in PartNames /\ x \in Missing(q.todo, q.parts)
      /\ Len(q.todo) # 1 => Missing(Tail(q.todo), Tail(q.parts)) = Missing(q.todo, q.parts) \ {x}
      /\ Len(q.todo) = 1 => Missing(q.todo, q.parts) = {x}
  BY <1>1, PlanMoves DEF PlanGoesOn
<1> PICK p \in Ps : p = q.p
  BY <1>1 DEF Saving
<1>3. product' = product /\ died' = died /\ overlap' = overlap
  BY DEF CreatesPart, histP
<1>4. Sound(p)' => Sound(p) /\ \A y \in PartNames : part[p][y] = IF y \in Missing(q.todo, q.parts) THEN 0 ELSE 1
  BY <1>1, <1>3 DEF PartsInv, Sound, Existing
<1>5. \A s \in Requests \ {r} : req'[s] = req[s]
  BY CreatesPartMoves, MovesTyped
<1>6. q.op = "save" /\ p = q.p
  BY <1>1
<1>7. CASE p \notin Existing \/ (Unique(x) /\ part[p][x] > 0)
  <2>1. Ends(r) /\ part' = part
    BY <1>7 DEF CreatesPart
  <2>2. req'[r].op # "save" /\ ~PastRow(req'[r])
    BY <2>1 DEF Ends, Done, ShopTypeInv, Over, PastRow
  <2>3. ~Sound(p)'
    <3>1. part[p][x] > 0 => part[p][x] # 0
      OBVIOUS
    <3> QED
      BY <1>2, <1>4, <1>7, <3>1 DEF Sound
  <2> HIDE DEF q, x
  <2> QED
    BY <1>1, <1>3, <1>5, <1>6, <2>1, <2>2, <2>3, SaveStep DEF q
<1>8. CASE ~(p \notin Existing \/ (Unique(x) /\ part[p][x] > 0))
  <2>1. part' = [part EXCEPT ![p][x] = @ + 1] /\ req' = [req EXCEPT ![r] = Rest([q EXCEPT !.parts = Tail(@)])]
    BY <1>8 DEF CreatesPart
  <2>2. /\ \A y \in Ps \ {p} : part'[y] = part[y]
        /\ part'[p][x] = part[p][x] + 1 /\ \A y \in PartNames \ {x} : part'[p][y] = part[p][y]
    BY <1>2, <2>1 DEF ShopTypeInv, ProductsTyped
  <2>3. Sound(p)' => \A y \in PartNames : part'[p][y] = IF y \in Missing(q.todo, q.parts) \ {x} THEN 0 ELSE 1
    BY <1>2, <1>4, <2>2
  <2>4. \/ req'[r] = Over /\ Missing(q.todo, q.parts) = {x}
        \/ /\ req'[r].p = p /\ req'[r].op = "save" /\ PastRow(req'[r])
           /\ Missing(req'[r].todo, req'[r].parts) = Missing(q.todo, q.parts) \ {x}
    <3>1. CASE Len(q.todo) = 1
      <4>1. req'[r] = Over
        BY <2>1, <3>1 DEF Rest, ShopTypeInv
      <4> QED
        BY <1>2, <3>1, <4>1
    <3>2. CASE Len(q.todo) # 1
      <4>1. req'[r] = [[q EXCEPT !.parts = Tail(@)] EXCEPT !.todo = Tail(@)]
        BY <2>1, <3>2 DEF Rest, ShopTypeInv
      <4>2. req'[r].todo = Tail(q.todo) /\ req'[r].parts = Tail(q.parts) /\ req'[r].op = "save" /\ req'[r].p = p
        BY <1>1, <4>1 DEF Saving
      <4>3. Head(Tail(q.todo)) # "row"
        BY <1>1, <3>2, CreateIsPastRow
      <4> QED
        BY <1>2, <3>2, <4>2, <4>3 DEF PastRow
    <3> QED
      BY <3>1, <3>2
  <2>5. req'[r].op = "save" => req'[r].p = p
    BY <2>4 DEF Over
  <2>6. /\ PastRow(req'[r]) => Missing(req'[r].todo, req'[r].parts) = Missing(q.todo, q.parts) \ {x}
        /\ ~PastRow(req'[r]) => Missing(q.todo, q.parts) \ {x} = {}
    BY <2>4 DEF PastRow, Over
  <2>7. Sound(p)' => \A y \in PartNames :
          part'[p][y] = IF PastRow(req'[r]) /\ y \in Missing(req'[r].todo, req'[r].parts) THEN 0 ELSE 1
    BY <2>3, <2>6
  <2> HIDE DEF q, x
  <2> QED
    BY <1>1, <1>3, <1>5, <1>6, <2>2, <2>5, <2>7, SaveStep DEF q
<1> QED
  BY <1>7, <1>8

LEMMA PartsSelling ==
  ASSUME PartsInv, ShopTypeInv, ShopTypeInv', NEW r \in Requests, NextP(r)
  PROVE  PartsInv'
<1> DEFINE q == req[r]
<1>0. /\ \A s \in Requests \ {r} : req'[s] = req[s]
      /\ Ends(r) => req'[r] = Over /\ req'[r].op # "save" /\ ~PastRow(req'[r])
      /\ Arrives(r) => req[r].op # "save"
  <2>1. \A s \in Requests \ {r} : req'[s] = req[s]
    BY SellingMoves, MovesTyped
  <2>2. Ends(r) => req'[r] = Over
    BY DEF Ends, Done, ShopTypeInv
  <2> QED
    BY <2>1, <2>2 DEF Over, Arrives, Idle, PastRow
<1>1. ASSUME NEW p \in Ps, Opens(r, p)
      PROVE  PartsInv'
  <2>1. PICK x \in Saving : req' = [req EXCEPT ![r] = x] /\ req[r] = Idle /\ x.op = "save" /\ x.p = p /\ Head(x.todo) = "row"
    BY <1>1, OpensMoves
  <2>2. req'[r] = x /\ UNCHANGED varsP /\ p \in Existing /\ req[r].op # "save"
    BY <1>1, <2>1, OpensMoves DEF ShopTypeInv, Idle
  <2> QED
    BY <1>0, <2>1, <2>2, PartsAside DEF varsP, Existing
<1>2. ASSUME NEW p \in Ps, Creates(r, p)
      PROVE  PartsInv'
  <2>1. PICK n \in Saving : /\ req' = [req EXCEPT ![r] = n] /\ req[r] = Idle /\ n.op = "save" /\ n.p = p
                            /\ n.todo = <<"create", "create", "link", "bundles", "sync">> /\ n.parts = Twice
    BY <1>2, CreatesMoves
  <2>2. /\ req'[r] = n /\ product[p] = "none" /\ product' = [product EXCEPT ![p] = "DRAFT"]
        /\ part' = [part EXCEPT ![p]["translations"] = 1] /\ died' = died /\ overlap' = overlap /\ req[r].op # "save"
    BY <1>2, <2>1 DEF Creates, ShopTypeInv, Idle, histP
  <2>3. Missing(n.todo, n.parts) = {"attributes", "tags"} /\ PastRow(n)
    <3>1. Head(n.todo) = "create" /\ n.todo[Len(n.todo)] = "sync"
      BY <2>1
    <3>2. {Twice[i] : i \in 1 .. Len(Twice)} = {"attributes", "tags"}
      BY DEF Twice
    <3> QED
      BY <2>1, <3>1, <3>2 DEF Missing, PastRow
  <2>4. \A x \in PartNames : part'[p][x] = IF x \in {"attributes", "tags"} THEN 0 ELSE 1
    <3>1. part[p] \in [PartNames -> Nat] /\ (\A x \in PartNames : part[p][x] = 0)
      BY <2>2 DEF PartsInv, ShopTypeInv, ProductsTyped
    <3>2. part'[p] = [part[p] EXCEPT !["translations"] = 1]
      BY <2>2 DEF ShopTypeInv, ProductsTyped
    <3> QED
      BY <3>1, <3>2 DEF PartNames
  <2>5. \A x \in Ps \ {p} : product'[x] = product[x] /\ part'[x] = part[x]
    BY <2>2 DEF ShopTypeInv, ProductsTyped
  <2>6. product'[p] = "DRAFT"
    BY <2>2 DEF ShopTypeInv, ProductsTyped
  <2> QED
    BY <1>0, <2>1, <2>2, <2>3, <2>4, <2>5, <2>6, PartsBorn
<1>3. ASSUME NEW p \in Ps, NEW p2 \in Ps, Duplicates(r, p, p2)
      PROVE  PartsInv'
  <2>1. /\ Arrives(r) /\ Ends(r) /\ product[p2] = "none" /\ product' = [product EXCEPT ![p2] = "DRAFT"]
        /\ part' = [part EXCEPT ![p2] = part[p]] /\ overlap' = overlap
        /\ died' = IF \A x \in PartNames : part[p][x] = 1 THEN died ELSE died \cup {p2}
    BY <1>3, PartNamesAre DEF Duplicates
  <2>2. /\ product'[p2] = "DRAFT" /\ \A x \in Ps \ {p2} : product'[x] = product[x] /\ part'[x] = part[x]
        /\ part'[p2] = part[p]
    BY <2>1 DEF ShopTypeInv, ProductsTyped
  <2> QED
    BY <1>0, <2>1, <2>2, PartsBorn
<1>4. CASE SavesRow(r)
  <2>1. /\ q.op = "save" /\ q \in Saving /\ Head(q.todo) = "row" /\ ~PastRow(q) /\ PlanGoesOn(q.todo, q.parts)
        /\ UNCHANGED <<rowsP, died>>
    BY <1>4, SaveIs, PlanMoves DEF SavesRow, NextIs, Running, PastRow, Saving
  <2> PICK p \in Ps : p = q.p
    BY <2>1 DEF Saving
  <2>2. /\ IF p \in Existing THEN GoesOn(r) ELSE Ends(r)
        /\ overlap' = IF \E s \in Running("save") \ {r} : req[s].p = p /\ Head(req[s].todo) # "row"
                      THEN overlap \cup {p} ELSE overlap
    BY <1>4 DEF SavesRow
  <2>3. \A s \in Requests \ {r} : PastRow(req[s]) /\ req[s].p = p => p \in overlap'
    BY <2>2 DEF PastRow, Running
  <2>4. Sound(p)' => Sound(p) /\ \A x \in PartNames : part[p][x] = 1
    <3>1. Sound(p)' => Sound(p) /\ p \notin overlap'
      BY <2>1, <2>2 DEF Sound, Existing, rowsP
    <3>2. Sound(p)' => ~\E s \in Requests : PastRow(req[s]) /\ req[s].p = p
      BY <2>1, <2>3, <3>1
    <3> QED
      BY <3>1, <3>2 DEF PartsInv
  <2>5. req'[r].op = "save" => req'[r].p = p /\ Missing(req'[r].todo, req'[r].parts) = {}
    <3>1. CASE Ends(r)
      BY <1>0, <3>1
    <3>2. CASE GoesOn(r)
      <4>1. req'[r] = Rest(q)
        BY <3>2 DEF GoesOn, ShopTypeInv
      <4>2. CASE Len(q.todo) = 1
        BY <2>1, <4>1, <4>2, RestIs DEF Over
      <4>3. CASE Len(q.todo) # 1
        <5>1. Missing(Tail(q.todo), q.parts) = {}
          BY <2>1, <4>3 DEF PlanGoesOn
        <5>2. Rest(q) \in Saving /\ Rest(q).todo = Tail(q.todo) /\ Rest(q)["p"] = q["p"] /\ Rest(q)["parts"] = q["parts"]
          BY <2>1, <4>3, RestIs
        <5> QED
          BY <4>1, <5>1, <5>2
      <4> QED
        BY <4>2, <4>3
    <3> QED
      BY <2>2, <3>1, <3>2
  <2>6. part' = part /\ product' = product /\ died' = died /\ overlap \subseteq overlap'
    BY <2>1, <2>2 DEF rowsP
  <2>7. q.op = "save" /\ p = q.p
    BY <2>1
  <2> HIDE DEF q
  <2> QED
    BY <1>0, <2>3, <2>4, <2>5, <2>6, <2>7, SaveStep DEF PastRow, q
<1>5. CASE SavesVariants(r) \/ FreesLinks(r) \/ Attaches(r) \/ ChecksBundles(r)
  <2>1. product' = product /\ part' = part /\ died' = died /\ overlap' = overlap
    BY <1>5 DEF SavesVariants, FreesLinks, Attaches, ChecksBundles, histP, varsP
  <2> QED
    BY <1>5, <2>1, PartsGoOn DEF SavesVariants, FreesLinks, Attaches, ChecksBundles
<1>6. CASE ClearsPart(r) \/ CreatesPart(r)
  BY <1>6, PartsCleared, PartsCreated
<1>7. CASE SaveDies(r)
  <2>1. q.op = "save" /\ q \in Saving /\ PastRow(q) /\ Ends(r) /\ died' = died \cup {q.p} /\ UNCHANGED <<rowsP, overlap>>
    BY <1>7, SaveIs DEF SaveDies, Running, PastRow
  <2> PICK p \in Ps : p = q.p
    BY <2>1 DEF Saving
  <2>2. ~Sound(p)' /\ died \subseteq died'
    BY <2>1 DEF Sound
  <2>3. q.op = "save" /\ p = q.p /\ product' = product /\ part' = part /\ overlap' = overlap
    BY <2>1 DEF rowsP
  <2> QED
    BY <1>0, <2>1, <2>2, <2>3, SaveStep
<1>8. CASE \E p \in Ps : SetsStatus(r, p) \/ Deletes(r, p) \/ AddsVariant(r, p)
  <2> PICK p \in Ps : SetsStatus(r, p) \/ Deletes(r, p) \/ AddsVariant(r, p)
    BY <1>8
  <2>1. Arrives(r) /\ Ends(r) /\ died' = died /\ overlap' = overlap /\ p \in Existing
    BY DEF SetsStatus, Deletes, AddsVariant, histP
  <2>2. \A x \in Ps : IF product[x] = "none" THEN part'[x] = part[x] ELSE product'[x] # "none"
    BY <2>1 DEF SetsStatus, Deletes, AddsVariant, ShopTypeInv, ProductsTyped, Existing
  <2>3. \A x \in Ps : x \in Existing' => x \in Existing /\ part'[x] = part[x]
    BY <2>1 DEF SetsStatus, Deletes, AddsVariant, ShopTypeInv, ProductsTyped, Existing
  <2> QED
    BY <1>0, <2>1, <2>2, <2>3, PartsAside
<1>9. CASE \E v \in Vs : DeletesVariant(r, v) \/ Sold(r, v) \/ \E n \in Counts : SetsStock(r, v, n)
  <2>1. Arrives(r) /\ Ends(r) /\ product' = product /\ part' = part /\ died' = died /\ overlap' = overlap
    BY <1>9 DEF DeletesVariant, Sold, SetsStock, histP
  <2> QED
    BY <1>0, <2>1, PartsAside DEF Existing
<1> QED
  BY <1>1, <1>2, <1>3, <1>4, <1>5, <1>6, <1>7, <1>8, <1>9 DEF NextP

-------------------------------------------------------------------------------
(* The collections: typing.                                                  *)

LEMMA CatIs ==
  /\ \A x \in CatRows : x.is = "row" => x.parent \in Maybe(Cats) /\ x = Coll(x.parent)
  /\ NoCat.is # "row" /\ GoneCat.is # "row" /\ NoCat \in CatRows /\ GoneCat \in CatRows /\ GoneCat # NoCat
  /\ \A p : Coll(p).is = "row" /\ Coll(p).parent = p /\ Coll(p) # NoCat
  /\ \A p \in Maybe(Cats) : Coll(p) \in CatRows
<1>1. \A p : Coll(p).is = "row" /\ Coll(p).parent = p
  BY DEF Coll
<1>2. NoCat.is = "absent" /\ GoneCat.is = "gone"
  BY DEF NoCat, GoneCat
<1>3. "absent" # "row" /\ "gone" # "row" /\ "gone" # "absent"
  OBVIOUS
<1> QED
  BY <1>1, <1>2, <1>3, Zenon DEF CatRows

LEMMA OnlyOne ==
  /\ \A S, x : x \in Maybe(S) => x \subseteq S
  /\ \A S, x : x \in Maybe(Maybe(S)) => UNION x \in Maybe(S)
  /\ \A S, x, y : x \in Maybe(S) => x \ {y} \in Maybe(S)
BY DEF Maybe

LEMMA ParentsTyped ==
  ASSUME CollectionsTyped
  PROVE  /\ \A c \in Cats : ParentOf(c) \in Maybe(Cats) /\ ParentOf(c) \subseteq Cats
         /\ Rows \subseteq Cats /\ Mine \subseteq Rows
BY CatIs, OnlyOne DEF CollectionsTyped, ParentOf, Rows, Mine, Maybe

\* Links stay links of products to collections.
LEMMA MapsMove ==
  ASSUME ShopTypeInv, NEW r \in Requests, req[r] \in CollectCalls, NEW x \in CollectCalls, req' = [req EXCEPT ![r] = x]
  PROVE  Moves(r, CollectCalls) /\ req'[r] = x /\ \A s \in Requests \ {r} : req'[s] = req[s]
BY DEF Moves, ShopTypeInv

LEMMA IdleCollects == Idle \in CollectCalls /\ Over \in CollectCalls
BY DEF CollectCalls

LEMMA NewCollectionMoves ==
  ASSUME ShopTypeInv, NEW r \in Requests, NEW c \in Cats, NEW p \in Maybe(Cats), NewCollection(r, c, p)
  PROVE  /\ Moves(r, CollectCalls) /\ UNCHANGED <<varsP, varsK>>
         /\ \/ req' = [req EXCEPT ![r] = Over]
            \/ \E x \in Storing : req' = [req EXCEPT ![r] = x] /\ x.c = c
<1>1. req[r] \in CollectCalls
  BY IdleCollects DEF NewCollection, Arrives
<1>2. CASE Ends(r)
  BY <1>1, <1>2, IdleCollects, MapsMove DEF Ends, Done, NewCollection
<1>3. CASE ~Ends(r)
  <2>1. c \in Owned
    BY DEF NewCollection
  <2>2. PICK ps \in SUBSET Ps : Start(r, [op |-> "newcat", at |-> "row", c |-> c, parent |-> p, ps |-> ps])
    BY <1>3 DEF NewCollection
  <2> DEFINE x == [op |-> "newcat", at |-> "row", c |-> c, parent |-> p, ps |-> ps]
  <2>3. x \in Storing /\ x.c = c /\ req' = [req EXCEPT ![r] = x]
    BY <2>1, <2>2 DEF Storing, Start
  <2>4. UNCHANGED <<varsP, varsK>>
    BY DEF NewCollection
  <2> HIDE DEF x
  <2>5. x \in CollectCalls
    BY <2>3 DEF CollectCalls
  <2> QED
    BY <1>1, <2>3, <2>4, <2>5, MapsMove
<1> QED
  BY <1>2, <1>3

LEMMA EditsCollectionMoves ==
  ASSUME ShopTypeInv, NEW r \in Requests, NEW c \in Cats, NEW ps \in Maybe(Maybe(Cats)), NEW pss \in SUBSET SUBSET Ps,
         EditsCollection(r, c, ps, pss)
  PROVE  /\ Moves(r, CollectCalls) /\ UNCHANGED varsP
         /\ \E x \in Editing : /\ req' = [req EXCEPT ![r] = x] /\ x.c = c /\ x.parents = ps
                               /\ x.at = (IF ps \in {{}, {{}}} THEN "row" ELSE "walk") /\ x.cursor = UNION ps /\ x.seen = {}
<1>1. req[r] \in CollectCalls
  BY IdleCollects DEF EditsCollection, Arrives
<1> DEFINE x == [op |-> "edit", c |-> c, parents |-> ps, pss |-> pss,
               at |-> IF ps \in {{}, {{}}} THEN "row" ELSE "walk",
               cursor |-> UNION ps, seen |-> {}]
<1>2. UNION ps \subseteq Cats
  BY OnlyOne
<1>4. x \in Editing
  BY <1>2 DEF Editing
<1>5. req' = [req EXCEPT ![r] = x] /\ UNCHANGED varsP
  BY DEF EditsCollection, Start
<1>6. x \in CollectCalls
  BY <1>4 DEF CollectCalls
<1>7. Moves(r, CollectCalls)
  BY <1>1, <1>5, <1>6, MapsMove
<1> QED
  BY <1>4, <1>5, <1>7

LEMMA WalksMoves ==
  ASSUME ShopTypeInv, NEW r \in Requests, Walks(r)
  PROVE  /\ Moves(r, CollectCalls) /\ UNCHANGED <<varsP, varsK>>
         /\ req[r] \in Editing /\ req[r].at = "walk"
         /\ \/ req'[r] = Over
            \/ req'[r] \in Editing /\ req'[r].c = req[r].c /\ req'[r].parents = req[r].parents
<1> DEFINE q == req[r]
<1>1. q \in Editing /\ q.at = "walk" /\ q \in CollectCalls
  BY CollectIs DEF Walks, At, CollectCalls
<1>2. UNION {ParentOf(c) : c \in q.cursor} \subseteq Cats
  BY <1>1, ParentsTyped DEF ShopTypeInv, Editing
<1> DEFINE up == UNION {ParentOf(c) : c \in q.cursor}
<1> HIDE DEF up
<1>3. [q EXCEPT !.at = "row"] \in Editing /\ [q EXCEPT !.seen = @ \cup q.cursor, !.cursor = up] \in Editing
  BY <1>1, <1>2 DEF Editing, up
<1>4. UNCHANGED <<varsP, varsK>>
  BY DEF Walks
<1>5. \/ req' = [req EXCEPT ![r] = [q EXCEPT !.at = "row"]]
      \/ req' = [req EXCEPT ![r] = Over]
      \/ req' = [req EXCEPT ![r] = [q EXCEPT !.seen = @ \cup q.cursor, !.cursor = up]]
  BY DEF Walks, up
<1>6. [q EXCEPT !.at = "row"] \in CollectCalls /\ [q EXCEPT !.seen = @ \cup q.cursor, !.cursor = up] \in CollectCalls
  BY <1>3 DEF CollectCalls
<1>7. Moves(r, CollectCalls)
  BY <1>1, <1>5, <1>6, IdleCollects, MapsMove
<1>8. \/ req'[r] = [q EXCEPT !.at = "row"]
      \/ req'[r] = Over
      \/ req'[r] = [q EXCEPT !.seen = @ \cup q.cursor, !.cursor = up]
  BY <1>1, <1>5, <1>6, IdleCollects, MapsMove
<1> HIDE DEF q
<1>9. \/ req'[r] = Over
      \/ req'[r] \in Editing /\ req'[r].c = q.c /\ req'[r].parents = q.parents
  BY <1>1, <1>3, <1>8 DEF Editing
<1> QED
  BY <1>1, <1>4, <1>7, <1>9 DEF q

LEMMA StoresCollectionMoves ==
  ASSUME ShopTypeInv, NEW r \in Requests, StoresCollection(r)
  PROVE  /\ Moves(r, CollectCalls) /\ UNCHANGED <<goods, links, crossed>>
         /\ req[r] \in Storing /\ req'[r].op \notin {"newcat", "edit"}
         /\ \/ cat' = cat
            \/ cat' = [cat EXCEPT ![req[r].c] = Coll(req[r].parent)] /\ req[r].parent \subseteq Rows
<1> DEFINE q == req[r]
           x == [op |-> "link", at |-> "attach", c |-> q.c, ps |-> q.ps]
<1>1. q \in Storing /\ q \in CollectCalls
  BY CollectIs DEF StoresCollection, At, CollectCalls
<1>2. x \in Linking /\ x.op = "link"
  BY <1>1, OwnedCats DEF Storing, Linking
<1>3. UNCHANGED <<goods, links, crossed>>
  BY DEF StoresCollection
<1>4. \/ req' = [req EXCEPT ![r] = Over] /\ cat' = cat
      \/ req' = [req EXCEPT ![r] = x] /\ cat' = [cat EXCEPT ![q.c] = Coll(q.parent)] /\ q.parent \subseteq Rows
  BY DEF StoresCollection, Ends, Done
<1>5. Over.op = "done" /\ x \in CollectCalls
  BY <1>2 DEF Over, CollectCalls
<1> HIDE DEF q, x
<1>6. Moves(r, CollectCalls) /\ (req'[r] = Over \/ req'[r] = x)
  BY <1>1, <1>4, <1>5, IdleCollects, MapsMove DEF q
<1>7. req'[r].op \notin {"newcat", "edit"}
  BY <1>2, <1>5, <1>6
<1> QED
  BY <1>1, <1>3, <1>4, <1>6, <1>7 DEF q

LEMMA MovesCollectionMoves ==
  ASSUME ShopTypeInv, NEW r \in Requests, MovesCollection(r)
  PROVE  /\ Moves(r, CollectCalls) /\ UNCHANGED <<goods, links, crossed>>
         /\ req[r] \in Editing /\ req[r].at = "row" /\ req'[r].op \notin {"newcat", "edit"}
         /\ \/ cat' = cat
            \/ /\ cat' = [cat EXCEPT ![req[r].c] = Coll(UNION req[r].parents)] /\ req[r].parents # {}
               /\ req[r].c \in Rows /\ UNION req[r].parents \subseteq Rows
<1> DEFINE q == req[r]
           x == [op |-> "link", at |-> "clear", c |-> q.c, ps |-> UNION q.pss]
<1>1. q \in Editing /\ q.at = "row" /\ q \in CollectCalls
  BY CollectIs DEF MovesCollection, At, CollectCalls
<1>2. x \in Linking /\ x.op = "link"
  BY <1>1 DEF Editing, Linking
<1>3. UNCHANGED <<goods, links, crossed>>
  BY DEF MovesCollection
<1>4. /\ \/ req' = [req EXCEPT ![r] = Over]
         \/ req' = [req EXCEPT ![r] = x]
      /\ \/ cat' = cat
         \/ /\ q.c \in Rows /\ UNION q.parents \subseteq Rows
            /\ cat' = [cat EXCEPT ![q.c].parent = IF q.parents = {} THEN @ ELSE UNION q.parents]
  BY DEF MovesCollection, Ends, Done
<1>5. \/ cat' = cat
      \/ /\ cat' = [cat EXCEPT ![q.c] = Coll(UNION q.parents)] /\ q.parents # {}
         /\ q.c \in Rows /\ UNION q.parents \subseteq Rows
  <2> SUFFICES ASSUME q.c \in Rows, UNION q.parents \subseteq Rows,
                      cat' = [cat EXCEPT ![q.c].parent = IF q.parents = {} THEN @ ELSE UNION q.parents]
               PROVE  \/ cat' = cat
                      \/ cat' = [cat EXCEPT ![q.c] = Coll(UNION q.parents)] /\ q.parents # {}
    BY <1>4
  <2>1. q.c \in Cats /\ cat \in [Cats -> CatRows] /\ cat[q.c] = Coll(cat[q.c].parent)
    BY CatIs DEF Rows, ShopTypeInv, CollectionsTyped
  <2>2. \A p : [cat[q.c] EXCEPT !.parent = p] = Coll(p)
    BY <2>1 DEF Coll
  <2>3. CASE q.parents = {}
    <3>1. cat' = [cat EXCEPT ![q.c] = [cat[q.c] EXCEPT !.parent = cat[q.c].parent]]
      BY <2>1, <2>3
    <3> QED
      BY <2>1, <2>2, <3>1
  <2>4. CASE q.parents # {}
    <3>1. cat' = [cat EXCEPT ![q.c] = [cat[q.c] EXCEPT !.parent = UNION q.parents]]
      BY <2>1, <2>4
    <3> QED
      BY <2>2, <2>4, <3>1
  <2> QED
    BY <2>3, <2>4
<1>6. Over.op = "done" /\ x \in CollectCalls
  BY <1>2 DEF Over, CollectCalls
<1> HIDE DEF q, x
<1>7. Moves(r, CollectCalls) /\ (req'[r] = Over \/ req'[r] = x)
  BY <1>1, <1>4, <1>6, IdleCollects, MapsMove DEF q
<1>8. req'[r].op \notin {"newcat", "edit"}
  BY <1>2, <1>6, <1>7
<1> QED
  BY <1>1, <1>3, <1>5, <1>7, <1>8 DEF q

LEMMA DropsCollectionMoves ==
  ASSUME ShopTypeInv, NEW r \in Requests, NEW c \in Cats, DropsCollection(r, c)
  PROVE  /\ Moves(r, CollectCalls) /\ UNCHANGED <<goods, crossed>> /\ links' \subseteq links
         /\ req[r] = Idle /\ req'[r] = Over
         /\ cat' = [k \in Cats |-> CASE k = c            -> GoneCat
                                     [] k \in Rows \ {c} -> Coll(ParentOf(k) \ {c})
                                     [] OTHER            -> cat[k]]
<1>1. /\ req[r] = Idle /\ req' = [req EXCEPT ![r] = Over] /\ UNCHANGED <<goods, crossed>> /\ links' \subseteq links
      /\ cat' = [k \in Cats |-> CASE k = c            -> GoneCat
                                  [] k \in Rows \ {c} -> Coll(ParentOf(k) \ {c})
                                  [] OTHER            -> cat[k]]
  BY DEF DropsCollection, Arrives, Ends, Done
<1>2. Moves(r, CollectCalls) /\ req'[r] = Over
  BY <1>1, IdleCollects, MapsMove
<1> QED
  BY <1>1, <1>2

LEMMA OrderingMoves ==
  ASSUME ShopTypeInv, NEW r \in Requests, (\E ids \in [1..2 -> Cats] : Reorders(r, ids)) \/ WritesOrder(r)
  PROVE  /\ Moves(r, CollectCalls) /\ UNCHANGED <<varsP, crossed>>
         /\ req[r].op \notin {"newcat", "edit"} /\ req'[r].op \notin {"newcat", "edit"}
<1>1. CASE WritesOrder(r)
  <2>1. req[r] \in Reordering /\ req' = [req EXCEPT ![r] = Over] /\ UNCHANGED <<varsP, crossed>> /\ req[r].op = "reorder"
    BY <1>1, CollectIs DEF WritesOrder, At, Ends, Done
  <2>2. Moves(r, CollectCalls) /\ req'[r] = Over
    BY <2>1, IdleCollects, MapsMove DEF CollectCalls
  <2> QED
    BY <2>1, <2>2 DEF Over
<1>2. ASSUME NEW ids \in [1..2 -> Cats], Reorders(r, ids)
      PROVE  /\ Moves(r, CollectCalls) /\ UNCHANGED <<varsP, crossed>>
             /\ req[r].op \notin {"newcat", "edit"} /\ req'[r].op \notin {"newcat", "edit"}
  <2> DEFINE x == [op |-> "reorder", at |-> "write", ids |-> ids]
  <2>1. x \in CollectCalls /\ x.op = "reorder"
    BY DEF CollectCalls, Reordering
  <2>2. req[r] = Idle /\ UNCHANGED <<varsP, crossed>> /\ (req' = [req EXCEPT ![r] = Over] \/ req' = [req EXCEPT ![r] = x])
    BY <1>2 DEF Reorders, Arrives, Start, Ends, Done, varsK
  <2> HIDE DEF x
  <2>3. Moves(r, CollectCalls) /\ (req'[r] = Over \/ req'[r] = x)
    BY <2>1, <2>2, IdleCollects, MapsMove
  <2> QED
    BY <2>1, <2>2, <2>3 DEF Over, Idle
<1> QED
  BY <1>1, <1>2

LEMMA LinkingMoves ==
  ASSUME ShopTypeInv, NEW r \in Requests, EmptiesCollection(r) \/ FillsCollection(r)
  PROVE  /\ Moves(r, CollectCalls) /\ UNCHANGED <<goods, cat, crossed>> /\ links' \subseteq Ps \X Cats
         /\ req[r].op \notin {"newcat", "edit"} /\ req'[r].op \notin {"newcat", "edit"}
<1> DEFINE q == req[r]
<1>1. q \in Linking /\ q \in CollectCalls /\ q.op = "link"
  BY CollectIs DEF EmptiesCollection, FillsCollection, At, CollectCalls
<1>2. CASE EmptiesCollection(r)
  <2>1. req' = [req EXCEPT ![r] = [q EXCEPT !.at = "attach"]]
    BY <1>2 DEF EmptiesCollection, GoesTo, ShopTypeInv
  <2>2. [q EXCEPT !.at = "attach"] \in Linking
    BY <1>1 DEF Linking
  <2>3. [q EXCEPT !.at = "attach"] \in CollectCalls /\ [q EXCEPT !.at = "attach"].op = "link"
    BY <2>2 DEF CollectCalls, Linking
  <2>4. Moves(r, CollectCalls) /\ req'[r].op = "link"
    BY <1>1, <2>1, <2>3, MapsMove
  <2> QED
    BY <1>1, <1>2, <2>4 DEF EmptiesCollection, ShopTypeInv, ProductsTyped
<1>3. CASE FillsCollection(r)
  <2>1. req' = [req EXCEPT ![r] = Over]
    BY <1>3 DEF FillsCollection, Ends, Done
  <2>2. Moves(r, CollectCalls) /\ req'[r] = Over
    BY <1>1, <2>1, IdleCollects, MapsMove
  <2>3. links' \subseteq Ps \X Cats
    BY <1>1, <1>3 DEF FillsCollection, ShopTypeInv, ProductsTyped, Linking, Existing
  <2> QED
    BY <1>1, <1>3, <2>2, <2>3 DEF FillsCollection, Over
<1> QED
  BY <1>2, <1>3

\* Request r goes on with the collections, and leaves what is sold alone.
Collects(r) == Moves(r, CollectCalls) /\ CollectionsTyped' /\ UNCHANGED goods /\ links' \subseteq Ps \X Cats

LEMMA CollectingMoves ==
  ASSUME ShopTypeInv, NEW r \in Requests, NextK(r)
  PROVE  Collects(r)
<1>0. links \subseteq Ps \X Cats /\ cat \in [Cats -> CatRows] /\ crossed \in BOOLEAN
  BY DEF ShopTypeInv, ProductsTyped, CollectionsTyped
<1>1. ASSUME NEW c \in Cats, NEW p \in Maybe(Cats), NewCollection(r, c, p)
      PROVE  Collects(r)
  BY <1>0, <1>1, NewCollectionMoves DEF CollectionsTyped, Collects, varsP, varsK, goods, histP
<1>2. ASSUME NEW c \in Cats, NEW ps \in Maybe(Maybe(Cats)), NEW pss \in SUBSET SUBSET Ps,
             EditsCollection(r, c, ps, pss)
      PROVE  Collects(r)
  <2>1. Moves(r, CollectCalls) /\ UNCHANGED varsP
    BY <1>2, EditsCollectionMoves
  <2>2. crossed' \in BOOLEAN
    BY <1>2 DEF EditsCollection
  <2> QED
    BY <1>0, <2>1, <2>2 DEF CollectionsTyped, Collects, varsP, goods, histP
<1>3. ASSUME NEW c \in Cats, DropsCollection(r, c)
      PROVE  Collects(r)
  <2>1. /\ Moves(r, CollectCalls) /\ UNCHANGED <<goods, crossed>> /\ links' \subseteq links
        /\ cat' = [k \in Cats |-> CASE k = c            -> GoneCat
                                    [] k \in Rows \ {c} -> Coll(ParentOf(k) \ {c})
                                    [] OTHER            -> cat[k]]
    BY <1>3, DropsCollectionMoves
  <2>2. \A k \in Cats : Coll(ParentOf(k) \ {c}) \in CatRows
    <3>1. \A k \in Cats : ParentOf(k) \in Maybe(Cats)
      BY ParentsTyped DEF ShopTypeInv
    <3> QED
      BY <3>1, OnlyOne, CatIs
  <2>3. \A k \in Cats : (CASE k = c            -> GoneCat
                           [] k \in Rows \ {c} -> Coll(ParentOf(k) \ {c})
                           [] OTHER            -> cat[k]) \in CatRows
    BY <1>0, <2>2, CatIs
  <2>4. cat' \in [Cats -> CatRows]
    BY <2>1, <2>3
  <2> QED
    BY <1>0, <2>1, <2>4 DEF CollectionsTyped, Collects
<1>4. CASE \E ids \in [1..2 -> Cats] : Reorders(r, ids)
  <2>1. Moves(r, CollectCalls) /\ UNCHANGED <<varsP, crossed>>
    BY <1>4, OrderingMoves
  <2> QED
    BY <1>0, <2>1 DEF CollectionsTyped, Collects, varsP, goods, histP
<1>5. CASE StoresCollection(r)
  <2>1. /\ Moves(r, CollectCalls) /\ UNCHANGED <<goods, links, crossed>> /\ req[r] \in Storing
        /\ cat' = cat \/ cat' = [cat EXCEPT ![req[r].c] = Coll(req[r].parent)]
    BY <1>5, StoresCollectionMoves
  <2>2. Coll(req[r].parent) \in CatRows
    BY <2>1, CatIs DEF Storing
  <2> QED
    BY <1>0, <2>1, <2>2 DEF CollectionsTyped, Collects
<1>6. CASE Walks(r)
  <2>1. Moves(r, CollectCalls) /\ UNCHANGED <<varsP, varsK>>
    BY <1>6, WalksMoves
  <2> QED
    BY <1>0, <2>1 DEF CollectionsTyped, Collects, varsP, varsK, goods, histP
<1>7. CASE MovesCollection(r)
  <2>1. /\ Moves(r, CollectCalls) /\ UNCHANGED <<goods, links, crossed>> /\ req[r] \in Editing
        /\ cat' = cat \/ cat' = [cat EXCEPT ![req[r].c] = Coll(UNION req[r].parents)]
    BY <1>7, MovesCollectionMoves
  <2>2. Coll(UNION req[r].parents) \in CatRows
    BY <2>1, CatIs, OnlyOne DEF Editing
  <2> QED
    BY <1>0, <2>1, <2>2 DEF CollectionsTyped, Collects
<1>8. CASE EmptiesCollection(r) \/ FillsCollection(r)
  <2>1. Moves(r, CollectCalls) /\ UNCHANGED <<goods, cat, crossed>> /\ links' \subseteq Ps \X Cats
    BY <1>8, LinkingMoves
  <2> QED
    BY <1>0, <2>1 DEF CollectionsTyped, Collects
<1>9. CASE WritesOrder(r)
  <2>1. Moves(r, CollectCalls) /\ UNCHANGED <<varsP, crossed>>
    BY <1>9, OrderingMoves
  <2> QED
    BY <1>0, <2>1 DEF CollectionsTyped, Collects, varsP, goods, histP
<1>10. CASE \E c \in Cats, p \in {{}} \cup {{k} : k \in Cats} : NewCollection(r, c, p)
  <2>1. PICK c \in Cats, p \in {{}} \cup {{k} : k \in Cats} : NewCollection(r, c, p)
    BY <1>10
  <2>2. p \in Maybe(Cats)
    BY DEF Maybe
  <2> QED
    BY <1>1, <2>1, <2>2
<1>11. CASE \E c \in Cats, ps \in {{}, {{}}} \cup {{{k}} : k \in Cats}, pss \in {{}, {{}}, {Ps}} :
              (ps # {} \/ pss # {}) /\ EditsCollection(r, c, ps, pss)
  <2>1. PICK c \in Cats, ps \in {{}, {{}}} \cup {{{k}} : k \in Cats}, pss \in {{}, {{}}, {Ps}} : EditsCollection(r, c, ps, pss)
    BY <1>11
  <2>2. ps \in Maybe(Maybe(Cats)) /\ pss \in SUBSET SUBSET Ps
    BY DEF Maybe
  <2> QED
    BY <1>2, <2>1, <2>2
<1>12. CASE \E ids \in [1..2 -> Cats] : ids[1] # ids[2] /\ Reorders(r, ids)
  BY <1>4, <1>12
<1>13. CASE \E c \in Cats : DropsCollection(r, c)
  BY <1>3, <1>13
<1> QED
  BY <1>5, <1>6, <1>7, <1>8, <1>9, <1>10, <1>11, <1>12, <1>13 DEF NextK

\* A walk to the root that a move began: what it has seen leads to what it has
\* seen or sees next, and the collection it moves is not among the former.
Moving(q) == q.op = "edit" /\ q.parents # {}
Climbs(q) ==
  /\ q.c \notin q.seen
  /\ \A x \in q.seen \cup q.cursor : cat[x] # NoCat
  /\ UNION q.parents \subseteq q.seen \cup q.cursor
  /\ \A x \in q.seen : ParentOf(x) \subseteq q.seen \cup q.cursor
  /\ q.at = "row" => q.cursor \subseteq q.seen
TreeInv ==
  /\ \A c \in Cats : ParentOf(c) \subseteq Rows
  /\ \A r \in Requests : req[r].op = "newcat" => cat[req[r].c] = NoCat
  /\ \A r, s \in Requests : r # s /\ req[r].op = "newcat" /\ req[s].op = "newcat" => req[r].c # req[s].c
  /\ crossed \/ AllShown
  /\ crossed \/ \A r, s \in Requests : r # s /\ Moving(req[r]) => ~Moving(req[s])
  /\ crossed \/ \A r \in Requests : Moving(req[r]) => Climbs(req[r])

LEMMA TreeEnough == TreeInv => AllAreShown
BY DEF TreeInv, AllAreShown

LEMMA RowsKnown == \A c \in Rows : cat[c] # NoCat
BY CatIs DEF Rows

\* A step of request r that begins no move and no collection.
LEMMA TreeAside ==
  ASSUME TreeInv, ShopTypeInv, NEW r \in Requests, \A s \in Requests \ {r} : req'[s] = req[s],
         req'[r].op # "newcat", ~Moving(req'[r]),
         \A c \in Cats : ParentOf(c)' \subseteq Rows',
         \A c \in Cats : cat[c] # NoCat => cat'[c] # NoCat,
         \A s \in Requests \ {r} : req[s].op = "newcat" => cat'[req[s].c] = NoCat,
         Moving(req[r]) \/ \A c \in Cats : cat[c] # NoCat => ParentOf(c)' \subseteq ParentOf(c),
         crossed' = crossed, crossed \/ AllShown'
  PROVE  TreeInv'
<1>1. \A s \in Requests : req'[s].op = "newcat" => cat'[req'[s].c] = NoCat
  OBVIOUS
<1>2. \A t, s \in Requests : t # s /\ req'[t].op = "newcat" /\ req'[s].op = "newcat" => req'[t].c # req'[s].c
  BY DEF TreeInv
<1>3. crossed' \/ \A t, s \in Requests : t # s /\ Moving(req'[t]) => ~Moving(req'[s])
  BY DEF TreeInv
<1>4. ASSUME ~crossed, NEW s \in Requests, Moving(req'[s])
      PROVE  Climbs(req[s])' 
  <2>1. s # r /\ req'[s] = req[s] /\ Moving(req[s]) /\ ~Moving(req[r])
    BY <1>4 DEF TreeInv
  <2>2. req[s] \in Editing /\ Climbs(req[s])
    BY <1>4, <2>1, CollectIs DEF TreeInv, Moving
  <2>3. \A c \in Cats : cat[c] # NoCat => ParentOf(c)' \subseteq ParentOf(c)
    BY <2>1
  <2>4. req[s].seen \subseteq Cats /\ req[s].cursor \subseteq Cats
    BY <2>2 DEF Editing
  <2> DEFINE q == req[s]
  <2>5. /\ q.c \notin q.seen
        /\ \A x \in q.seen \cup q.cursor : cat'[x] # NoCat
        /\ UNION q.parents \subseteq q.seen \cup q.cursor
        /\ \A x \in q.seen : ParentOf(x)' \subseteq q.seen \cup q.cursor
        /\ q.at = "row" => q.cursor \subseteq q.seen
    BY <2>2, <2>3, <2>4 DEF Climbs
  <2> QED
    BY <2>1, <2>5 DEF Climbs
<1>5. crossed' \/ \A s \in Requests : Moving(req'[s]) => Climbs(req[s])'
  BY <1>4
<1> QED
  BY <1>1, <1>2, <1>3, <1>5 DEF TreeInv, Moving

\* Parents that stay or go leave every collection in the tree.
LEMMA TreeShrinks ==
  ASSUME AllShown, Mine' \subseteq Mine, \A c \in Mine' : ParentOf(c)' \subseteq ParentOf(c)
  PROVE  AllShown'
<1> SUFFICES ASSUME NEW C \in (SUBSET Mine') \ {{}}
             PROVE  \E c \in C : ParentOf(c)' \cap C = {}
  BY DEF AllShown
<1>1. PICK c \in C : ParentOf(c) \cap C = {}
  BY DEF AllShown
<1> QED
  BY <1>1

LEMMA TreeStands ==
  ASSUME cat' = cat
  PROVE  /\ Rows' = Rows /\ Mine' = Mine /\ \A c : ParentOf(c)' = ParentOf(c)
         /\ AllShown => AllShown'
BY DEF Rows, Mine, ParentOf, AllShown

LEMMA ClimbsOn ==
  ASSUME cat' = cat, NEW s \in Requests, req'[s] = req[s], Climbs(req[s])
  PROVE  Climbs(req[s])'
BY TreeStands DEF Climbs

\* Requests for the other parts of the shop, and links.
LEMMA TreeUntouched ==
  ASSUME TreeInv, ShopTypeInv, NEW r \in Requests, \A s \in Requests \ {r} : req'[s] = req[s],
         req'[r].op \notin {"newcat", "edit"}, cat' = cat, crossed' = crossed
  PROVE  TreeInv'
<1>1. ~Moving(req'[r])
  BY DEF Moving
<1>2. \A c \in Cats : ParentOf(c)' \subseteq Rows' /\ ParentOf(c)' \subseteq ParentOf(c)
  BY TreeStands DEF TreeInv
<1>3. crossed \/ AllShown'
  BY TreeStands DEF TreeInv
<1>4. \A s \in Requests \ {r} : req[s].op = "newcat" => cat'[req[s].c] = NoCat
  BY DEF TreeInv
<1> QED
  BY <1>1, <1>2, <1>3, <1>4, TreeAside

LEMMA TreeNewCollection ==
  ASSUME TreeInv, ShopTypeInv, NEW r \in Requests, NEW c \in Cats, NEW p \in Maybe(Cats), NewCollection(r, c, p)
  PROVE  TreeInv'
<1>1. /\ cat' = cat /\ crossed' = crossed /\ cat[c] = NoCat /\ (\A s \in Running("newcat") : req[s].c # c)
      /\ \A s \in Requests \ {r} : req'[s] = req[s]
  BY NewCollectionMoves, MovesTyped DEF NewCollection, varsP, varsK
<1>2. CASE req' = [req EXCEPT ![r] = Over]
  BY <1>1, <1>2, TreeUntouched DEF Over, ShopTypeInv
<1>3. CASE \E x \in Storing : req' = [req EXCEPT ![r] = x] /\ x.c = c
  <2>1. req'[r].op = "newcat" /\ req'[r].c = c
    BY <1>3 DEF ShopTypeInv, Storing
  <2>2. \A s \in Requests : req'[s].op = "newcat" => cat'[req'[s].c] = NoCat
    BY <1>1, <2>1 DEF TreeInv
  <2>3. \A t, s \in Requests : t # s /\ req'[t].op = "newcat" /\ req'[s].op = "newcat" => req'[t].c # req'[s].c
    BY <1>1, <2>1 DEF TreeInv, Running
  <2>4. \A s \in Requests : Moving(req'[s]) => Moving(req[s]) /\ req'[s] = req[s]
    BY <1>1, <2>1 DEF Moving
  <2>5. crossed' \/ \A t, s \in Requests : t # s /\ Moving(req'[t]) => ~Moving(req'[s])
    BY <1>1, <2>4 DEF TreeInv
  <2>6. crossed' \/ \A s \in Requests : Moving(req'[s]) => Climbs(req[s])'
    BY <1>1, <2>4, TreeStands DEF TreeInv, Climbs
  <2>7. (\A k \in Cats : ParentOf(k)' \subseteq Rows') /\ (crossed' \/ AllShown')
    BY <1>1, TreeStands DEF TreeInv
  <2> QED
    BY <2>2, <2>3, <2>5, <2>6, <2>7 DEF TreeInv, Moving
<1> QED
  BY <1>2, <1>3, NewCollectionMoves

LEMMA TreeEdits ==
  ASSUME TreeInv, ShopTypeInv, NEW r \in Requests, NEW c \in Cats, NEW ps \in Maybe(Maybe(Cats)), NEW pss \in SUBSET SUBSET Ps,
         EditsCollection(r, c, ps, pss)
  PROVE  TreeInv'
<1>1. PICK x \in Editing : /\ req' = [req EXCEPT ![r] = x] /\ x.c = c /\ x.parents = ps
                           /\ x.at = (IF ps \in {{}, {{}}} THEN "row" ELSE "walk") /\ x.cursor = UNION ps /\ x.seen = {}
  BY EditsCollectionMoves
<1>2. /\ cat' = cat /\ (\A s \in Requests \ {r} : req'[s] = req[s]) /\ req'[r] = x /\ x.op = "edit"
      /\ UNION ps \subseteq Mine
      /\ crossed' = (crossed \/ (ps # {} /\ \E s \in Running("edit") : req[s].parents # {}))
  BY <1>1 DEF EditsCollection, varsP, ShopTypeInv, Editing
<1>3. \A s \in Requests : req'[s].op = "newcat" => cat'[req'[s].c] = NoCat
  BY <1>2 DEF TreeInv
<1>4. \A t, s \in Requests : t # s /\ req'[t].op = "newcat" /\ req'[s].op = "newcat" => req'[t].c # req'[s].c
  BY <1>2 DEF TreeInv
<1>5. crossed' \/ \A t, s \in Requests : t # s /\ Moving(req'[t]) => ~Moving(req'[s])
  <2>1. ~crossed' /\ Moving(x) => \A s \in Requests \ {r} : ~Moving(req[s])
    BY <1>1, <1>2 DEF Moving, Running
  <2> QED
    BY <1>2, <2>1 DEF TreeInv
<1>6. Climbs(req[r])'
  <2>1. \A y \in UNION ps : cat'[y] # NoCat
    BY <1>2, RowsKnown DEF Mine
  <2>2. x.at = "row" => x.cursor = {}
    BY <1>1
  <2> QED
    BY <1>1, <1>2, <2>1, <2>2 DEF Climbs
<1>7. ASSUME NEW s \in Requests \ {r}, Moving(req'[s]), ~crossed'
      PROVE  Climbs(req[s])'
  <2>1. ~crossed /\ req'[s] = req[s] /\ Climbs(req[s])
    BY <1>2, <1>7 DEF TreeInv
  <2> QED
    BY <1>2, <2>1, ClimbsOn
<1>8. (\A k \in Cats : ParentOf(k)' \subseteq Rows') /\ (crossed' \/ AllShown')
  BY <1>2, TreeStands, ZenonT(60) DEF TreeInv
<1> QED
  BY <1>3, <1>4, <1>5, <1>6, <1>7, <1>8 DEF TreeInv, Moving

LEMMA TreeWalks ==
  ASSUME TreeInv, ShopTypeInv, NEW r \in Requests, Walks(r)
  PROVE  TreeInv'
<1> DEFINE q == req[r]
           up == UNION {ParentOf(c) : c \in q.cursor}
<1>1. /\ cat' = cat /\ crossed' = crossed /\ q \in Editing /\ q.at = "walk"
      /\ \A s \in Requests \ {r} : req'[s] = req[s]
  BY WalksMoves, MovesTyped DEF varsP, varsK
<1>2. \/ req'[r] = [q EXCEPT !.at = "row"] /\ q.cursor \subseteq q.seen
      \/ req'[r] = Over
      \/ /\ req'[r] = [q EXCEPT !.seen = @ \cup q.cursor, !.cursor = up]
         /\ q.c \notin q.cursor
  BY DEF Walks, ShopTypeInv, MeetsItself
<1>3. CASE req'[r] = Over
  BY <1>1, <1>3, TreeUntouched DEF Over
<1>4. CASE req'[r] # Over
  <2>1. req'[r].op = "edit" /\ req'[r].parents = q.parents /\ req'[r].c = q.c
    BY <1>1, <1>2, <1>4 DEF Editing
  <2>2. \A s \in Requests : req'[s].op = "newcat" => cat'[req'[s].c] = NoCat
    BY <1>1, <2>1 DEF TreeInv
  <2>3. \A t, s \in Requests : t # s /\ req'[t].op = "newcat" /\ req'[s].op = "newcat" => req'[t].c # req'[s].c
    BY <1>1, <2>1 DEF TreeInv
  <2>4. \A s \in Requests : Moving(req'[s]) => Moving(req[s])
    BY <1>1, <2>1 DEF Moving, Editing
  <2>5. crossed' \/ \A t, s \in Requests : t # s /\ Moving(req'[t]) => ~Moving(req'[s])
    BY <1>1, <2>4 DEF TreeInv
  <2>6. Climbs(q) => Climbs(req[r])'
    <3> SUFFICES ASSUME Climbs(q)
                 PROVE  Climbs(req[r])'
      OBVIOUS
    <3>1. CASE req'[r] = [q EXCEPT !.at = "row"] /\ q.cursor \subseteq q.seen
      <4>1. req'[r].seen = q.seen /\ req'[r].cursor = q.cursor
        BY <1>1, <3>1 DEF Editing
      <4> QED
        BY <1>1, <2>1, <3>1, <4>1, TreeStands DEF Climbs
    <3>2. CASE req'[r] = [q EXCEPT !.seen = @ \cup q.cursor, !.cursor = up] /\ q.c \notin q.cursor
      <4>1. req'[r].seen = q.seen \cup q.cursor /\ req'[r].cursor = up /\ req'[r].at = "walk"
        BY <1>1, <3>2 DEF Editing
      <4>2. \A x \in up : cat[x] # NoCat
        BY <1>1, RowsKnown DEF TreeInv, Editing
      <4>3. \A x \in q.cursor : ParentOf(x) \subseteq up
        OBVIOUS
      <4> HIDE DEF up
      <4>4. /\ q.c \notin q.seen \cup q.cursor
            /\ \A x \in (q.seen \cup q.cursor) \cup up : cat'[x] # NoCat
            /\ UNION q.parents \subseteq (q.seen \cup q.cursor) \cup up
            /\ \A x \in q.seen \cup q.cursor : ParentOf(x)' \subseteq (q.seen \cup q.cursor) \cup up
        BY <1>1, <3>2, <4>2, <4>3, TreeStands DEF Climbs
      <4> QED
        BY <2>1, <4>1, <4>4 DEF Climbs
    <3> QED
      BY <1>2, <1>4, <3>1, <3>2
  <2>7. \A s \in Requests \ {r} : Moving(req'[s]) => (crossed' \/ Climbs(req[s])')
    BY <1>1, TreeStands DEF TreeInv, Climbs
  <2>8. (\A k \in Cats : ParentOf(k)' \subseteq Rows') /\ (crossed' \/ AllShown')
    BY <1>1, TreeStands DEF TreeInv
  <2>9. crossed' \/ \A s \in Requests : Moving(req'[s]) => Climbs(req[s])'
    BY <1>1, <2>4, <2>6, <2>7 DEF TreeInv
  <2> QED
    BY <2>2, <2>3, <2>5, <2>8, <2>9 DEF TreeInv, Moving
<1> QED
  BY <1>3, <1>4

LEMMA TreeStores ==
  ASSUME TreeInv, ShopTypeInv, NEW r \in Requests, StoresCollection(r)
  PROVE  TreeInv'
<1> DEFINE q == req[r]
<1>1. /\ crossed' = crossed /\ q \in Storing /\ req'[r].op \notin {"newcat", "edit"} /\ q.op = "newcat"
      /\ \A s \in Requests \ {r} : req'[s] = req[s]
      /\ \/ cat' = cat
         \/ cat' = [cat EXCEPT ![q.c] = Coll(q.parent)] /\ q.parent \subseteq Rows
  BY StoresCollectionMoves, MovesTyped DEF Storing
<1>2. CASE cat' = cat
  BY <1>1, <1>2, TreeUntouched
<1>3. CASE cat' = [cat EXCEPT ![q.c] = Coll(q.parent)] /\ q.parent \subseteq Rows
  <2> PICK c \in Cats : c = q.c
    BY <1>1, OwnedCats DEF Storing
  <2> PICK p \in Maybe(Cats) : p = q.parent
    BY <1>1 DEF Storing
  <2>1. /\ cat[c] = NoCat /\ c \notin Rows /\ p \subseteq Rows
        /\ cat'[c] = Coll(p) /\ \A k \in Cats \ {c} : cat'[k] = cat[k]
    BY <1>1, <1>3, CatIs DEF TreeInv, Rows, ShopTypeInv, CollectionsTyped
  <2>2. /\ Rows' = Rows \cup {c} /\ ParentOf(c)' = p
        /\ \A k \in Cats \ {c} : ParentOf(k)' = ParentOf(k)
    <3>1. Rows' = Rows \cup {c}
      BY <2>1, CatIs DEF Rows
    <3> QED
      BY <2>1, <3>1, CatIs DEF ParentOf
  <2>3. \A k \in Cats : ParentOf(k)' \subseteq Rows'
    BY <2>1, <2>2 DEF TreeInv
  <2>4. \A k \in Cats : cat[k] # NoCat => cat'[k] # NoCat /\ ParentOf(k)' \subseteq ParentOf(k)
    BY <2>1, <2>2
  <2>5. \A s \in Requests \ {r} : req[s].op = "newcat" => cat'[req[s].c] = NoCat
    <3> SUFFICES ASSUME NEW s \in Requests \ {r}, req[s].op = "newcat"
                 PROVE  cat'[req[s].c] = NoCat
      OBVIOUS
    <3>1. req[s].c # c /\ cat[req[s].c] = NoCat /\ req[s].c \in Cats
      BY <1>1, CollectIs, OwnedCats DEF TreeInv, Storing
    <3> QED
      BY <2>1, <3>1
  <2>6. ASSUME AllShown
        PROVE  AllShown'
    <3> SUFFICES ASSUME NEW C \in (SUBSET Mine') \ {{}}
                 PROVE  \E k \in C : ParentOf(k)' \cap C = {}
      BY DEF AllShown
    <3> DEFINE D == C \ {c}
    <3>1. D \subseteq Mine /\ c \notin p
      BY <2>1, <2>2 DEF Mine
    <3>2. CASE D = {}
      <4>1. c \in C /\ \A k \in C : k = c
        BY <3>2
      <4>2. p \cap C = {}
        BY <3>1, <4>1
      <4> QED
        BY <2>2, <4>1, <4>2
    <3>3. CASE D # {}
      <4>1. PICK k \in D : ParentOf(k) \cap D = {}
        BY <2>6, <3>1, <3>3 DEF AllShown
      <4>2. k \in Cats /\ c \notin ParentOf(k)
        BY <2>1, <3>1 DEF TreeInv, Mine, Rows
      <4> QED
        BY <2>2, <4>1, <4>2
    <3> QED
      BY <3>2, <3>3
  <2>7. crossed \/ AllShown'
    BY <2>6 DEF TreeInv
  <2>8. ~Moving(req'[r])
    BY <1>1 DEF Moving
  <2> QED
    BY <1>1, <2>3, <2>4, <2>5, <2>7, <2>8, TreeAside
<1> QED
  BY <1>1, <1>2, <1>3

LEMMA TreeDrops ==
  ASSUME TreeInv, ShopTypeInv, NEW r \in Requests, NEW c \in Cats, DropsCollection(r, c)
  PROVE  TreeInv'
<1>1. /\ crossed' = crossed /\ req'[r] = Over
      /\ \A s \in Requests \ {r} : req'[s] = req[s]
      /\ \A k \in Cats : cat'[k] = CASE k = c            -> GoneCat
                                     [] k \in Rows \ {c} -> Coll(ParentOf(k) \ {c})
                                     [] OTHER            -> cat[k]
  BY DropsCollectionMoves, MovesTyped
<1>2. c \in Mine
  BY DEF DropsCollection
<1>3. /\ cat'[c] = GoneCat
      /\ \A k \in Rows \ {c} : cat'[k] = Coll(ParentOf(k) \ {c})
      /\ \A k \in Cats \ Rows : cat'[k] = cat[k]
  BY <1>1, <1>2 DEF Mine, Rows
<1>4. Rows' = Rows \ {c} /\ Mine' \subseteq Mine
  <2>1. \A k \in Cats : cat'[k].is = "row" <=> k \in Rows \ {c}
    <3> SUFFICES ASSUME NEW k \in Cats
                 PROVE  cat'[k].is = "row" <=> k \in Rows \ {c}
      OBVIOUS
    <3>1. CASE k \in Rows \ {c}
      BY <1>3, <3>1, CatIs, ZenonT(60)
    <3>2. CASE k = c
      BY <1>3, <3>2, CatIs
    <3>3. CASE k \notin Rows
      BY <1>3, <3>3 DEF Rows
    <3> QED
      BY <3>1, <3>2, <3>3
  <2>2. Rows' = Rows \ {c}
    BY <2>1 DEF Rows
  <2> QED
    BY <2>2 DEF Mine
<1>5. \A k \in Cats : ParentOf(k)' \subseteq ParentOf(k) \ {c}
  <2> SUFFICES ASSUME NEW k \in Cats
               PROVE  ParentOf(k)' \subseteq ParentOf(k) \ {c}
    OBVIOUS
  <2>1. CASE k \in Rows \ {c}
    BY <1>3, <1>4, <2>1, CatIs DEF ParentOf
  <2>2. CASE k \notin Rows \ {c}
    BY <1>4, <2>2 DEF ParentOf
  <2> QED
    BY <2>1, <2>2
<1>6. \A k \in Cats : ParentOf(k)' \subseteq Rows'
  BY <1>4, <1>5 DEF TreeInv
<1>7. \A k \in Cats : cat[k] # NoCat => cat'[k] # NoCat
  <2> SUFFICES ASSUME NEW k \in Cats, cat[k] # NoCat
               PROVE  cat'[k] # NoCat
    OBVIOUS
  <2>1. CASE k \in Rows \ {c}
    BY <1>3, <2>1, CatIs, ZenonT(60)
  <2>2. CASE k = c
    BY <1>3, <2>2, CatIs
  <2>3. CASE k \notin Rows
    BY <1>3, <2>3
  <2> QED
    BY <2>1, <2>2, <2>3
<1>8. \A s \in Requests \ {r} : req[s].op = "newcat" => cat'[req[s].c] = NoCat
  <2> SUFFICES ASSUME NEW s \in Requests \ {r}, req[s].op = "newcat"
               PROVE  cat'[req[s].c] = NoCat
    OBVIOUS
  <2>1. cat[req[s].c] = NoCat /\ req[s].c \in Cats
    BY CollectIs, OwnedCats DEF TreeInv, Storing
  <2> QED
    BY <1>3, <2>1, RowsKnown
<1>9. AllShown => AllShown'
  BY <1>4, <1>5, TreeShrinks, ParentsTyped DEF ShopTypeInv
<1>10. crossed \/ AllShown'
  BY <1>9 DEF TreeInv
<1>11. ~Moving(req'[r]) /\ req'[r].op # "newcat"
  BY <1>1 DEF Moving, Over
<1>12. \A k \in Cats : cat[k] # NoCat => ParentOf(k)' \subseteq ParentOf(k)
  BY <1>5
<1> QED
  BY <1>1, <1>6, <1>7, <1>8, <1>10, <1>11, <1>12, TreeAside

\* The walk saw no way from the new parent down to the collection moved.
LEMMA TreeMoves ==
  ASSUME TreeInv, ShopTypeInv, NEW r \in Requests, MovesCollection(r)
  PROVE  TreeInv'
<1> DEFINE q == req[r]
<1>1. /\ crossed' = crossed /\ q \in Editing /\ q.at = "row" /\ req'[r].op \notin {"newcat", "edit"} /\ q.op = "edit"
      /\ \A s \in Requests \ {r} : req'[s] = req[s]
      /\ \/ cat' = cat
         \/ /\ cat' = [cat EXCEPT ![q.c] = Coll(UNION q.parents)] /\ q.parents # {}
            /\ q.c \in Rows /\ UNION q.parents \subseteq Rows
  BY MovesCollectionMoves, MovesTyped DEF Editing
<1>2. CASE cat' = cat
  BY <1>1, <1>2, TreeUntouched
<1>3. CASE /\ cat' = [cat EXCEPT ![q.c] = Coll(UNION q.parents)] /\ q.parents # {}
           /\ q.c \in Rows /\ UNION q.parents \subseteq Rows
  <2> PICK c \in Cats : c = q.c
    BY <1>1 DEF Editing
  <2> PICK p \in SUBSET Rows : p = UNION q.parents
    BY <1>3
  <2>1. c \in Rows /\ cat'[c] = Coll(p) /\ \A k \in Cats \ {c} : cat'[k] = cat[k]
    BY <1>1, <1>3 DEF ShopTypeInv, CollectionsTyped
  <2>2. /\ Rows' = Rows /\ Mine' = Mine /\ ParentOf(c)' = p
        /\ \A k \in Cats \ {c} : ParentOf(k)' = ParentOf(k)
    <3>1. Rows' = Rows
      BY <2>1, CatIs DEF Rows
    <3> QED
      BY <2>1, <3>1, CatIs DEF ParentOf, Mine
  <2>3. \A k \in Cats : ParentOf(k)' \subseteq Rows'
    BY <2>2 DEF TreeInv
  <2>4. \A k \in Cats : cat[k] # NoCat => cat'[k] # NoCat
    BY <2>1, CatIs
  <2>5. \A s \in Requests \ {r} : req[s].op = "newcat" => cat'[req[s].c] = NoCat
    <3> SUFFICES ASSUME NEW s \in Requests \ {r}, req[s].op = "newcat"
                 PROVE  cat'[req[s].c] = NoCat
      OBVIOUS
    <3>1. cat[req[s].c] = NoCat /\ req[s].c \in Cats
      BY CollectIs, OwnedCats DEF TreeInv, Storing
    <3> QED
      BY <2>1, <3>1, RowsKnown
  <2>6. Moving(q)
    BY <1>1, <1>3 DEF Moving
  <2>7. ASSUME ~crossed
        PROVE  AllShown'
    <3>1. AllShown /\ Climbs(q)
      BY <2>6, <2>7 DEF TreeInv
    <3>2. c \notin q.seen /\ p \subseteq q.seen /\ \A x \in q.seen : ParentOf(x) \subseteq q.seen
      BY <1>1, <3>1 DEF Climbs
    <3> SUFFICES ASSUME NEW C \in (SUBSET Mine) \ {{}}
                 PROVE  \E k \in C : ParentOf(k)' \cap C = {}
      BY <2>2 DEF AllShown
    <3>3. C \subseteq Cats
      BY DEF Mine, Rows
    <3> DEFINE D == C \cap q.seen
    <3>4. CASE D # {}
      <4>1. PICK k \in D : ParentOf(k) \cap D = {}
        BY <3>1, <3>4 DEF AllShown
      <4>2. k # c /\ k \in Cats /\ ParentOf(k) \subseteq q.seen
        BY <3>2, <3>3
      <4> QED
        BY <2>2, <4>1, <4>2
    <3>5. CASE D = {}
      <4>1. PICK k \in C : ParentOf(k) \cap C = {}
        BY <3>1 DEF AllShown
      <4> QED
        BY <2>2, <3>2, <3>3, <3>5, <4>1
    <3> QED
      BY <3>4, <3>5
  <2>8. crossed \/ AllShown'
    BY <2>7
  <2>9. ~Moving(req'[r])
    BY <1>1 DEF Moving
  <2> QED
    BY <1>1, <2>3, <2>4, <2>5, <2>6, <2>8, <2>9, TreeAside
<1> QED
  BY <1>1, <1>2, <1>3

LEMMA TreeCollecting ==
  ASSUME TreeInv, ShopTypeInv, NEW r \in Requests, NextK(r)
  PROVE  TreeInv'
<1>0. \A s \in Requests \ {r} : req'[s] = req[s]
  BY CollectingMoves, MovesTyped DEF Collects
<1>1. CASE \E c \in Cats, p \in {{}} \cup {{k} : k \in Cats} : NewCollection(r, c, p)
  <2>1. PICK c \in Cats, p \in {{}} \cup {{k} : k \in Cats} : NewCollection(r, c, p)
    BY <1>1
  <2>2. p \in Maybe(Cats)
    BY DEF Maybe
  <2> QED
    BY <2>1, <2>2, TreeNewCollection
<1>2. CASE \E c \in Cats, ps \in {{}, {{}}} \cup {{{k}} : k \in Cats}, pss \in {{}, {{}}, {Ps}} :
              (ps # {} \/ pss # {}) /\ EditsCollection(r, c, ps, pss)
  <2>1. PICK c \in Cats, ps \in {{}, {{}}} \cup {{{k}} : k \in Cats}, pss \in {{}, {{}}, {Ps}} : EditsCollection(r, c, ps, pss)
    BY <1>2
  <2>2. ps \in Maybe(Maybe(Cats)) /\ pss \in SUBSET SUBSET Ps
    BY DEF Maybe
  <2> QED
    BY <2>1, <2>2, TreeEdits
<1>3. CASE \E c \in Cats : DropsCollection(r, c)
  BY <1>3, TreeDrops
<1>4. CASE (\E ids \in [1..2 -> Cats] : Reorders(r, ids)) \/ WritesOrder(r)
  <2>1. UNCHANGED <<varsP, crossed>> /\ req'[r].op \notin {"newcat", "edit"}
    BY <1>4, OrderingMoves
  <2> QED
    BY <1>0, <2>1, TreeUntouched DEF varsP
<1>5. CASE EmptiesCollection(r) \/ FillsCollection(r)
  <2>1. cat' = cat /\ crossed' = crossed /\ req'[r].op \notin {"newcat", "edit"}
    BY <1>5, LinkingMoves
  <2> QED
    BY <1>0, <2>1, TreeUntouched
<1>6. CASE StoresCollection(r) \/ Walks(r) \/ MovesCollection(r)
  BY <1>6, TreeStores, TreeWalks, TreeMoves
<1>7. CASE \E ids \in [1..2 -> Cats] : ids[1] # ids[2] /\ Reorders(r, ids)
  BY <1>4, <1>7
<1> QED
  BY <1>1, <1>2, <1>3, <1>4, <1>5, <1>6, <1>7 DEF NextK

-------------------------------------------------------------------------------
(* The cart: pieces and typing.                                              *)

LEMMA MaxOne == \A n \in Nat : Max({n}) = n
BY DEF Max

LEMMA LineIs ==
  /\ \A x \in LineRows : /\ x.qty \in Nat /\ x.offer \in Maybe(Offers) /\ x.offer \subseteq Offers
                         /\ x.item = {} => x = NoLine
                         /\ x # NoLine => x.qty # 0 /\ \E i \in Items : x.item = {i}
  /\ NoLine \in LineRows /\ NoLine.item = {} /\ NoLine.offer = {} /\ NoLine.qty = 0
<1>1. NoLine.item = {} /\ NoLine.offer = {} /\ NoLine.qty = 0 /\ NoLine \in LineRows /\ {} \in Maybe(Offers)
  BY DEF NoLine, LineRows, Maybe
<1>2. \A x \in [item : {{i} : i \in Items}, offer : Maybe(Offers), qty : Nat \ {0}] :
        x.qty \in Nat \ {0} /\ x.offer \in Maybe(Offers) /\ \E i \in Items : x.item = {i}
  OBVIOUS
<1>3. \A x \in Maybe(Offers) : x \subseteq Offers
  BY OnlyOne
<1>4. \A x \in LineRows \ {NoLine} :
        x.qty \in Nat \ {0} /\ x.offer \in Maybe(Offers) /\ \E i \in Items : x.item = {i}
  BY <1>2 DEF LineRows
<1>5. \A x \in LineRows : /\ x.qty \in Nat
                          /\ x.offer \in Maybe(Offers)
                          /\ x.item = {} => x = NoLine
                          /\ x # NoLine => x.qty # 0 /\ (\E i \in Items : x.item = {i})
  <2> SUFFICES ASSUME NEW x \in LineRows
               PROVE  /\ x.qty \in Nat
                      /\ x.offer \in Maybe(Offers)
                      /\ x.item = {} => x = NoLine
                      /\ x # NoLine => x.qty # 0 /\ (\E i \in Items : x.item = {i})
    OBVIOUS
  <2>1. CASE x = NoLine
    BY <1>1, <2>1
  <2>2. CASE x # NoLine
    BY <1>4, <2>2
  <2> QED
    BY <2>1, <2>2
<1> QED
  BY <1>1, <1>3, <1>5

\* The pieces of one line.
LEMMA PiecesInIs ==
  ASSUME line \in [Lines -> LineRows], NEW l \in Lines
  PROVE  IsFiniteSet(PiecesIn(l)) /\ Cardinality(PiecesIn(l)) = line[l].qty /\ \A x \in PiecesIn(l) : x[1] = l
<1>1. line[l].qty \in Nat
  BY LineIs
<1> DEFINE n == line[l].qty
<1>2. IsFiniteSet({l}) /\ Cardinality({l}) = 1
  BY FS_Singleton
<1>3. IsFiniteSet(1 .. n) /\ Cardinality(1 .. n) = n
  <2>1. IsFiniteSet(1 .. n) /\ Cardinality(1 .. n) = IF 1 > n THEN 0 ELSE n - 1 + 1
    BY <1>1, FS_Interval, SMTT(40)
  <2> QED
    BY <1>1, <2>1
<1>4. IsFiniteSet({l} \X (1 .. n)) /\ Cardinality({l} \X (1 .. n)) = Cardinality({l}) * Cardinality(1 .. n)
  BY <1>2, <1>3, FS_Product
<1> QED
  BY <1>1, <1>2, <1>3, <1>4 DEF PiecesIn

\* The pieces in some lines.
Within(L) == UNION {PiecesIn(l) : l \in L}
LEMMA WithinFinite ==
  ASSUME line \in [Lines -> LineRows], NEW L \in SUBSET Lines
  PROVE  IsFiniteSet(Within(L)) /\ Cardinality(Within(L)) \in Nat
<1> DEFINE stacks == {PiecesIn(l) : l \in L}
           f == [l \in L |-> PiecesIn(l)]
<1>1. IsFiniteSet(L)
  BY LinesFinite, FS_Subset
<1>2. f \in Surjection(L, stacks)
  BY DEF Surjection
<1>3. IsFiniteSet(stacks)
  BY <1>1, <1>2, FS_Surjection
<1>4. \A T \in stacks : IsFiniteSet(T)
  BY PiecesInIs
<1> HIDE DEF stacks, f
<1>5. IsFiniteSet(UNION stacks)
  BY <1>3, <1>4, FS_UNION
<1>6. IsFiniteSet(Within(L))
  BY <1>5 DEF Within, stacks
<1> QED
  BY <1>6, FS_CardinalityType

\* The lines with an item; what one line has of it.
With(i) == {k \in Held : line[k].item = {i}}
Here(i, l) == IF line[l].item = {i} THEN line[l].qty ELSE 0

Split ==
  \A i \in Items, l \in Lines : /\ Cardinality(Within(With(i) \ {l})) \in Nat /\ Here(i, l) \in Nat
                               /\ Pieces(i) = Cardinality(Within(With(i) \ {l})) + Here(i, l)
                               /\ Pieces(i) \in Nat
LEMMA PiecesSplit == CartTyped => Split
<1> SUFFICES ASSUME CartTyped, NEW i \in Items, NEW l \in Lines
             PROVE  /\ Cardinality(Within(With(i) \ {l})) \in Nat /\ Here(i, l) \in Nat
                    /\ Pieces(i) = Cardinality(Within(With(i) \ {l})) + Here(i, l)
                    /\ Pieces(i) \in Nat
  BY DEF Split
<1> DEFINE D == With(i) \ {l}
<1>1. /\ D \subseteq Lines /\ With(i) \subseteq Lines /\ Pieces(i) = Cardinality(Within(With(i)))
      /\ Here(i, l) \in Nat
  BY LineIs DEF With, Held, Pieces, Within, Here, CartTyped
<1>2. IsFiniteSet(Within(D)) /\ Cardinality(Within(D)) \in Nat
  BY <1>1, WithinFinite DEF CartTyped
<1>3. CASE l \notin With(i)
  <2>1. With(i) = D
    BY <1>3
  <2>2. Here(i, l) = 0
    BY <1>3, LineIs DEF With, Held, Here, CartTyped
  <2> QED
    BY <1>1, <1>2, <2>1, <2>2
<1>4. CASE l \in With(i)
  <2>1. Within(With(i)) = Within(D) \cup PiecesIn(l)
    BY <1>4 DEF Within
  <2>2. Within(D) \cap PiecesIn(l) = {}
    <3>1. \A x \in Within(D) : x[1] # l
      BY <1>1, PiecesInIs DEF Within, CartTyped
    <3> QED
      BY <3>1, PiecesInIs DEF CartTyped
  <2>3. IsFiniteSet(PiecesIn(l)) /\ Cardinality(PiecesIn(l)) = line[l].qty /\ Here(i, l) = line[l].qty
    BY <1>4, PiecesInIs DEF Here, With, CartTyped
  <2>4. Cardinality(Within(With(i))) = Cardinality(Within(D)) + Cardinality(PiecesIn(l)) - Cardinality({})
    BY <1>2, <2>1, <2>2, <2>3, FS_Union, ZenonT(60)
  <2> QED
    BY <1>1, <1>2, <2>3, <2>4, FS_EmptySet
<1> QED
  BY <1>3, <1>4

\* One line changes: the pieces change by what it has of them.
LEMMA PiecesMove ==
  ASSUME CartTyped, CartTyped', NEW i \in Items, NEW l \in Lines,
         \A k \in Lines \ {l} : line'[k].item = line[k].item /\ line'[k].qty = line[k].qty
  PROVE  Pieces(i)' = Pieces(i) - Here(i, l) + Here(i, l)'
<1> DEFINE D == With(i) \ {l}
<1>1. \A k \in Lines \ {l} : line'[k] # NoLine <=> line[k] # NoLine
  BY LineIs DEF CartTyped
<1>2. D' = D
  BY <1>1 DEF With, Held
<1>3. Within(D)' = Within(D)
  <2>1. \A k \in D : PiecesIn(k)' = PiecesIn(k)
    BY DEF PiecesIn, With, Held
  <2> QED
    BY <1>2, <2>1 DEF Within
<1>4. Pieces(i) = Cardinality(Within(D)) + Here(i, l) /\ Cardinality(Within(D)) \in Nat /\ Here(i, l) \in Nat
  BY PiecesSplit DEF Split
<1>5. Pieces(i)' = Cardinality(Within(D))' + Here(i, l)' /\ Here(i, l)' \in Nat
  <2>1. Split'
    BY PiecesSplit, PTL
  <2> QED
    BY <2>1 DEF Split
<1> QED
  BY <1>3, <1>4, <1>5

NoneHeld == Held = {} => \A i \in Items : Pieces(i) = 0
LEMMA NoPieces == NoneHeld
<1> SUFFICES ASSUME Held = {}, NEW i \in Items
             PROVE  Pieces(i) = 0
  BY DEF NoneHeld
<1>1. UNION {PiecesIn(l) : l \in {k \in Held : line[k].item = {i}}} = {}
  OBVIOUS
<1> QED
  BY <1>1, FS_EmptySet DEF Pieces

\* What a request to change the cart knows of it, while no other one runs.
AddSound(q) ==
  /\ q.at \in {"find", "write"} => \A o \in q.offer : Whole(o, q.qty)
  /\ q.at # "write" => q.found = {}
  /\ \A l \in q.found : line[l].item = {q.item} /\ line[l].qty = q.read /\ line[l].offer \subseteq q.offer
UpdateSound(q) ==
  /\ line[q.l].item = q.row.item /\ line[q.l].qty = q.row.qty /\ line[q.l].offer \subseteq q.row.offer
  /\ q.at = "write" => \A o \in NextOffer(q) : offer[o] = "gone" \/ Whole(o, NextQty(q))
CheckoutSound(q) ==
  /\ \A i \in Items : q.taken[i] = Pieces(i)
  /\ q.at = "empty" => \A i \in Items : ordered[i] = wanted[i]
CartCallSound(q) ==
  /\ q.op = "add" => AddSound(q)
  /\ q.op = "update" => UpdateSound(q)
  /\ q.op = "checkout" => CheckoutSound(q)

Emptying == \E r \in Requests : At(r, "checkout", "empty")
Balanced == \A i \in Items : Pieces(i) + ordered[i] = wanted[i]
LinesWhole == \A l \in Held : \A o \in line[l].offer : Whole(o, line[l].qty)

\* No line carries an offer that was deleted; one request writes at a time.
LinesStand == \A l \in Lines : \A o \in line[l].offer : offer[o] # "gone"
OneWrites == \A r, s \in Requests : r \in Writing /\ s \in Writing => r = s
CallsSound == \A r \in Requests : CartCallSound(req[r])

CartInv ==
  /\ LinesStand
  /\ raced \/ (OneWrites /\ LinesWhole /\ CallsSound)
  /\ raced \/ Emptying \/ Balanced

LEMMA CartMapsMove ==
  ASSUME ShopTypeInv, NEW r \in Requests, req[r] \in CartCalls, NEW x \in CartCalls, req' = [req EXCEPT ![r] = x]
  PROVE  Moves(r, CartCalls) /\ req'[r] = x /\ \A s \in Requests \ {r} : req'[s] = req[s]
BY DEF Moves, ShopTypeInv

LEMMA IdleCarts ==
  /\ Idle \in CartCalls /\ Over \in CartCalls /\ [op |-> "show", at |-> "fetch"] \in CartCalls
  /\ \A q \in Adding \cup Changing \cup Asking \cup Looking \cup Clearing \cup Paying : q \in CartCalls
BY DEF CartCalls, Asking

\* A request that ends or shows the cart.
LEMMA CartEnds ==
  ASSUME ShopTypeInv, NEW r \in Requests, req[r] \in CartCalls
  PROVE  /\ Ends(r) => Moves(r, CartCalls) /\ req'[r] = Over /\ \A s \in Requests \ {r} : req'[s] = req[s]
         /\ Shows(r) => /\ Moves(r, CartCalls) /\ req'[r] = [op |-> "show", at |-> "fetch"]
                        /\ \A s \in Requests \ {r} : req'[s] = req[s]
<1>1. Ends(r) => req' = [req EXCEPT ![r] = Over]
  BY DEF Ends, Done
<1>2. Shows(r) => req' = [req EXCEPT ![r] = [op |-> "show", at |-> "fetch"]]
  BY DEF Shows
<1> QED
  BY <1>1, <1>2, IdleCarts, CartMapsMove

LEMMA RacesTyped ==
  ASSUME ShopTypeInv, NEW r \in Requests, Races(r)
  PROVE  raced' \in BOOLEAN /\ (raced => raced') /\ (~raced' => Writing \ {r} = {})
BY DEF Races, ShopTypeInv, CartTyped

LEMMA AddsMoves ==
  ASSUME ShopTypeInv, NEW r \in Requests, NEW i \in Items, NEW os \in Maybe(Offers), NEW n \in Quantities, Adds(r, i, os, n)
  PROVE  /\ Moves(r, CartCalls) /\ CartTyped' /\ req[r] = Idle
         /\ req'[r] \in Adding /\ req'[r].found = {} /\ req'[r].at # "write" /\ (req'[r].at = "find" => req'[r].offer = {})
         /\ \A s \in Requests \ {r} : req'[s] = req[s]
<1> DEFINE x == [op |-> "add", at |-> IF os = {} THEN "find" ELSE "validate",
                 item |-> i, offer |-> os, qty |-> n, found |-> {}, read |-> 0]
<1>1. x \in Adding /\ x.found = {} /\ x.at # "write" /\ (x.at = "find" => x.offer = {})
  BY DEF Adding, Maybe
<1>2. req[r] = Idle /\ req' = [req EXCEPT ![r] = x] /\ UNCHANGED <<line, offer, wanted, ordered>> /\ Races(r)
  BY DEF Adds, Arrives, Start
<1> HIDE DEF x
<1>3. Moves(r, CartCalls) /\ req'[r] = x /\ \A s \in Requests \ {r} : req'[s] = req[s]
  BY <1>1, <1>2, IdleCarts, CartMapsMove
<1>4. CartTyped'
  BY <1>2, RacesTyped DEF CartTyped, ShopTypeInv
<1> QED
  BY <1>1, <1>2, <1>3, <1>4

\* An add looks before it writes.
LEMMA AddLooks ==
  ASSUME ShopTypeInv, NEW r \in Requests, ValidatesAdd(r) \/ ChecksSame(r) \/ FindsLine(r)
  PROVE  /\ Moves(r, CartCalls) /\ UNCHANGED varsC /\ req[r] \in Adding /\ req[r].at \in {"validate", "same", "find"}
         /\ \A s \in Requests \ {r} : req'[s] = req[s]
         /\ \/ req'[r] = Over
            \/ /\ req'[r] \in Adding /\ req'[r].item = req[r].item /\ req'[r].offer = req[r].offer /\ req'[r].qty = req[r].qty
               /\ \/ ValidatesAdd(r) /\ req'[r].at = "same" /\ req'[r].found = req[r].found
                  \/ ChecksSame(r) /\ req'[r].at = "find" /\ req'[r].found = req[r].found
                     /\ LET there == {l \in Held : Same(l, req[r].item, req[r].offer)}
                            had(ls) == IF ls = {} THEN 0 ELSE line[CHOOSE l \in ls : TRUE].qty
                        IN  \A o \in req[r].offer : Whole(o, had(there) + req[r].qty)
                  \/ /\ FindsLine(r) /\ req'[r].at = "write" /\ req[r].at = "find"
                     /\ \/ req'[r].found = req[r].found
                        \/ \E l \in Held : Same(l, req[r].item, req[r].offer) /\ req'[r].found = {l} /\ req'[r].read = line[l].qty
<1> DEFINE q == req[r]
<1>1. q \in Adding /\ q \in CartCalls /\ q.at \in {"validate", "same", "find"} /\ UNCHANGED varsC
  <2>1. q.op = "add" /\ q.at \in {"validate", "same", "find"} /\ UNCHANGED varsC
    BY DEF ValidatesAdd, ChecksSame, FindsLine, At, Refuses
  <2> QED
    BY <2>1, CartCallIs, IdleCarts
<1>2. \A step \in {"same", "find"} : GoesTo(r, step) => req' = [req EXCEPT ![r] = [q EXCEPT !.at = step]]
  BY DEF GoesTo, ShopTypeInv
<1>3. \A step \in {"same", "find", "write"} :
        LET x == [q EXCEPT !.at = step] IN
        x \in Adding /\ x.item = q.item /\ x.offer = q.offer /\ x.qty = q.qty /\ x.at = step /\ x.found = q.found
  BY <1>1 DEF Adding
<1>4. CASE Ends(r)
  BY <1>1, <1>4, CartEnds
<1>5. CASE ValidatesAdd(r) /\ GoesTo(r, "same")
  <2> DEFINE x == [q EXCEPT !.at = "same"]
  <2>1. req' = [req EXCEPT ![r] = x] /\ x \in CartCalls
    BY <1>2, <1>3, <1>5, IdleCarts
  <2>2. Moves(r, CartCalls) /\ req'[r] = x /\ \A s \in Requests \ {r} : req'[s] = req[s]
    BY <1>1, <2>1, CartMapsMove
  <2> QED
    BY <1>1, <1>3, <1>5, <2>2
<1>6. CASE ChecksSame(r) /\ GoesTo(r, "find") /\ ~Ends(r)
  <2> DEFINE x == [q EXCEPT !.at = "find"]
  <2>1. req' = [req EXCEPT ![r] = x] /\ x \in CartCalls
    BY <1>2, <1>3, <1>6, IdleCarts
  <2>2. Moves(r, CartCalls) /\ req'[r] = x /\ \A s \in Requests \ {r} : req'[s] = req[s]
    BY <1>1, <2>1, CartMapsMove
  <2>3. LET there == {l \in Held : Same(l, q.item, q.offer)}
            had(ls) == IF ls = {} THEN 0 ELSE line[CHOOSE l \in ls : TRUE].qty
        IN  \A o \in q.offer : Whole(o, had(there) + q.qty)
    BY <1>6 DEF ChecksSame, Refuses
  <2> QED
    BY <1>1, <1>3, <1>6, <2>2, <2>3
<1>7. CASE FindsLine(r)
  <2>1. q.at = "find"
    BY <1>7 DEF FindsLine, At
  <2>2. CASE req' = [req EXCEPT ![r].at = "write"]
    <3> DEFINE x == [q EXCEPT !.at = "write"]
    <3>1. req' = [req EXCEPT ![r] = x] /\ x \in CartCalls
      BY <1>3, <2>2, IdleCarts DEF ShopTypeInv
    <3>2. Moves(r, CartCalls) /\ req'[r] = x /\ \A s \in Requests \ {r} : req'[s] = req[s]
      BY <1>1, <3>1, CartMapsMove
    <3> QED
      BY <1>1, <1>3, <1>7, <2>1, <3>2
  <2>3. ASSUME NEW l \in Held, Same(l, q.item, q.offer),
               req' = [req EXCEPT ![r].at = "write", ![r].found = {l}, ![r].read = line[l].qty]
        PROVE  /\ Moves(r, CartCalls) /\ \A s \in Requests \ {r} : req'[s] = req[s]
               /\ req'[r] \in Adding /\ req'[r].item = q.item /\ req'[r].offer = q.offer /\ req'[r].qty = q.qty
               /\ req'[r].at = "write" /\ req'[r].found = {l} /\ req'[r].read = line[l].qty
    <3> DEFINE x == [q EXCEPT !.at = "write", !.found = {l}, !.read = line[l].qty]
    <3>1. l \in Lines /\ line[l].qty \in Nat /\ {l} \in Maybe(Lines)
      BY LineIs DEF Held, ShopTypeInv, CartTyped, Maybe
    <3>2. x \in Adding /\ x.item = q.item /\ x.offer = q.offer /\ x.qty = q.qty
          /\ x.at = "write" /\ x.found = {l} /\ x.read = line[l].qty
      BY <1>1, <3>1 DEF Adding
    <3>3. req' = [req EXCEPT ![r] = x]
      BY <2>3 DEF ShopTypeInv
    <3>4. x \in CartCalls
      BY <3>2, IdleCarts
    <3>5. Moves(r, CartCalls) /\ req'[r] = x /\ \A s \in Requests \ {r} : req'[s] = req[s]
      BY <1>1, <3>3, <3>4, CartMapsMove
    <3> QED
      BY <3>2, <3>5
  <2>4. \/ req' = [req EXCEPT ![r].at = "write"]
        \/ \E l \in Held : /\ Same(l, q.item, q.offer)
                           /\ req' = [req EXCEPT ![r].at = "write", ![r].found = {l}, ![r].read = line[l].qty]
    BY <1>7 DEF FindsLine
  <2> HIDE DEF q
  <2>5. CASE \E l \in Held : /\ Same(l, q.item, q.offer)
                             /\ req' = [req EXCEPT ![r].at = "write", ![r].found = {l}, ![r].read = line[l].qty]
    BY <1>1, <1>7, <2>1, <2>3, <2>5 DEF q
  <2> QED
    BY <2>2, <2>4, <2>5
<1>8. CASE ValidatesAdd(r) /\ ~Ends(r)
  BY <1>5, <1>8 DEF ValidatesAdd, Refuses
<1>9. CASE ChecksSame(r) /\ ~Ends(r)
  BY <1>6, <1>9 DEF ChecksSame, Refuses
<1> QED
  BY <1>4, <1>7, <1>8, <1>9

CartShown == [op |-> "show", at |-> "fetch"]

LEMMA WritesLineMoves ==
  ASSUME ShopTypeInv, NEW r \in Requests, WritesLine(r)
  PROVE  /\ Moves(r, CartCalls) /\ CartTyped' /\ UNCHANGED <<offer, ordered, raced>>
         /\ req[r] \in Adding /\ req[r].at = "write" /\ \A s \in Requests \ {r} : req'[s] = req[s]
         /\ \/ req'[r] = Over /\ UNCHANGED varsC
            \/ \E l \in Lines :
                 /\ \A k \in Lines \ {l} : line'[k] = line[k]
                 /\ wanted' = [wanted EXCEPT ![req[r].item] = @ + req[r].qty]
                 /\ req'[r] = CartShown
                 /\ \/ /\ req[r].found = {} /\ l \notin Held /\ \A o \in req[r].offer : offer[o] # "gone"
                       /\ line'[l] = [item |-> {req[r].item}, offer |-> req[r].offer, qty |-> req[r].qty]
                    \/ /\ req[r].found = {l} /\ l \in Held
                       /\ line'[l] = [line[l] EXCEPT !.qty = req[r].read + req[r].qty]
<1> DEFINE q == req[r]
<1>1. q \in Adding /\ q.at = "write" /\ q \in CartCalls
  BY CartCallIs, IdleCarts DEF WritesLine, At
<1>2. /\ q.qty \in Nat \ {0} /\ q.read \in Nat /\ q.item \in Items /\ q.found \in Maybe(Lines) /\ q.offer \in Maybe(Offers)
  BY <1>1, QuantitiesPositive DEF Adding
<1>3. CASE Ends(r) /\ UNCHANGED varsC
  BY <1>1, <1>3, CartEnds DEF varsC, CartTyped, ShopTypeInv
<1>4. CASE ~(Ends(r) /\ UNCHANGED varsC)
  <2> DEFINE fresh == Lines \ Held
             refused == IF q.found = {} THEN \E o \in q.offer : offer[o] = "gone" ELSE ~(q.found \subseteq Held)
  <2>1. /\ ~refused
        /\ IF q.found = {}
           THEN fresh # {} /\ line' = [line EXCEPT ![CHOOSE l \in fresh : TRUE] =
                                [item |-> {q.item}, offer |-> q.offer, qty |-> q.qty]]
           ELSE \E l \in q.found : line' = [line EXCEPT ![l].qty = Sum(q)]
        /\ wanted' = [wanted EXCEPT ![q.item] = @ + q.qty]
        /\ Shows(r)
        /\ UNCHANGED <<offer, ordered, raced>>
    BY <1>4 DEF WritesLine, Refuses
  <2>2. Moves(r, CartCalls) /\ req'[r] = CartShown /\ \A s \in Requests \ {r} : req'[s] = req[s]
    BY <1>1, <2>1, CartEnds DEF CartShown
  <2>3. wanted' \in [Items -> Int]
    BY <1>2, <2>1 DEF ShopTypeInv, CartTyped
  <2>4. CASE q.found = {}
    <3> DEFINE l == CHOOSE k \in fresh : TRUE
               x == [item |-> {q.item}, offer |-> q.offer, qty |-> q.qty]
    <3>1. l \in fresh
      BY <2>1, <2>4
    <3>2. x \in LineRows
      BY <1>2 DEF LineRows
    <3>3. line' = [line EXCEPT ![l] = x]
      BY <2>1, <2>4
    <3> HIDE DEF l, x, fresh
    <3>4. l \in Lines /\ l \notin Held
      BY <3>1 DEF fresh
    <3>5. line' \in [Lines -> LineRows] /\ line'[l] = x /\ \A k \in Lines \ {l} : line'[k] = line[k]
      BY <3>2, <3>3, <3>4 DEF ShopTypeInv, CartTyped
    <3>6. CartTyped'
      BY <2>1, <2>3, <3>5 DEF CartTyped, ShopTypeInv
    <3> QED
      BY <1>1, <2>1, <2>2, <2>4, <3>4, <3>5, <3>6 DEF x
  <2>5. CASE q.found # {}
    <3>1. PICK l \in q.found : line' = [line EXCEPT ![l].qty = Sum(q)]
      BY <2>1, <2>5
    <3>2. q.found = {l} /\ l \in Lines /\ l \in Held
      BY <1>2, <2>1, <2>5, OnlyOne DEF Maybe
    <3> DEFINE x == [line[l] EXCEPT !.qty = q.read + q.qty]
    <3>3. line[l] \in LineRows /\ line[l] # NoLine
      BY <3>2 DEF Held, ShopTypeInv, CartTyped
    <3>4. x \in LineRows
      BY <1>2, <3>3 DEF LineRows
    <3>5. line' = [line EXCEPT ![l] = x]
      BY <3>1, <3>2 DEF Sum, ShopTypeInv, CartTyped
    <3> HIDE DEF x
    <3>6. line' \in [Lines -> LineRows] /\ line'[l] = x /\ \A k \in Lines \ {l} : line'[k] = line[k]
      BY <3>2, <3>4, <3>5 DEF ShopTypeInv, CartTyped
    <3>7. CartTyped'
      BY <2>1, <2>3, <3>6 DEF CartTyped, ShopTypeInv
    <3> QED
      BY <1>1, <2>1, <2>2, <3>2, <3>6, <3>7 DEF x
  <2> QED
    BY <2>4, <2>5
<1> QED
  BY <1>3, <1>4

LEMMA UpdatesMoves ==
  ASSUME ShopTypeInv, NEW r \in Requests, NEW l \in Lines, NEW ns \in Maybe(Quantities), NEW oss \in Maybe(Maybe(Offers)),
         Updates(r, l, ns, oss)
  PROVE  /\ Moves(r, CartCalls) /\ CartTyped' /\ req[r] = Idle
         /\ req'[r] \in Changing /\ req'[r].l = l /\ req'[r].row = line[l] /\ req'[r].at = "validate"
         /\ \A s \in Requests \ {r} : req'[s] = req[s]
<1> DEFINE x == [op |-> "update", at |-> "validate", l |-> l, qty |-> ns, offers |-> oss, row |-> line[l]]
<1>1. l \in Held /\ line[l] \in LineRows \ {NoLine}
  BY DEF Updates, Held, ShopTypeInv, CartTyped
<1>2. x \in Changing /\ x.l = l /\ x.row = line[l] /\ x.at = "validate"
  BY <1>1 DEF Changing
<1>3. req[r] = Idle /\ req' = [req EXCEPT ![r] = x] /\ UNCHANGED <<line, offer, wanted, ordered>> /\ Races(r)
  BY DEF Updates, Arrives, Start
<1> HIDE DEF x
<1>4. Moves(r, CartCalls) /\ req'[r] = x /\ \A s \in Requests \ {r} : req'[s] = req[s]
  BY <1>2, <1>3, IdleCarts, CartMapsMove
<1>5. CartTyped'
  BY <1>3, RacesTyped DEF CartTyped, ShopTypeInv
<1> QED
  BY <1>2, <1>3, <1>4, <1>5

LEMMA UpdateLooks ==
  ASSUME ShopTypeInv, NEW r \in Requests, ValidatesUpdate(r) \/ ChecksMultiple(r)
  PROVE  /\ Moves(r, CartCalls) /\ UNCHANGED varsC /\ req[r] \in Changing
         /\ \A s \in Requests \ {r} : req'[s] = req[s]
         /\ \/ req'[r] = Over
            \/ /\ req'[r] \in Changing
               /\ \A f \in {"l", "qty", "offers", "row"} : req'[r][f] = req[r][f]
               /\ \/ req'[r].at = "multiple"
                  \/ \A o \in NextOffer(req[r]) : offer[o] # "gone" => Whole(o, NextQty(req[r]))
<1> DEFINE q == req[r]
<1>1. q \in Changing /\ q \in CartCalls /\ UNCHANGED varsC
  <2>1. q.op = "update" /\ UNCHANGED varsC
    BY DEF ValidatesUpdate, ChecksMultiple, At, Refuses
  <2> QED
    BY <2>1, CartCallIs, IdleCarts
<1>2. \A step \in {"multiple", "write"} : GoesTo(r, step) => req' = [req EXCEPT ![r] = [q EXCEPT !.at = step]]
  BY DEF GoesTo, ShopTypeInv
<1>3. \A step \in {"multiple", "write"} :
        LET x == [q EXCEPT !.at = step] IN
        x \in Changing /\ x.at = step /\ \A f \in {"l", "qty", "offers", "row"} : x[f] = q[f]
  BY <1>1 DEF Changing
<1>4. CASE Ends(r)
  BY <1>1, <1>4, CartEnds
<1>5. CASE ~Ends(r)
  <2>1. PICK step \in {"multiple", "write"} :
          /\ GoesTo(r, step)
          /\ step = "write" => \A o \in NextOffer(q) : offer[o] # "gone" => Whole(o, NextQty(q))
    BY <1>5 DEF ValidatesUpdate, ChecksMultiple, Refuses
  <2> DEFINE x == [q EXCEPT !.at = step]
  <2>2. req' = [req EXCEPT ![r] = x] /\ x \in CartCalls
    BY <1>2, <1>3, <2>1, IdleCarts
  <2>3. Moves(r, CartCalls) /\ req'[r] = x /\ \A s \in Requests \ {r} : req'[s] = req[s]
    BY <1>1, <2>2, CartMapsMove
  <2>4. x \in Changing /\ x.at = step /\ \A f \in {"l", "qty", "offers", "row"} : x[f] = q[f]
    BY <1>3
  <2> HIDE DEF x, q
  <2> QED
    BY <1>1, <2>1, <2>3, <2>4 DEF q
<1> QED
  BY <1>4, <1>5

LEMMA NextIsTyped ==
  ASSUME NEW q \in Changing
  PROVE  /\ NextQty(q) \in Nat \ {0} /\ NextOffer(q) \in Maybe(Offers)
         /\ q.qty # {} => Max(q.qty) \in Nat \ {0}
         /\ q.offers # {} => UNION q.offers \in Maybe(Offers)
         /\ q.row.qty \in Nat
<1>1. q.qty # {} => Max(q.qty) \in Nat \ {0}
  <2> SUFFICES ASSUME q.qty # {}
               PROVE  Max(q.qty) \in Nat \ {0}
    OBVIOUS
  <2>1. PICK n \in Quantities : q.qty = {n}
    BY DEF Changing, Maybe
  <2> QED
    BY <2>1, MaxOne, QuantitiesPositive
<1>2. UNION q.offers \in Maybe(Offers)
  BY OnlyOne DEF Changing
<1>3. q.row \in LineRows /\ q.row # NoLine
  BY DEF Changing
<1>4. q.row.qty \in Nat \ {0} /\ q.row.offer \in Maybe(Offers)
  BY <1>3, LineIs
<1> QED
  BY <1>1, <1>2, <1>4 DEF NextQty, NextOffer

LEMMA UpdatesLineMoves ==
  ASSUME ShopTypeInv, NEW r \in Requests, UpdatesLine(r)
  PROVE  /\ Moves(r, CartCalls) /\ CartTyped' /\ UNCHANGED <<offer, ordered, raced>>
         /\ req[r] \in Changing /\ req[r].at = "write" /\ \A s \in Requests \ {r} : req'[s] = req[s]
         /\ \/ req'[r] = Over /\ UNCHANGED varsC
            \/ /\ req'[r] = CartShown /\ req[r].l \in Held /\ \A o \in UNION req[r].offers : offer[o] # "gone"
               /\ \A k \in Lines \ {req[r].l} : line'[k] = line[k]
               /\ line'[req[r].l].item = line[req[r].l].item
               /\ line'[req[r].l].qty = IF req[r].qty = {} THEN line[req[r].l].qty ELSE Max(req[r].qty)
               /\ line'[req[r].l].offer = IF req[r].offers = {} THEN line[req[r].l].offer ELSE UNION req[r].offers
               /\ wanted' = [i \in Items |-> IF {i} = req[r].row.item /\ req[r].qty # {}
                              THEN wanted[i] + Max(req[r].qty) - req[r].row.qty ELSE wanted[i]]
<1> DEFINE q == req[r]
<1>1. q \in Changing /\ q.at = "write" /\ q \in CartCalls
  BY CartCallIs, IdleCarts DEF UpdatesLine, At
<1>2. CASE Ends(r) /\ UNCHANGED varsC
  BY <1>1, <1>2, CartEnds DEF varsC, CartTyped, ShopTypeInv
<1>3. CASE ~(Ends(r) /\ UNCHANGED varsC)
  <2> PICK l \in Lines : l = q.l
    BY <1>1 DEF Changing
  <2>1. /\ l \in Held /\ \A o \in UNION q.offers : offer[o] # "gone"
        /\ line' = [line EXCEPT ![l].qty = IF q.qty = {} THEN @ ELSE Max(q.qty),
                                ![l].offer = IF q.offers = {} THEN @ ELSE UNION q.offers]
        /\ wanted' = [i \in Items |-> IF {i} = q.row.item /\ q.qty # {}
                        THEN wanted[i] + Max(q.qty) - q.row.qty ELSE wanted[i]]
        /\ Shows(r) /\ UNCHANGED <<offer, ordered, raced>>
    BY <1>3 DEF UpdatesLine, Refuses
  <2>2. Moves(r, CartCalls) /\ req'[r] = CartShown /\ \A s \in Requests \ {r} : req'[s] = req[s]
    BY <1>1, <2>1, CartEnds DEF CartShown
  <2>3. line[l] \in LineRows \ {NoLine} /\ line \in [Lines -> LineRows]
    BY <2>1 DEF Held, ShopTypeInv, CartTyped
  <2> DEFINE n == IF q.qty = {} THEN line[l].qty ELSE Max(q.qty)
             o == IF q.offers = {} THEN line[l].offer ELSE UNION q.offers
             x == [line[l] EXCEPT !.qty = n, !.offer = o]
  <2>4. n \in Nat \ {0} /\ o \in Maybe(Offers)
    BY <1>1, <2>3, NextIsTyped, LineIs
  <2>5. line' = [line EXCEPT ![l] = x]
    BY <2>1, <2>3
  <2> HIDE DEF n, o
  <2>6. x \in LineRows /\ x.item = line[l].item /\ x.qty = n /\ x.offer = o
    BY <2>3, <2>4 DEF LineRows
  <2> HIDE DEF x
  <2>7. line' \in [Lines -> LineRows] /\ line'[l] = x /\ \A k \in Lines \ {l} : line'[k] = line[k]
    BY <2>3, <2>5, <2>6
  <2>8. wanted' \in [Items -> Int]
    <3>1. \A i \in Items : wanted[i] \in Int
      BY DEF ShopTypeInv, CartTyped
    <3>2. q.row.qty \in Nat /\ (q.qty # {} => Max(q.qty) \in Nat \ {0})
      BY <1>1, NextIsTyped, Zenon
    <3>3. \A i \in Items : (IF {i} = q.row.item /\ q.qty # {}
                            THEN wanted[i] + Max(q.qty) - q.row.qty ELSE wanted[i]) \in Int
      BY <3>1, <3>2
    <3> QED
      BY <2>1, <3>3
  <2>9. CartTyped'
    BY <2>1, <2>7, <2>8 DEF CartTyped, ShopTypeInv
  <2> QED
    BY <1>1, <2>1, <2>2, <2>6, <2>7, <2>9 DEF n, o
<1> QED
  BY <1>2, <1>3

LEMMA WithoutIs ==
  ASSUME ShopTypeInv, NEW L \in SUBSET Lines
  PROVE  /\ Without(L) \in [Lines -> LineRows]
         /\ \A l \in L : Without(L)[l] = NoLine
         /\ \A l \in Lines \ L : Without(L)[l] = line[l]
BY LineIs DEF Without, ShopTypeInv, CartTyped

LEMMA PiecesTyped ==
  ASSUME ShopTypeInv
  PROVE  \A i \in Items : Pieces(i) \in Nat
<1>1. CASE \E l \in Lines : TRUE
  BY <1>1, PiecesSplit DEF Split, ShopTypeInv
<1>2. CASE Lines = {}
  BY <1>2, NoPieces DEF Held, NoneHeld
<1> QED
  BY <1>1, <1>2

LEMMA RemovesMoves ==
  ASSUME ShopTypeInv, NEW r \in Requests, NEW l \in Lines, Removes(r, l)
  PROVE  /\ Moves(r, CartCalls) /\ CartTyped' /\ req[r] = Idle /\ req'[r] = CartShown
         /\ \A s \in Requests \ {r} : req'[s] = req[s]
         /\ line'[l] = NoLine /\ \A k \in Lines \ {l} : line'[k] = line[k]
<1>1. /\ req[r] = Idle /\ Shows(r) /\ Races(r) /\ UNCHANGED <<offer, ordered>> /\ line' = Without({l})
      /\ wanted' = [i \in Items |-> IF {i} = line[l].item THEN wanted[i] - line[l].qty ELSE wanted[i]]
  BY DEF Removes, Arrives
<1>2. line' \in [Lines -> LineRows] /\ line'[l] = NoLine /\ \A k \in Lines \ {l} : line'[k] = line[k]
  BY <1>1, WithoutIs
<1>3. wanted' \in [Items -> Int]
  BY <1>1, LineIs DEF ShopTypeInv, CartTyped
<1>4. CartTyped'
  BY <1>1, <1>2, <1>3, RacesTyped DEF ShopTypeInv, CartTyped
<1> QED
  BY <1>1, <1>2, <1>4, CartEnds, IdleCarts DEF CartShown

LEMMA ClearsCartMoves ==
  ASSUME ShopTypeInv, NEW r \in Requests, ClearsCart(r)
  PROVE  /\ Moves(r, CartCalls) /\ CartTyped' /\ req[r] = Idle /\ req'[r] = Over
         /\ \A s \in Requests \ {r} : req'[s] = req[s]
         /\ \A l \in Lines : line'[l] = NoLine
<1>1. /\ req[r] = Idle /\ Ends(r) /\ Races(r) /\ UNCHANGED <<offer, ordered>> /\ line' = Without(Lines)
      /\ wanted' = [i \in Items |-> wanted[i] - Pieces(i)]
  BY DEF ClearsCart, Arrives
<1>2. line' \in [Lines -> LineRows] /\ \A l \in Lines : line'[l] = NoLine
  BY <1>1, WithoutIs
<1>3. wanted' \in [Items -> Int]
  BY <1>1, PiecesTyped DEF ShopTypeInv, CartTyped
<1>4. CartTyped'
  BY <1>1, <1>2, <1>3, RacesTyped DEF ShopTypeInv, CartTyped
<1> QED
  BY <1>1, <1>2, <1>4, CartEnds, IdleCarts

LEMMA ShowMoves ==
  ASSUME ShopTypeInv, NEW r \in Requests, Gets(r) \/ Fetches(r) \/ Looks(r) \/ TakesOff(r)
  PROVE  /\ Moves(r, CartCalls) /\ CartTyped' /\ UNCHANGED <<offer, wanted, ordered, raced>>
         /\ req[r].op \in {"idle", "show"} /\ req'[r].op \in {"show", "done"}
         /\ \A s \in Requests \ {r} : req'[s] = req[s]
         /\ \A l \in Lines : /\ line'[l].item = line[l].item /\ line'[l].qty = line[l].qty
                             /\ line'[l].offer \subseteq line[l].offer
<1> DEFINE q == req[r]
<1>1. /\ q = Idle \/ q \in Asking \cup Looking \cup Clearing
      /\ q \in CartCalls /\ q.op \in {"idle", "show"}
  BY CartCallIs, IdleCarts DEF Gets, Fetches, Looks, TakesOff, Arrives, At, Idle
<1>2. line \in [Lines -> LineRows]
  BY DEF ShopTypeInv, CartTyped
<1>3. CASE Ends(r) /\ UNCHANGED varsC
  BY <1>1, <1>2, <1>3, CartEnds DEF varsC, CartTyped, ShopTypeInv, Over
<1>4. CASE Gets(r)
  BY <1>1, <1>2, <1>4, CartEnds DEF Gets, varsC, CartTyped, ShopTypeInv
<1>5. CASE Fetches(r)
  <2> DEFINE x == [op |-> "show", at |-> "look", todo |-> {lo \in Held \X Offers : line[lo[1]].offer = {lo[2]}}]
  <2>1. x \in Looking /\ x.op = "show"
    BY DEF Looking, Held
  <2>2. req' = [req EXCEPT ![r] = x] /\ UNCHANGED varsC
    BY <1>5 DEF Fetches
  <2> HIDE DEF x
  <2>3. Moves(r, CartCalls) /\ req'[r] = x /\ \A s \in Requests \ {r} : req'[s] = req[s]
    BY <1>1, <2>1, <2>2, IdleCarts, CartMapsMove
  <2> QED
    BY <1>1, <1>2, <2>1, <2>2, <2>3 DEF varsC, CartTyped, ShopTypeInv
<1>6. CASE Looks(r) /\ ~Ends(r)
  <2>1. At(r, "show", "look") /\ UNCHANGED varsC
    BY <1>6 DEF Looks
  <2>2. PICK lo \in q.todo :
          req' = [req EXCEPT ![r] = [op |-> "show", todo |-> q.todo \ {lo}, l |-> lo[1],
                    at |-> IF offer[lo[2]] = "live" THEN "look" ELSE "clear"]]
    BY <1>6 DEF Looks
  <2>3. q \in Looking \cup Clearing
    BY <1>1, <2>1 DEF At, Asking, Idle
  <2>4. q.todo \subseteq Lines \X Offers
    BY <2>3 DEF Looking, Clearing
  <2> DEFINE x == [op |-> "show", todo |-> q.todo \ {lo}, l |-> lo[1],
                    at |-> IF offer[lo[2]] = "live" THEN "look" ELSE "clear"]
  <2>5. lo[1] \in Lines /\ q.todo \ {lo} \subseteq Lines \X Offers
    BY <2>4
  <2>6. x \in Clearing /\ x.op = "show"
    BY <2>5 DEF Clearing
  <2>7. req' = [req EXCEPT ![r] = x]
    BY <2>2
  <2> HIDE DEF x
  <2>8. Moves(r, CartCalls) /\ req'[r] = x /\ \A s \in Requests \ {r} : req'[s] = req[s]
    BY <1>1, <2>6, <2>7, IdleCarts, CartMapsMove
  <2> QED
    BY <1>1, <1>2, <2>1, <2>6, <2>8 DEF varsC, CartTyped, ShopTypeInv
<1>7. CASE TakesOff(r) /\ ~(Ends(r) /\ UNCHANGED varsC)
  <2>1. /\ At(r, "show", "clear") /\ q.l \in Held /\ line' = [line EXCEPT ![q.l].offer = {}]
        /\ GoesTo(r, "look") /\ UNCHANGED <<offer, wanted, ordered, raced>>
    BY <1>7 DEF TakesOff, Refuses
  <2>2. q \in Clearing
    BY <1>1, <2>1 DEF At, Asking, Looking, Idle
  <2> PICK l \in Lines : l = q.l
    BY <2>2 DEF Clearing
  <2> DEFINE x == [q EXCEPT !.at = "look"]
  <2>3. x \in Clearing /\ x.op = "show"
    BY <2>2 DEF Clearing
  <2>4. req' = [req EXCEPT ![r] = x]
    BY <2>1 DEF GoesTo, ShopTypeInv
  <2> HIDE DEF x
  <2>5. Moves(r, CartCalls) /\ req'[r] = x /\ \A s \in Requests \ {r} : req'[s] = req[s]
    BY <1>1, <2>3, <2>4, IdleCarts, CartMapsMove
  <2> DEFINE w == [line[l] EXCEPT !.offer = {}]
  <2>6. line[l] \in LineRows \ {NoLine}
    BY <1>2, <2>1 DEF Held
  <2>7. w \in LineRows /\ w.item = line[l].item /\ w.qty = line[l].qty /\ w.offer = {}
    BY <2>6 DEF LineRows, Maybe
  <2>8. line' = [line EXCEPT ![l] = w]
    BY <1>2, <2>1
  <2> HIDE DEF w
  <2>9. line' \in [Lines -> LineRows] /\ line'[l] = w /\ \A k \in Lines \ {l} : line'[k] = line[k]
    BY <1>2, <2>7, <2>8
  <2>10. CartTyped'
    BY <2>1, <2>9 DEF CartTyped, ShopTypeInv
  <2> QED
    BY <1>1, <2>1, <2>3, <2>5, <2>7, <2>9, <2>10
<1>8. Looks(r) => UNCHANGED varsC
  BY DEF Looks
<1> QED
  BY <1>3, <1>4, <1>5, <1>6, <1>7, <1>8

LEMMA ChecksOutMoves ==
  ASSUME ShopTypeInv, NEW r \in Requests, ChecksOut(r)
  PROVE  /\ Moves(r, CartCalls) /\ CartTyped' /\ req[r] = Idle /\ UNCHANGED <<line, offer, wanted, ordered>>
         /\ \A s \in Requests \ {r} : req'[s] = req[s]
         /\ \/ req'[r] = Over
            \/ req'[r] \in Paying /\ req'[r].at = "place" /\ req'[r].taken = [i \in Items |-> Pieces(i)]
<1> DEFINE x == [op |-> "checkout", at |-> "place", taken |-> [i \in Items |-> Pieces(i)]]
<1>1. /\ req[r] = Idle /\ Races(r) /\ UNCHANGED <<line, offer, wanted, ordered>>
      /\ Ends(r) \/ req' = [req EXCEPT ![r] = x]
  BY DEF ChecksOut, Arrives, Start
<1>2. x \in Paying /\ x.at = "place" /\ x.taken = [i \in Items |-> Pieces(i)]
  BY PiecesTyped DEF Paying
<1> HIDE DEF x
<1>3. CASE Ends(r)
  BY <1>1, <1>3, CartEnds, IdleCarts, RacesTyped DEF CartTyped, ShopTypeInv
<1>4. CASE req' = [req EXCEPT ![r] = x]
  <2>1. Moves(r, CartCalls) /\ req'[r] = x /\ \A s \in Requests \ {r} : req'[s] = req[s]
    BY <1>1, <1>2, <1>4, IdleCarts, CartMapsMove
  <2> QED
    BY <1>1, <1>2, <2>1, RacesTyped DEF CartTyped, ShopTypeInv
<1> QED
  BY <1>1, <1>3, <1>4

LEMMA PlacesMoves ==
  ASSUME ShopTypeInv, NEW r \in Requests, Places(r)
  PROVE  /\ Moves(r, CartCalls) /\ CartTyped' /\ UNCHANGED <<line, offer, wanted, raced>>
         /\ req[r] \in Paying /\ req[r].at = "place" /\ \A s \in Requests \ {r} : req'[s] = req[s]
         /\ req'[r] \in Paying /\ req'[r].at = "empty" /\ req'[r].taken = req[r].taken
         /\ ordered' = [i \in Items |-> ordered[i] + req[r].taken[i]]
<1> DEFINE q == req[r]
           x == [q EXCEPT !.at = "empty"]
<1>1. q \in Paying /\ q.at = "place" /\ q \in CartCalls
  BY CartCallIs, IdleCarts DEF Places, At
<1>2. /\ req' = [req EXCEPT ![r] = x] /\ ordered' = [i \in Items |-> ordered[i] + q.taken[i]]
      /\ UNCHANGED <<line, offer, wanted, raced>>
  BY DEF Places, GoesTo, ShopTypeInv
<1>3. x \in Paying /\ x.at = "empty" /\ x.taken = q.taken
  BY <1>1 DEF Paying
<1>4. ordered' \in [Items -> Nat]
  BY <1>1, <1>2 DEF Paying, ShopTypeInv, CartTyped
<1>5. CartTyped'
  BY <1>2, <1>4 DEF CartTyped, ShopTypeInv
<1> HIDE DEF x
<1>6. Moves(r, CartCalls) /\ req'[r] = x /\ \A s \in Requests \ {r} : req'[s] = req[s]
  BY <1>1, <1>2, <1>3, IdleCarts, CartMapsMove
<1> QED
  BY <1>1, <1>2, <1>3, <1>5, <1>6

LEMMA EmptiesMoves ==
  ASSUME ShopTypeInv, NEW r \in Requests, Empties(r) \/ CheckoutDies(r)
  PROVE  /\ Moves(r, CartCalls) /\ CartTyped' /\ UNCHANGED <<offer, wanted, ordered>>
         /\ req[r] \in Paying /\ req[r].at = "empty" /\ req'[r] = Over /\ \A s \in Requests \ {r} : req'[s] = req[s]
         /\ \/ Empties(r) /\ raced' = raced /\ \A l \in Lines : line'[l] = NoLine
            \/ CheckoutDies(r) /\ raced' /\ line' = line
<1>1. req[r] \in Paying /\ req[r].at = "empty" /\ req[r] \in CartCalls /\ Ends(r) /\ UNCHANGED <<offer, wanted, ordered>>
  BY CartCallIs, IdleCarts DEF Empties, CheckoutDies, At
<1>2. CASE Empties(r)
  <2>1. line' \in [Lines -> LineRows] /\ raced' = raced /\ \A l \in Lines : line'[l] = NoLine
    BY <1>2, WithoutIs DEF Empties
  <2> QED
    BY <1>1, <1>2, <2>1, CartEnds DEF CartTyped, ShopTypeInv
<1>3. CASE CheckoutDies(r)
  <2>1. line' = line /\ raced' = TRUE
    BY <1>3 DEF CheckoutDies
  <2> QED
    BY <1>1, <1>3, <2>1, CartEnds DEF CartTyped, ShopTypeInv
<1> QED
  BY <1>2, <1>3

LEMMA OfferChangesMoves ==
  ASSUME ShopTypeInv, NEW o \in Offers, OfferChanges(o)
  PROVE  /\ CartTyped' /\ UNCHANGED <<req, wanted, ordered, raced>>
         /\ \A x \in Offers : offer[x] = "gone" => offer'[x] = "gone"
         /\ \A x \in Offers \ {o} : offer'[x] = offer[x]
         /\ \A l \in Lines : /\ line'[l].item = line[l].item /\ line'[l].qty = line[l].qty
                             /\ line'[l].offer \subseteq line[l].offer
                             /\ offer'[o] = "gone" => o \notin line'[l].offer
<1>1. PICK st \in {"live", "off", "gone"} :
        /\ offer[o] # "gone" /\ offer' = [offer EXCEPT ![o] = st]
        /\ line' = IF st = "gone" THEN [l \in Lines |-> [line[l] EXCEPT !.offer = @ \ {o}]] ELSE line
        /\ UNCHANGED <<req, wanted, ordered, raced>>
  BY DEF OfferChanges
<1>2. /\ offer' \in [Offers -> {"live", "off", "gone"}] /\ offer'[o] = st
      /\ \A x \in Offers \ {o} : offer'[x] = offer[x]
  BY <1>1 DEF ShopTypeInv, CartTyped
<1>3. line \in [Lines -> LineRows]
  BY DEF ShopTypeInv, CartTyped
<1>4. CASE st # "gone"
  BY <1>1, <1>2, <1>3, <1>4 DEF CartTyped, ShopTypeInv
<1>5. CASE st = "gone"
  <2>1. \A l \in Lines : line'[l] = [line[l] EXCEPT !.offer = line[l].offer \ {o}]
    BY <1>1, <1>5
  <2>2. \A x \in LineRows :
          LET y == [x EXCEPT !.offer = x.offer \ {o}]
          IN  y \in LineRows /\ y.item = x.item /\ y.qty = x.qty /\ y.offer = x.offer \ {o}
    <3> SUFFICES ASSUME NEW x \in LineRows
                 PROVE  LET y == [x EXCEPT !.offer = x.offer \ {o}]
                        IN  y \in LineRows /\ y.item = x.item /\ y.qty = x.qty /\ y.offer = x.offer \ {o}
      OBVIOUS
    <3>1. x.offer \ {o} \in Maybe(Offers)
      BY LineIs, OnlyOne
    <3>2. CASE x = NoLine
      <4>1. [x EXCEPT !.offer = x.offer \ {o}] = NoLine
        BY <3>2 DEF NoLine
      <4> QED
        BY <3>2, <4>1, LineIs
    <3>3. CASE x # NoLine
      BY <3>1, <3>3 DEF LineRows
    <3> QED
      BY <3>2, <3>3
  <2>3. \A l \in Lines : /\ line'[l] \in LineRows /\ line'[l].item = line[l].item /\ line'[l].qty = line[l].qty
                         /\ line'[l].offer = line[l].offer \ {o}
    BY <1>3, <2>1, <2>2
  <2>4. line' \in [Lines -> LineRows]
    BY <1>1, <1>5, <2>3
  <2> QED
    BY <1>1, <1>2, <2>3, <2>4 DEF CartTyped, ShopTypeInv
<1> QED
  BY <1>4, <1>5

\* The requests of a customer, in the terms of the lemmas above.
LEMMA ShoppingIs ==
  ASSUME NEW r \in Requests, NextC(r)
  PROVE  \/ \E i \in Items, os \in Maybe(Offers), n \in Quantities : Adds(r, i, os, n)
         \/ \E l \in Lines, ns \in Maybe(Quantities), oss \in Maybe(Maybe(Offers)) : Updates(r, l, ns, oss)
         \/ \E l \in Lines : Removes(r, l)
         \/ ValidatesAdd(r) \/ ChecksSame(r) \/ FindsLine(r) \/ WritesLine(r)
         \/ ValidatesUpdate(r) \/ ChecksMultiple(r) \/ UpdatesLine(r)
         \/ ClearsCart(r) \/ Gets(r) \/ Fetches(r) \/ Looks(r) \/ TakesOff(r)
         \/ ChecksOut(r) \/ Places(r) \/ Empties(r) \/ CheckoutDies(r)
<1>1. CASE \E i \in Items, os \in {{}} \cup {{o} : o \in Offers}, n \in Quantities : Arrives(r) /\ Adds(r, i, os, n)
  <2>1. PICK i \in Items, os \in {{}} \cup {{o} : o \in Offers}, n \in Quantities : Adds(r, i, os, n)
    BY <1>1
  <2>2. os \in Maybe(Offers)
    BY DEF Maybe
  <2> QED
    BY <2>1, <2>2
<1>2. CASE \E l \in Lines, ns \in {{}} \cup {{n} : n \in Quantities}, oss \in {{}, {{}}} \cup {{{o}} : o \in Offers} :
             Updates(r, l, ns, oss)
  <2>1. PICK l \in Lines, ns \in {{}} \cup {{n} : n \in Quantities}, oss \in {{}, {{}}} \cup {{{o}} : o \in Offers} :
          Updates(r, l, ns, oss)
    BY <1>2
  <2>2. ns \in Maybe(Quantities) /\ oss \in Maybe(Maybe(Offers))
    BY DEF Maybe
  <2> QED
    BY <2>1, <2>2
<1> QED
  BY <1>1, <1>2 DEF NextC

LEMMA ShoppingMoves ==
  ASSUME ShopTypeInv, NEW r \in Requests, NextC(r)
  PROVE  Moves(r, CartCalls) /\ CartTyped'
<1>1. ASSUME UNCHANGED varsC
      PROVE  CartTyped'
  BY <1>1 DEF varsC, CartTyped, ShopTypeInv
<1>2. CASE ValidatesAdd(r) \/ ChecksSame(r) \/ FindsLine(r) \/ ValidatesUpdate(r) \/ ChecksMultiple(r)
  BY <1>1, <1>2, AddLooks, UpdateLooks
<1>3. CASE WritesLine(r) \/ UpdatesLine(r)
  BY <1>3, WritesLineMoves, UpdatesLineMoves
<1>4. CASE Gets(r) \/ Fetches(r) \/ Looks(r) \/ TakesOff(r)
  BY <1>4, ShowMoves
<1>5. CASE ChecksOut(r) \/ Places(r) \/ Empties(r) \/ CheckoutDies(r)
  BY <1>5, ChecksOutMoves, PlacesMoves, EmptiesMoves
<1>6. CASE ClearsCart(r) \/ \E l \in Lines : Removes(r, l)
  BY <1>6, ClearsCartMoves, RemovesMoves
<1>7. CASE \E i \in Items, os \in Maybe(Offers), n \in Quantities : Adds(r, i, os, n)
  BY <1>7, AddsMoves
<1>8. CASE \E l \in Lines, ns \in Maybe(Quantities), oss \in Maybe(Maybe(Offers)) : Updates(r, l, ns, oss)
  BY <1>8, UpdatesMoves
<1> QED
  BY <1>2, <1>3, <1>4, <1>5, <1>6, <1>7, <1>8, ShoppingIs

-------------------------------------------------------------------------------
(* The cart: what its requests keep.                                         *)

WritingOps == {"add", "update", "remove", "checkout"}

LEMMA WritingIs ==
  ASSUME NEW r \in Requests
  PROVE  r \in Writing <=> req[r].op \in WritingOps
BY DEF Writing, WritingOps, InFlight, Idle, Over

\* Two quantities an offer divides add up to one it divides.
LEMMA WholeAdds ==
  ASSUME NEW o \in Offers, NEW a \in Nat, NEW b \in Nat, Whole(o, a)
  PROVE  Whole(o, a + b) <=> Whole(o, b)
<1> DEFINE m == PiecesOf[o]
<1>1. m \in Nat \ {0}
  BY PiecesPositive
<1> HIDE DEF m
<1>2. \A n \in Nat : n = m * (n \div m) + (n % m) /\ n \div m \in Nat
  <2> TAKE n \in Nat
  <2> QED
    BY <1>1
<1>3. ASSUME NEW n \in Nat, NEW k \in Int, n = m * k
      PROVE  n % m = 0
  BY <1>1, <1>3
<1> DEFINE k == a \div m
<1>4. k \in Int /\ a = m * k
  BY <1>1, <1>2 DEF Whole, m
<1>5. ASSUME b % m = 0
      PROVE  (a + b) % m = 0
  <2> DEFINE j == b \div m
  <2>1. j \in Int /\ b = m * j
    BY <1>1, <1>2, <1>5
  <2> HIDE DEF j, k
  <2>2. a + b = m * (k + j) /\ k + j \in Int /\ a + b \in Nat
    BY <1>1, <1>4, <2>1
  <2> QED
    BY <1>3, <2>2
<1>6. ASSUME (a + b) % m = 0
      PROVE  b % m = 0
  <2> DEFINE j == (a + b) \div m
  <2>1. j \in Int /\ a + b = m * j
    BY <1>1, <1>2, <1>6
  <2> HIDE DEF j, k
  <2>2. b = m * (j - k) /\ j - k \in Int
    BY <1>1, <1>4, <2>1
  <2> QED
    BY <1>3, <2>2
<1> QED
  BY <1>5, <1>6 DEF Whole, m

\* Without a change to the items and quantities the pieces stay.
LEMMA CartStill ==
  ASSUME ShopTypeInv, CartTyped', \A l \in Lines : line'[l].item = line[l].item /\ line'[l].qty = line[l].qty
  PROVE  Held' = Held /\ \A i \in Items : Pieces(i)' = Pieces(i)
<1>1. \A l \in Lines : line'[l] # NoLine <=> line[l] # NoLine
  BY LineIs DEF CartTyped, ShopTypeInv
<1>2. Held' = Held
  BY <1>1 DEF Held
<1>3. \A l \in Held : PiecesIn(l)' = PiecesIn(l)
  BY DEF PiecesIn, Held
<1>4. \A i \in Items : {k \in Held : line[k].item = {i}}' = {k \in Held : line[k].item = {i}}
  BY <1>2 DEF Held
<1>5. ASSUME NEW i \in Items
      PROVE  Pieces(i)' = Pieces(i)
  <2>1. (UNION {PiecesIn(l) : l \in {k \in Held : line[k].item = {i}}})'
          = UNION {PiecesIn(l) : l \in {k \in Held : line[k].item = {i}}}
    BY <1>3, <1>4
  <2> QED
    BY <2>1 DEF Pieces
<1> QED
  BY <1>2, <1>5

LEMMA AloneIs ==
  ASSUME ShopTypeInv, CartInv, ~raced, NEW r \in Requests
  PROVE  /\ req[r].op \in WritingOps => Writing \ {r} = {}
         /\ Writing \ {r} = {} /\ ~At(r, "checkout", "empty") => Balanced
<1>1. req[r].op \in WritingOps => Writing \ {r} = {}
  BY WritingIs DEF CartInv, OneWrites, Writing, InFlight
<1>2. ASSUME Writing \ {r} = {}, ~At(r, "checkout", "empty")
      PROVE  Balanced
  <2>1. \A s \in Requests \ {r} : ~At(s, "checkout", "empty")
    BY <1>2, WritingIs DEF At, WritingOps
  <2> QED
    BY <1>2, <2>1 DEF CartInv, Emptying
<1> QED
  BY <1>1, <1>2

\* A request changes the cart: what is left to show.
LEMMA CartWrites ==
  ASSUME ShopTypeInv, CartInv, NEW r \in Requests, \A s \in Requests \ {r} : req'[s] = req[s],
         LinesStand',
         raced' \/ /\ Writing \ {r} = {}
                   /\ LinesWhole' /\ CartCallSound(req[r])' /\ (Emptying' \/ Balanced')
  PROVE  CartInv'
<1>1. CASE raced'
  BY <1>1 DEF CartInv
<1>2. CASE ~raced'
  <2>1. \A s \in Requests \ {r} : req[s].op \notin WritingOps /\ req'[s].op \notin WritingOps
    BY <1>2, WritingIs
  <2>2. \A s \in Requests : s \in Writing' <=> req'[s].op \in WritingOps
    BY DEF Writing, WritingOps, InFlight, Idle, Over
  <2>3. OneWrites'
    BY <2>1, <2>2 DEF OneWrites
  <2>4. CallsSound'
    <3>1. CartCallSound(req[r])'
      BY <1>2
    <3>2. \A s \in Requests \ {r} : CartCallSound(req[s])'
      BY <2>1 DEF CartCallSound, WritingOps
    <3> QED
      BY <3>1, <3>2 DEF CallsSound
  <2> QED
    BY <1>2, <2>3, <2>4 DEF CartInv
<1> QED
  BY <1>1, <1>2

\* Offers are taken off the lines, and nothing else happens to the cart.
LEMMA CartThins ==
  ASSUME ShopTypeInv, CartInv, CartTyped', UNCHANGED <<wanted, ordered, raced>>,
         \A s \in Requests : req'[s] = req[s] \/ (req[s].op \notin WritingOps /\ req'[s].op \notin WritingOps),
         \A l \in Lines : /\ line'[l].item = line[l].item /\ line'[l].qty = line[l].qty
                          /\ line'[l].offer \subseteq line[l].offer,
         \A x \in Offers : offer[x] = "gone" => offer'[x] = "gone",
         LinesStand'
  PROVE  CartInv'
<1>1. CASE raced
  BY <1>1 DEF CartInv
<1>2. CASE ~raced
  <2>1. Held' = Held /\ \A i \in Items : Pieces(i)' = Pieces(i)
    BY CartStill
  <2>2. \A s \in Requests : s \in Writing' <=> req'[s].op \in WritingOps
    BY DEF Writing, WritingOps, InFlight, Idle, Over
  <2>3. \A s \in Requests : (s \in Writing' <=> s \in Writing) /\ (s \in Writing => req'[s] = req[s])
    BY <2>2, WritingIs
  <2>4. OneWrites'
    BY <1>2, <2>3 DEF CartInv, OneWrites
  <2>5. LinesWhole'
    BY <1>2, <2>1 DEF CartInv, LinesWhole, Held
  <2>6. CallsSound'
    <3> SUFFICES ASSUME NEW s \in Requests
                 PROVE  CartCallSound(req[s])'
      BY DEF CallsSound
    <3>1. CASE req'[s].op \notin WritingOps
      BY <3>1 DEF CartCallSound, WritingOps
    <3>2. CASE req'[s] = req[s]
      <4>1. CartCallSound(req[s])
        BY <1>2 DEF CartInv, CallsSound
      <4>2. CASE req[s].op = "add"
        <5>1. req[s].found \subseteq Lines
          BY <4>2, CartCallIs, OnlyOne DEF Adding
        <5>2. AddSound(req[s])'
          BY <3>2, <4>1, <4>2, <5>1 DEF CartCallSound, AddSound
        <5> QED
          BY <3>2, <4>2, <5>2 DEF CartCallSound
      <4>3. CASE req[s].op = "update"
        <5>1. req[s].l \in Lines /\ req[s] \in Changing
          BY <4>3, CartCallIs DEF Changing
        <5>2. NextOffer(req[s]) \subseteq Offers
          BY <5>1, NextIsTyped, OnlyOne
        <5>3. UpdateSound(req[s])
          BY <4>1, <4>3 DEF CartCallSound
        <5>4. UpdateSound(req[s])'
          <6>1. /\ line'[req[s].l].item = req[s].row.item /\ line'[req[s].l].qty = req[s].row.qty
                /\ line'[req[s].l].offer \subseteq req[s].row.offer
            BY <5>1, <5>3 DEF UpdateSound
          <6>2. req[s].at = "write" =>
                  \A o \in NextOffer(req[s]) : offer'[o] = "gone" \/ Whole(o, NextQty(req[s]))
            BY <5>2, <5>3 DEF UpdateSound
          <6> QED
            BY <3>2, <6>1, <6>2 DEF UpdateSound, NextOffer, NextQty, Whole
        <5> QED
          BY <3>2, <4>3, <5>4 DEF CartCallSound
      <4>4. CASE req[s].op = "checkout"
        <5>1. CheckoutSound(req[s])'
          BY <2>1, <3>2, <4>1, <4>4 DEF CartCallSound, CheckoutSound
        <5> QED
          BY <3>2, <4>4, <5>1 DEF CartCallSound
      <4> QED
        BY <3>2, <4>2, <4>3, <4>4 DEF CartCallSound
    <3> QED
      BY <3>1, <3>2
  <2>7. Emptying' \/ Balanced'
    <3>1. Emptying => Emptying'
      <4> SUFFICES ASSUME NEW s \in Requests, At(s, "checkout", "empty")
                   PROVE  Emptying'
        BY DEF Emptying
      <4>1. s \in Writing
        BY WritingIs DEF At, WritingOps
      <4> QED
        BY <2>3, <4>1 DEF Emptying, At
    <3>2. Balanced => Balanced'
      BY <2>1 DEF Balanced
    <3> QED
      BY <1>2, <3>1, <3>2 DEF CartInv
  <2> QED
    BY <2>4, <2>5, <2>6, <2>7 DEF CartInv
<1> QED
  BY <1>1, <1>2

LEMMA ShowKeeps ==
  ASSUME ShopTypeInv, CartInv, NEW r \in Requests, Gets(r) \/ Fetches(r) \/ Looks(r) \/ TakesOff(r)
  PROVE  CartInv'
<1>1. /\ CartTyped' /\ UNCHANGED <<offer, wanted, ordered, raced>>
      /\ req[r].op \in {"idle", "show"} /\ req'[r].op \in {"show", "done"}
      /\ \A s \in Requests \ {r} : req'[s] = req[s]
      /\ \A l \in Lines : /\ line'[l].item = line[l].item /\ line'[l].qty = line[l].qty
                          /\ line'[l].offer \subseteq line[l].offer
  BY ShowMoves
<1>2. \A s \in Requests : req'[s] = req[s] \/ (req[s].op \notin WritingOps /\ req'[s].op \notin WritingOps)
  BY <1>1 DEF WritingOps
<1>3. LinesStand'
  BY <1>1 DEF CartInv, LinesStand
<1> QED
  BY <1>1, <1>2, <1>3, CartThins

LEMMA OfferingKeeps ==
  ASSUME ShopTypeInv, CartInv, NEW o \in Offers, OfferChanges(o)
  PROVE  CartInv'
<1>1. /\ CartTyped' /\ UNCHANGED <<req, wanted, ordered, raced>>
      /\ \A x \in Offers : offer[x] = "gone" => offer'[x] = "gone"
      /\ \A x \in Offers \ {o} : offer'[x] = offer[x]
      /\ \A l \in Lines : /\ line'[l].item = line[l].item /\ line'[l].qty = line[l].qty
                          /\ line'[l].offer \subseteq line[l].offer
                          /\ offer'[o] = "gone" => o \notin line'[l].offer
  BY OfferChangesMoves
<1>2. LinesStand'
  <2> SUFFICES ASSUME NEW l \in Lines, NEW x \in line'[l].offer
               PROVE  offer'[x] # "gone"
    BY DEF LinesStand
  <2>1. x \in line[l].offer /\ offer[x] # "gone" /\ x \in Offers
    BY <1>1, LineIs DEF CartInv, LinesStand, ShopTypeInv, CartTyped
  <2> QED
    BY <1>1, <2>1
<1> QED
  BY <1>1, <1>2, CartThins

\* The other parts of the shop leave the cart alone.
LEMMA OthersKeep ==
  ASSUME ShopTypeInv, CartInv, NEW r \in Requests, Moves(r, SaveCalls) \/ Moves(r, CollectCalls), UNCHANGED varsC
  PROVE  CartInv'
<1>1. req[r] \in SaveCalls \cup CollectCalls /\ req'[r] \in SaveCalls \cup CollectCalls
      /\ \A s \in Requests \ {r} : req'[s] = req[s]
  BY MovesTyped
<1>2. \A q \in SaveCalls \cup CollectCalls : q.op \notin WritingOps
  BY KindsApart DEF SaveCalls, CollectCalls, WritingOps
<1>3. UNCHANGED <<line, offer, wanted, ordered, raced>> /\ CartTyped' /\ LinesStand'
  BY DEF varsC, CartTyped, ShopTypeInv, CartInv, LinesStand
<1>4. \A s \in Requests : req'[s] = req[s] \/ (req[s].op \notin WritingOps /\ req'[s].op \notin WritingOps)
  BY <1>1, <1>2
<1> QED
  BY <1>3, <1>4, CartThins

LEMMA AddsKeeps ==
  ASSUME ShopTypeInv, CartInv, NEW r \in Requests, NEW i \in Items, NEW os \in Maybe(Offers), NEW n \in Quantities,
         Adds(r, i, os, n)
  PROVE  CartInv'
<1>1. /\ CartTyped' /\ req[r] = Idle /\ \A s \in Requests \ {r} : req'[s] = req[s]
      /\ req'[r] \in Adding /\ req'[r].found = {} /\ req'[r].at # "write" /\ (req'[r].at = "find" => req'[r].offer = {})
  BY AddsMoves
<1>2. UNCHANGED <<line, offer, wanted, ordered>> /\ Races(r)
  BY DEF Adds
<1>3. LinesStand'
  BY <1>2 DEF CartInv, LinesStand
<1>4. ASSUME ~raced'
      PROVE  Writing \ {r} = {} /\ LinesWhole' /\ CartCallSound(req[r])' /\ Balanced'
  <2>1. ~raced /\ Writing \ {r} = {}
    BY <1>2, <1>4, RacesTyped
  <2>2. LinesWhole'
    BY <1>2, <2>1 DEF CartInv, LinesWhole, Held
  <2>3. Balanced
    BY <1>1, <2>1, AloneIs DEF At, Idle
  <2>4. \A k \in Items : Pieces(k)' = Pieces(k)
    BY <1>1, <1>2, CartStill
  <2>5. Balanced'
    BY <1>2, <2>3, <2>4 DEF Balanced
  <2>6. AddSound(req[r])'
    BY <1>1 DEF AddSound
  <2>7. CartCallSound(req[r])'
    BY <1>1, <2>6, KindsApart DEF CartCallSound
  <2> QED
    BY <2>1, <2>2, <2>5, <2>7
<1> QED
  BY <1>1, <1>3, <1>4, CartWrites

\* A request that has only looked knows what it should.
LEMMA LookedKeeps ==
  ASSUME ShopTypeInv, CartInv, NEW r \in Requests, UNCHANGED varsC, req[r].op \in {"add", "update"},
         \A s \in Requests \ {r} : req'[s] = req[s],
         raced \/ CartCallSound(req[r])'
  PROVE  CartInv'
<1>1. UNCHANGED <<line, offer, wanted, ordered, raced>> /\ CartTyped' /\ LinesStand'
  BY DEF varsC, CartTyped, ShopTypeInv, CartInv, LinesStand
<1>2. ASSUME ~raced
      PROVE  Writing \ {r} = {} /\ LinesWhole' /\ Balanced'
  <2>1. Writing \ {r} = {} /\ Balanced
    BY <1>2, AloneIs DEF At, WritingOps
  <2>2. \A k \in Items : Pieces(k)' = Pieces(k)
    BY <1>1, CartStill
  <2> QED
    BY <1>1, <1>2, <2>1, <2>2 DEF CartInv, LinesWhole, Held, Balanced
<1> QED
  BY <1>1, <1>2, CartWrites

LEMMA AddLooksKeeps ==
  ASSUME ShopTypeInv, CartInv, NEW r \in Requests, ValidatesAdd(r) \/ ChecksSame(r) \/ FindsLine(r)
  PROVE  CartInv'
<1> DEFINE q == req[r]
           w == req'[r]
<1>1. /\ UNCHANGED varsC /\ q \in Adding /\ q.at \in {"validate", "same", "find"}
      /\ \A s \in Requests \ {r} : req'[s] = req[s]
      /\ \/ w = Over
         \/ /\ w \in Adding /\ w.item = q.item /\ w.offer = q.offer /\ w.qty = q.qty
            /\ \/ ValidatesAdd(r) /\ w.at = "same" /\ w.found = q.found
               \/ ChecksSame(r) /\ w.at = "find" /\ w.found = q.found
                  /\ LET there == {l \in Held : Same(l, q.item, q.offer)}
                         had(ls) == IF ls = {} THEN 0 ELSE line[CHOOSE l \in ls : TRUE].qty
                     IN  \A o \in q.offer : Whole(o, had(there) + q.qty)
               \/ /\ FindsLine(r) /\ w.at = "write" /\ q.at = "find"
                  /\ \/ w.found = q.found
                     \/ \E l \in Held : Same(l, q.item, q.offer) /\ w.found = {l} /\ w.read = line[l].qty
  BY AddLooks, Zenon
<1>2. q.op = "add" /\ q.offer \subseteq Offers /\ q.qty \in Nat
  BY <1>1, KindsApart, OnlyOne, QuantitiesPositive DEF Adding
<1>3. ASSUME ~raced
      PROVE  CartCallSound(req[r])'
  <2>1. AddSound(q) /\ LinesWhole
    BY <1>2, <1>3 DEF CartInv, CallsSound, CartCallSound
  <2>2. CASE w = Over
    BY <2>2, KindsApart DEF CartCallSound
  <2>3. CASE w \in Adding /\ w.at = "same" /\ w.found = q.found
    BY <1>1, <2>1, <2>3, KindsApart DEF CartCallSound, AddSound
  <2>4. CASE /\ w \in Adding /\ w.offer = q.offer /\ w.qty = q.qty /\ w.at = "find" /\ w.found = q.found
             /\ LET there == {l \in Held : Same(l, q.item, q.offer)}
                    had(ls) == IF ls = {} THEN 0 ELSE line[CHOOSE l \in ls : TRUE].qty
                IN  \A o \in q.offer : Whole(o, had(there) + q.qty)
    <3> DEFINE there == {l \in Held : Same(l, q.item, q.offer)}
    <3>1. \A o \in q.offer : Whole(o, q.qty)
      <4>1. CASE there = {}
        BY <1>2, <2>4, <4>1
      <4>2. CASE there # {}
        <5>1. PICK l \in there : \A o \in q.offer : Whole(o, line[l].qty + q.qty)
          BY <2>4, <4>2
        <5>2. line[l].qty \in Nat /\ \A o \in q.offer : Whole(o, line[l].qty)
          BY <2>1, LineIs DEF LinesWhole, Same, Held, ShopTypeInv, CartTyped
        <5>3. ASSUME NEW o \in q.offer
              PROVE  Whole(o, q.qty)
          BY <1>2, <5>1, <5>2, WholeAdds
        <5> QED
          BY <5>3
      <4> QED
        BY <4>1, <4>2
    <3>2. AddSound(req[r])'
      BY <1>1, <2>1, <2>4, <3>1 DEF AddSound, Whole
    <3> QED
      BY <2>4, <3>2, KindsApart DEF CartCallSound
  <2>5. CASE /\ w \in Adding /\ w.item = q.item /\ w.offer = q.offer /\ w.qty = q.qty /\ w.at = "write" /\ q.at = "find"
             /\ \/ w.found = q.found
                \/ \E l \in Held : Same(l, q.item, q.offer) /\ w.found = {l} /\ w.read = line[l].qty
    <3>1. q.found = {} /\ \A o \in q.offer : Whole(o, q.qty)
      BY <2>1, <2>5 DEF AddSound
    <3>2. line' = line
      BY <1>1 DEF varsC
    <3>3. \A l \in w.found : line'[l].item = {w.item} /\ line'[l].qty = w.read /\ line'[l].offer \subseteq w.offer
      BY <2>5, <3>1, <3>2 DEF Same
    <3>4. AddSound(req[r])'
      BY <2>5, <3>1, <3>3 DEF AddSound, Whole
    <3> QED
      BY <2>5, <3>4, KindsApart DEF CartCallSound
  <2> QED
    BY <1>1, <2>2, <2>3, <2>4, <2>5
<1> QED
  BY <1>1, <1>2, <1>3, LookedKeeps

LEMMA UpdateLooksKeeps ==
  ASSUME ShopTypeInv, CartInv, NEW r \in Requests, ValidatesUpdate(r) \/ ChecksMultiple(r)
  PROVE  CartInv'
<1> DEFINE q == req[r]
           w == req'[r]
<1>1. /\ UNCHANGED varsC /\ q \in Changing /\ \A s \in Requests \ {r} : req'[s] = req[s]
      /\ \/ w = Over
         \/ /\ w \in Changing /\ \A f \in {"l", "qty", "offers", "row"} : w[f] = q[f]
            /\ \/ w.at = "multiple"
               \/ \A o \in NextOffer(q) : offer[o] # "gone" => Whole(o, NextQty(q))
  BY UpdateLooks
<1>2. q.op = "update" /\ UNCHANGED <<line, offer>>
  BY <1>1, KindsApart DEF varsC
<1>3. ASSUME ~raced
      PROVE  CartCallSound(req[r])'
  <2>1. UpdateSound(q)
    BY <1>2, <1>3 DEF CartInv, CallsSound, CartCallSound
  <2>2. CASE w = Over
    BY <2>2, KindsApart DEF CartCallSound
  <2>3. CASE w # Over
    <3>1. w.l = q.l /\ w.qty = q.qty /\ w.offers = q.offers /\ w.row = q.row /\ w.op = "update"
      BY <1>1, <2>3, KindsApart
    <3>2. w.at = "write" => \A o \in NextOffer(q) : offer[o] = "gone" \/ Whole(o, NextQty(q))
      BY <1>1, <2>3
    <3>3. NextOffer(w) = NextOffer(q) /\ NextQty(w) = NextQty(q)
      BY <3>1 DEF NextOffer, NextQty
    <3>4. UpdateSound(req[r])'
      <4>1. /\ line'[w.l].item = w.row.item /\ line'[w.l].qty = w.row.qty /\ line'[w.l].offer \subseteq w.row.offer
        BY <1>2, <2>1, <3>1 DEF UpdateSound
      <4>2. w.at = "write" => \A o \in NextOffer(w) : offer'[o] = "gone" \/ Whole(o, NextQty(w))
        BY <1>2, <3>2, <3>3
      <4> QED
        BY <4>1, <4>2 DEF UpdateSound, NextOffer, NextQty, Whole
    <3> QED
      BY <3>1, <3>4 DEF CartCallSound
  <2> QED
    BY <2>2, <2>3
<1> QED
  BY <1>1, <1>2, <1>3, LookedKeeps

\* A request that shows the cart, or is over, has nothing left to know.
LEMMA ShownSound ==
  ASSUME NEW r \in Requests, req'[r] \in {CartShown, Over}
  PROVE  CartCallSound(req[r])'
BY KindsApart DEF CartCallSound, CartShown

LEMMA WritesLineKeeps ==
  ASSUME ShopTypeInv, CartInv, NEW r \in Requests, WritesLine(r)
  PROVE  CartInv'
<1> DEFINE q == req[r]
<1>1. /\ CartTyped' /\ UNCHANGED <<offer, ordered, raced>> /\ q \in Adding /\ q.at = "write"
      /\ \A s \in Requests \ {r} : req'[s] = req[s]
  BY WritesLineMoves
<1>2. q.op = "add" /\ q.item \in Items /\ q.qty \in Nat \ {0} /\ q.read \in Nat /\ q.offer \subseteq Offers
  BY <1>1, KindsApart, OnlyOne, QuantitiesPositive DEF Adding
<1>3. ~raced => AddSound(q) /\ LinesWhole /\ Writing \ {r} = {} /\ Balanced
  BY <1>2, AloneIs DEF CartInv, CallsSound, CartCallSound, At, WritingOps
<1>4. CASE req'[r] = Over /\ UNCHANGED varsC
  BY <1>1, <1>2, <1>4, LookedKeeps, ShownSound
<1>5. ASSUME NEW l \in Lines,
             \A k \in Lines \ {l} : line'[k] = line[k],
             wanted' = [wanted EXCEPT ![q.item] = @ + q.qty],
             req'[r] = CartShown,
             \/ /\ q.found = {} /\ l \notin Held /\ \A o \in q.offer : offer[o] # "gone"
                /\ line'[l] = [item |-> {q.item}, offer |-> q.offer, qty |-> q.qty]
             \/ /\ q.found = {l} /\ l \in Held
                /\ line'[l] = [line[l] EXCEPT !.qty = q.read + q.qty]
      PROVE  CartInv'
  <2>1. CartCallSound(req[r])'
    BY <1>5, ShownSound
  <2>2. line[l] \in LineRows /\ line'[l] \in LineRows
    BY <1>1 DEF ShopTypeInv, CartTyped
  <2>3. CASE /\ q.found = {} /\ l \notin Held /\ \A o \in q.offer : offer[o] # "gone"
             /\ line'[l] = [item |-> {q.item}, offer |-> q.offer, qty |-> q.qty]
    <3>1. LinesStand'
      BY <1>1, <1>5, <2>3 DEF CartInv, LinesStand
    <3>2. ASSUME ~raced
          PROVE  LinesWhole' /\ Balanced'
      <4>1. LinesWhole'
        BY <1>1, <1>3, <1>5, <2>3, <3>2 DEF LinesWhole, AddSound, Held, Whole
      <4>2. ASSUME NEW i \in Items
            PROVE  Pieces(i)' + ordered'[i] = wanted'[i]
        <5>1. Pieces(i)' = Pieces(i) - Here(i, l) + Here(i, l)'
          BY <1>1, <1>5, PiecesMove DEF ShopTypeInv
        <5>2. Here(i, l) = 0 /\ Here(i, l)' = IF i = q.item THEN q.qty ELSE 0
          BY <2>3, LineIs DEF Here, Held
        <5>3. Pieces(i) \in Nat /\ wanted[i] \in Int /\ ordered[i] \in Nat /\ Pieces(i) + ordered[i] = wanted[i]
          BY <1>3, <3>2, PiecesTyped DEF Balanced, ShopTypeInv, CartTyped
        <5>4. wanted'[i] = IF i = q.item THEN wanted[i] + q.qty ELSE wanted[i]
          BY <1>2, <1>5 DEF ShopTypeInv, CartTyped
        <5> QED
          BY <1>1, <1>2, <5>1, <5>2, <5>3, <5>4
      <4> QED
        BY <4>1, <4>2 DEF Balanced
    <3> QED
      BY <1>1, <1>3, <2>1, <3>1, <3>2, CartWrites
  <2>4. CASE /\ q.found = {l} /\ l \in Held
             /\ line'[l] = [line[l] EXCEPT !.qty = q.read + q.qty]
    <3>1. line[l] \in LineRows \ {NoLine}
      BY <2>2, <2>4 DEF Held
    <3>2. line'[l].item = line[l].item /\ line'[l].offer = line[l].offer /\ line'[l].qty = q.read + q.qty
      BY <2>4, <3>1 DEF LineRows
    <3>3. LinesStand'
      BY <1>1, <1>5, <3>2 DEF CartInv, LinesStand
    <3>4. ASSUME ~raced
          PROVE  LinesWhole' /\ Balanced'
      <4>1. line[l].item = {q.item} /\ line[l].qty = q.read /\ line[l].offer \subseteq q.offer
        BY <1>3, <2>4, <3>4 DEF AddSound
      <4>2. \A o \in line[l].offer : Whole(o, q.read + q.qty)
        <5> TAKE o \in line[l].offer
        <5>1. Whole(o, q.read) /\ Whole(o, q.qty) /\ o \in Offers
          BY <1>1, <1>2, <1>3, <2>4, <3>4, <4>1 DEF AddSound, LinesWhole
        <5> QED
          BY <1>2, <5>1, WholeAdds
      <4>3. LinesWhole'
        BY <1>3, <1>5, <3>2, <3>4, <4>2 DEF LinesWhole, Held, Whole
      <4>4. ASSUME NEW i \in Items
            PROVE  Pieces(i)' + ordered'[i] = wanted'[i]
        <5>1. Pieces(i)' = Pieces(i) - Here(i, l) + Here(i, l)'
          BY <1>1, <1>5, PiecesMove DEF ShopTypeInv
        <5>2. /\ Here(i, l) = IF i = q.item THEN q.read ELSE 0
              /\ Here(i, l)' = IF i = q.item THEN q.read + q.qty ELSE 0
          BY <3>2, <4>1 DEF Here
        <5>3. Pieces(i) \in Nat /\ wanted[i] \in Int /\ ordered[i] \in Nat /\ Pieces(i) + ordered[i] = wanted[i]
          BY <1>3, <3>4, PiecesTyped DEF Balanced, ShopTypeInv, CartTyped
        <5>4. wanted'[i] = IF i = q.item THEN wanted[i] + q.qty ELSE wanted[i]
          BY <1>2, <1>5 DEF ShopTypeInv, CartTyped
        <5> QED
          BY <1>1, <1>2, <5>1, <5>2, <5>3, <5>4
      <4> QED
        BY <4>3, <4>4 DEF Balanced
    <3> QED
      BY <1>1, <1>3, <2>1, <3>3, <3>4, CartWrites
  <2> QED
    BY <1>5, <2>3, <2>4
<1> HIDE DEF q
<1>6. \/ req'[r] = Over /\ UNCHANGED varsC
      \/ \E l \in Lines :
           /\ \A k \in Lines \ {l} : line'[k] = line[k]
           /\ wanted' = [wanted EXCEPT ![q.item] = @ + q.qty]
           /\ req'[r] = CartShown
           /\ \/ /\ q.found = {} /\ l \notin Held /\ \A o \in q.offer : offer[o] # "gone"
                 /\ line'[l] = [item |-> {q.item}, offer |-> q.offer, qty |-> q.qty]
              \/ /\ q.found = {l} /\ l \in Held
                 /\ line'[l] = [line[l] EXCEPT !.qty = q.read + q.qty]
  BY WritesLineMoves, Zenon DEF q
<1> QED
  BY <1>4, <1>5, <1>6

LEMMA UpdatesKeeps ==
  ASSUME ShopTypeInv, CartInv, NEW r \in Requests, NEW l \in Lines, NEW ns \in Maybe(Quantities), NEW oss \in Maybe(Maybe(Offers)),
         Updates(r, l, ns, oss)
  PROVE  CartInv'
<1>1. /\ CartTyped' /\ req[r] = Idle /\ \A s \in Requests \ {r} : req'[s] = req[s]
      /\ req'[r] \in Changing /\ req'[r].l = l /\ req'[r].row = line[l] /\ req'[r].at = "validate"
  BY UpdatesMoves
<1>2. UNCHANGED <<line, offer, wanted, ordered>> /\ Races(r)
  BY DEF Updates
<1>3. LinesStand'
  BY <1>2 DEF CartInv, LinesStand
<1>4. ASSUME ~raced'
      PROVE  Writing \ {r} = {} /\ LinesWhole' /\ CartCallSound(req[r])' /\ Balanced'
  <2>1. ~raced /\ Writing \ {r} = {}
    BY <1>2, <1>4, RacesTyped
  <2>2. LinesWhole'
    BY <1>2, <2>1 DEF CartInv, LinesWhole, Held
  <2>3. Balanced
    BY <1>1, <2>1, AloneIs DEF At, Idle
  <2>4. \A k \in Items : Pieces(k)' = Pieces(k)
    BY <1>1, <1>2, CartStill
  <2>5. Balanced'
    BY <1>2, <2>3, <2>4 DEF Balanced
  <2>6. UpdateSound(req[r])'
    BY <1>1, <1>2 DEF UpdateSound
  <2>7. CartCallSound(req[r])'
    BY <1>1, <2>6, KindsApart DEF CartCallSound
  <2> QED
    BY <2>1, <2>2, <2>5, <2>7
<1> QED
  BY <1>1, <1>3, <1>4, CartWrites

LEMMA UpdatesLineKeeps ==
  ASSUME ShopTypeInv, CartInv, NEW r \in Requests, UpdatesLine(r)
  PROVE  CartInv'
<1> DEFINE q == req[r]
<1>1. /\ CartTyped' /\ UNCHANGED <<offer, ordered, raced>> /\ q \in Changing /\ q.at = "write"
      /\ \A s \in Requests \ {r} : req'[s] = req[s]
      /\ \/ req'[r] = Over /\ UNCHANGED varsC
         \/ /\ req'[r] = CartShown /\ q.l \in Held /\ \A o \in UNION q.offers : offer[o] # "gone"
            /\ \A k \in Lines \ {q.l} : line'[k] = line[k]
            /\ line'[q.l].item = line[q.l].item
            /\ line'[q.l].qty = IF q.qty = {} THEN line[q.l].qty ELSE Max(q.qty)
            /\ line'[q.l].offer = IF q.offers = {} THEN line[q.l].offer ELSE UNION q.offers
            /\ wanted' = [i \in Items |-> IF {i} = q.row.item /\ q.qty # {}
                           THEN wanted[i] + Max(q.qty) - q.row.qty ELSE wanted[i]]
  BY UpdatesLineMoves, Zenon
<1> PICK l \in Lines : l = q.l
  BY <1>1 DEF Changing
<1>2. q.op = "update"
  BY <1>1, KindsApart
<1>3. ~raced => UpdateSound(q) /\ LinesWhole /\ Writing \ {r} = {} /\ Balanced
  BY <1>2, AloneIs DEF CartInv, CallsSound, CartCallSound, At, WritingOps
<1>4. CASE req'[r] = Over /\ UNCHANGED varsC
  BY <1>1, <1>2, <1>4, LookedKeeps, ShownSound
<1>5. CASE ~(req'[r] = Over /\ UNCHANGED varsC)
  <2>1. CartCallSound(req[r])'
    BY <1>1, <1>5, ShownSound
  <2>2. LinesStand'
    BY <1>1, <1>5 DEF CartInv, LinesStand
  <2>3. NextQty(q) \in Nat /\ (q.qty # {} => Max(q.qty) \in Nat) /\ q.row.qty \in Nat
    BY <1>1, NextIsTyped
  <2>4. ASSUME ~raced
        PROVE  LinesWhole' /\ Balanced'
    <3>1. line'[l].qty = NextQty(q) /\ line'[l].offer \subseteq NextOffer(q)
      BY <1>1, <1>3, <1>5, <2>4 DEF UpdateSound, NextQty, NextOffer
    <3>2. \A o \in line'[l].offer : Whole(o, line'[l].qty)
      BY <1>1, <1>3, <2>2, <2>4, <3>1 DEF UpdateSound, LinesStand
    <3>3. LinesWhole'
      BY <1>1, <1>3, <1>5, <2>4, <3>2 DEF LinesWhole, Held, Whole
    <3>4. ASSUME NEW i \in Items
          PROVE  Pieces(i)' + ordered'[i] = wanted'[i]
      <4>1. Pieces(i)' = Pieces(i) - Here(i, l) + Here(i, l)'
        BY <1>1, <1>5, PiecesMove DEF ShopTypeInv
      <4>2. line[l].item = q.row.item /\ line[l].qty = q.row.qty /\ line'[l].item = q.row.item
        BY <1>1, <1>3, <1>5, <2>4 DEF UpdateSound
      <4>3. /\ Here(i, l) = IF {i} = q.row.item THEN q.row.qty ELSE 0
            /\ Here(i, l)' = IF {i} = q.row.item THEN line'[l].qty ELSE 0
        BY <4>2 DEF Here
      <4>4. Pieces(i) \in Nat /\ wanted[i] \in Int /\ ordered[i] \in Nat /\ Pieces(i) + ordered[i] = wanted[i]
        BY <1>3, <2>4, PiecesTyped DEF Balanced, ShopTypeInv, CartTyped
      <4>5. wanted'[i] = IF {i} = q.row.item /\ q.qty # {} THEN wanted[i] + Max(q.qty) - q.row.qty ELSE wanted[i]
        BY <1>1, <1>5
      <4>6. line'[l].qty = IF q.qty = {} THEN q.row.qty ELSE Max(q.qty)
        BY <1>1, <1>5, <4>2
      <4> QED
        BY <1>1, <2>3, <4>1, <4>3, <4>4, <4>5, <4>6
    <3> QED
      BY <3>3, <3>4 DEF Balanced
  <2> QED
    BY <1>1, <1>3, <2>1, <2>2, <2>4, CartWrites
<1> QED
  BY <1>4, <1>5

LEMMA RemovesKeeps ==
  ASSUME ShopTypeInv, CartInv, NEW r \in Requests, NEW l \in Lines, Removes(r, l)
  PROVE  CartInv'
<1>1. /\ CartTyped' /\ req[r] = Idle /\ req'[r] = CartShown
      /\ \A s \in Requests \ {r} : req'[s] = req[s]
      /\ line'[l] = NoLine /\ \A k \in Lines \ {l} : line'[k] = line[k]
  BY RemovesMoves
<1>2. /\ UNCHANGED <<offer, ordered>> /\ Races(r)
      /\ wanted' = [i \in Items |-> IF {i} = line[l].item THEN wanted[i] - line[l].qty ELSE wanted[i]]
  BY DEF Removes
<1>3. LinesStand'
  BY <1>1, <1>2, LineIs DEF CartInv, LinesStand
<1>4. ASSUME ~raced'
      PROVE  Writing \ {r} = {} /\ LinesWhole' /\ Balanced'
  <2>1. ~raced /\ Writing \ {r} = {}
    BY <1>2, <1>4, RacesTyped
  <2>2. LinesWhole'
    BY <1>1, <2>1, LineIs DEF CartInv, LinesWhole, Held, Whole
  <2>3. Balanced
    BY <1>1, <2>1, AloneIs DEF At, Idle
  <2>4. ASSUME NEW i \in Items
        PROVE  Pieces(i)' + ordered'[i] = wanted'[i]
    <3>1. Pieces(i)' = Pieces(i) - Here(i, l) + Here(i, l)'
      BY <1>1, PiecesMove DEF ShopTypeInv
    <3>2. line[l].qty \in Nat /\ Here(i, l) = (IF {i} = line[l].item THEN line[l].qty ELSE 0) /\ Here(i, l)' = 0
      BY <1>1, LineIs DEF Here, ShopTypeInv, CartTyped
    <3>3. Pieces(i) \in Nat /\ wanted[i] \in Int /\ ordered[i] \in Nat /\ Pieces(i) + ordered[i] = wanted[i]
      BY <2>3, PiecesTyped DEF Balanced, ShopTypeInv, CartTyped
    <3>4. wanted'[i] = IF {i} = line[l].item THEN wanted[i] - line[l].qty ELSE wanted[i]
      BY <1>2
    <3> QED
      BY <1>2, <3>1, <3>2, <3>3, <3>4
  <2> QED
    BY <2>1, <2>2, <2>4 DEF Balanced
<1> QED
  BY <1>1, <1>3, <1>4, CartWrites, ShownSound

\* An empty cart stands and is whole.
LEMMA EmptyCart ==
  ASSUME \A l \in Lines : line'[l] = NoLine
  PROVE  LinesStand' /\ LinesWhole' /\ \A i \in Items : Pieces(i)' = 0
<1>1. Held' = {}
  BY DEF Held
<1>2. NoneHeld'
  BY NoPieces, PTL
<1> QED
  BY <1>1, <1>2, LineIs DEF LinesStand, LinesWhole, NoneHeld

LEMMA ClearsCartKeeps ==
  ASSUME ShopTypeInv, CartInv, NEW r \in Requests, ClearsCart(r)
  PROVE  CartInv'
<1>1. /\ req[r] = Idle /\ req'[r] = Over /\ \A s \in Requests \ {r} : req'[s] = req[s]
      /\ \A l \in Lines : line'[l] = NoLine
  BY ClearsCartMoves
<1>2. UNCHANGED <<offer, ordered>> /\ Races(r) /\ wanted' = [i \in Items |-> wanted[i] - Pieces(i)]
  BY DEF ClearsCart
<1>3. LinesStand' /\ LinesWhole' /\ \A i \in Items : Pieces(i)' = 0
  BY <1>1, EmptyCart
<1>4. ASSUME ~raced'
      PROVE  Writing \ {r} = {} /\ Balanced'
  <2>1. ~raced /\ Writing \ {r} = {}
    BY <1>2, <1>4, RacesTyped
  <2>2. Balanced
    BY <1>1, <2>1, AloneIs DEF At, Idle
  <2>3. \A i \in Items : Pieces(i) \in Nat /\ wanted[i] \in Int /\ ordered[i] \in Nat
    BY PiecesTyped DEF ShopTypeInv, CartTyped
  <2> QED
    BY <1>2, <1>3, <2>1, <2>2, <2>3 DEF Balanced
<1> QED
  BY <1>1, <1>3, <1>4, CartWrites, ShownSound

LEMMA ChecksOutKeeps ==
  ASSUME ShopTypeInv, CartInv, NEW r \in Requests, ChecksOut(r)
  PROVE  CartInv'
<1>1. /\ CartTyped' /\ req[r] = Idle /\ UNCHANGED <<line, offer, wanted, ordered>>
      /\ \A s \in Requests \ {r} : req'[s] = req[s]
      /\ \/ req'[r] = Over
         \/ req'[r] \in Paying /\ req'[r].at = "place" /\ req'[r].taken = [i \in Items |-> Pieces(i)]
  BY ChecksOutMoves
<1>2. Races(r)
  BY DEF ChecksOut
<1>3. LinesStand'
  BY <1>1 DEF CartInv, LinesStand
<1>4. ASSUME ~raced'
      PROVE  Writing \ {r} = {} /\ LinesWhole' /\ CartCallSound(req[r])' /\ Balanced'
  <2>1. ~raced /\ Writing \ {r} = {}
    BY <1>2, <1>4, RacesTyped
  <2>2. LinesWhole'
    BY <1>1, <2>1 DEF CartInv, LinesWhole, Held
  <2>3. Balanced
    BY <1>1, <2>1, AloneIs DEF At, Idle
  <2>4. \A k \in Items : Pieces(k)' = Pieces(k)
    BY <1>1, CartStill
  <2>5. Balanced'
    BY <1>1, <2>3, <2>4 DEF Balanced
  <2>6. req'[r] # Over => CheckoutSound(req[r])'
    BY <1>1, <2>4 DEF CheckoutSound
  <2>7. CartCallSound(req[r])'
    BY <1>1, <2>6, KindsApart DEF CartCallSound
  <2> QED
    BY <2>1, <2>2, <2>5, <2>7
<1> QED
  BY <1>1, <1>3, <1>4, CartWrites

LEMMA PlacesKeeps ==
  ASSUME ShopTypeInv, CartInv, NEW r \in Requests, Places(r)
  PROVE  CartInv'
<1>1. /\ CartTyped' /\ UNCHANGED <<line, offer, wanted, raced>>
      /\ req[r] \in Paying /\ req[r].at = "place" /\ \A s \in Requests \ {r} : req'[s] = req[s]
      /\ req'[r] \in Paying /\ req'[r].at = "empty" /\ req'[r].taken = req[r].taken
      /\ ordered' = [i \in Items |-> ordered[i] + req[r].taken[i]]
  BY PlacesMoves
<1>2. LinesStand' /\ req[r].op = "checkout" /\ req'[r].op = "checkout"
  BY <1>1, KindsApart DEF CartInv, LinesStand
<1>3. ASSUME ~raced
      PROVE  Writing \ {r} = {} /\ LinesWhole' /\ CartCallSound(req[r])' /\ Emptying'
  <2>1. Writing \ {r} = {} /\ Balanced
    BY <1>1, <1>2, <1>3, AloneIs DEF At, WritingOps
  <2>2. LinesWhole'
    BY <1>1, <1>3 DEF CartInv, LinesWhole, Held
  <2>3. CheckoutSound(req[r])
    BY <1>2, <1>3 DEF CartInv, CallsSound, CartCallSound
  <2>4. \A k \in Items : Pieces(k)' = Pieces(k)
    BY <1>1, CartStill
  <2>5. \A i \in Items : Pieces(i) \in Nat /\ ordered[i] \in Nat /\ req'[r].taken[i] = Pieces(i)'
    BY <1>1, <2>3, <2>4, PiecesTyped DEF CheckoutSound, ShopTypeInv, CartTyped
  <2>6. \A i \in Items : ordered'[i] = wanted'[i]
    BY <1>1, <2>1, <2>4, <2>5 DEF Balanced
  <2>7. CheckoutSound(req[r])'
    BY <2>5, <2>6 DEF CheckoutSound
  <2>8. CartCallSound(req[r])'
    BY <1>2, <2>7 DEF CartCallSound
  <2>9. Emptying'
    BY <1>1, <1>2 DEF Emptying, At
  <2> QED
    BY <2>1, <2>2, <2>8, <2>9
<1> QED
  BY <1>1, <1>2, <1>3, CartWrites

LEMMA EmptiesKeeps ==
  ASSUME ShopTypeInv, CartInv, NEW r \in Requests, Empties(r) \/ CheckoutDies(r)
  PROVE  CartInv'
<1>1. /\ CartTyped' /\ UNCHANGED <<offer, wanted, ordered>>
      /\ req[r] \in Paying /\ req[r].at = "empty" /\ req'[r] = Over /\ \A s \in Requests \ {r} : req'[s] = req[s]
      /\ \/ Empties(r) /\ raced' = raced /\ \A l \in Lines : line'[l] = NoLine
         \/ CheckoutDies(r) /\ raced' /\ line' = line
  BY EmptiesMoves
<1>2. req[r].op = "checkout"
  BY <1>1, KindsApart
<1>3. CASE raced' /\ line' = line
  <2>1. LinesStand'
    BY <1>1, <1>3 DEF CartInv, LinesStand
  <2> QED
    BY <1>3, <2>1 DEF CartInv
<1>4. CASE raced' = raced /\ \A l \in Lines : line'[l] = NoLine
  <2>1. LinesStand' /\ LinesWhole' /\ \A i \in Items : Pieces(i)' = 0
    BY <1>4, EmptyCart
  <2>2. ASSUME ~raced
        PROVE  Writing \ {r} = {} /\ Balanced'
    <3>1. Writing \ {r} = {}
      BY <1>2, <2>2, AloneIs DEF WritingOps
    <3>2. \A i \in Items : ordered[i] = wanted[i] /\ ordered[i] \in Nat
      BY <1>1, <1>2, <2>2 DEF CartInv, CallsSound, CartCallSound, CheckoutSound, ShopTypeInv, CartTyped
    <3> QED
      BY <1>1, <2>1, <3>1, <3>2 DEF Balanced
  <2> QED
    BY <1>1, <1>4, <2>1, <2>2, CartWrites, ShownSound
<1> QED
  BY <1>1, <1>3, <1>4

LEMMA ShoppingKeeps ==
  ASSUME ShopTypeInv, CartInv, NEW r \in Requests, NextC(r)
  PROVE  CartInv'
<1>1. CASE \E i \in Items, os \in Maybe(Offers), n \in Quantities : Adds(r, i, os, n)
  BY <1>1, AddsKeeps
<1>2. CASE \E l \in Lines, ns \in Maybe(Quantities), oss \in Maybe(Maybe(Offers)) : Updates(r, l, ns, oss)
  BY <1>2, UpdatesKeeps
<1>3. CASE ValidatesAdd(r) \/ ChecksSame(r) \/ FindsLine(r) \/ ValidatesUpdate(r) \/ ChecksMultiple(r)
  BY <1>3, AddLooksKeeps, UpdateLooksKeeps
<1>4. CASE WritesLine(r) \/ UpdatesLine(r)
  BY <1>4, WritesLineKeeps, UpdatesLineKeeps
<1>5. CASE ClearsCart(r) \/ \E l \in Lines : Removes(r, l)
  BY <1>5, ClearsCartKeeps, RemovesKeeps
<1>6. CASE Gets(r) \/ Fetches(r) \/ Looks(r) \/ TakesOff(r)
  BY <1>6, ShowKeeps
<1>7. CASE ChecksOut(r) \/ Places(r) \/ Empties(r) \/ CheckoutDies(r)
  BY <1>7, ChecksOutKeeps, PlacesKeeps, EmptiesKeeps
<1> QED
  BY <1>1, <1>2, <1>3, <1>4, <1>5, <1>6, <1>7, ShoppingIs

LEMMA CartEnough == CartInv => CartIsWhole
<1> SUFFICES ASSUME CartInv
             PROVE  CartIsWhole
  OBVIOUS
<1>1. BundleLinesWhole
  BY DEF CartInv, LinesWhole, BundleLinesWhole
<1>2. Emptying => Running("checkout") # {}
  BY DEF Emptying, Running, At
<1>3. PiecesAreKept
  BY <1>2 DEF CartInv, Balanced, PiecesAreKept
<1> QED
  BY <1>1, <1>3 DEF CartIsWhole

-------------------------------------------------------------------------------
(* The shop as a whole.                                                      *)

ShopInv == ShopTypeInv /\ StockIsCounted /\ PartsInv /\ TreeInv /\ CartInv

LEMMA ShopStarts == Init => ShopInv
<1> SUFFICES ASSUME Init
             PROVE  ShopInv
  OBVIOUS
<1>1. \A r \in Requests : req[r] = Idle /\ req[r].op = "idle"
  BY DEF Init, NoRequests, Idle
<1>2. req \in [Requests -> SaveCalls \cup CollectCalls \cup CartCalls]
  BY IdleCarts DEF Init, NoRequests
<1> DEFINE p == CHOOSE x \in Ps : \E w \in Vs : OwnerOf[w] = x
           v == CHOOSE w \in Vs : OwnerOf[w] = p
<1>3. p \in Ps
  <2>1. \E x \in Ps : \E w \in Vs : OwnerOf[w] = x
    BY SomeVariant, OwnersOK
  <2> QED
    BY <2>1
<1>4. PICK st \in {"DRAFT", "PUBLISHED"}, stock \in {{}} \cup {{n} : n \in Counts},
           ls \in SUBSET ({p} \X Rows) :
        /\ product = [x \in Ps |-> IF x = p THEN st ELSE "none"]
        /\ part = [x \in Ps |-> [y \in ToSet(Parts) |-> IF x = p THEN 1 ELSE 0]]
        /\ variant = [w \in Vs |-> IF w = v THEN Live(stock) ELSE Unborn]
        /\ links = ls
        /\ book = [w \in Vs |-> IF w = v THEN stock ELSE {}]
        /\ stale = {} /\ died = {} /\ overlap = {}
  BY Zenon DEF Init, InitP
<1> HIDE DEF p, v
<1>5. ProductsTyped
  <2>1. stock \in Stocks /\ stock \in Books /\ {} \in Books
    BY CountsNat DEF Stocks, Books
  <2>2. Live(stock) \in VariantRows /\ Unborn \in VariantRows
    BY <2>1, LiveIs
  <2>3. product \in [Ps -> {"none", "gone", "DRAFT", "PUBLISHED"}]
    BY <1>4
  <2>4. part \in [Ps -> [PartNames -> Nat]]
    BY <1>4, PartNamesAre
  <2>5. variant \in [Vs -> VariantRows] /\ book \in [Vs -> Books]
    BY <1>4, <2>1, <2>2
  <2>6. Rows \subseteq Cats
    BY DEF Rows
  <2> QED
    BY <1>3, <1>4, <2>3, <2>4, <2>5, <2>6 DEF ProductsTyped
<1>6. CollectionsTyped /\ AllShown /\ \A c \in Cats : ParentOf(c) \subseteq Rows
  <2>1. cat \in [Cats -> {NoCat} \cup {Coll(x) : x \in {{}} \cup {{c} : c \in Owned}}]
    BY DEF Init, InitK
  <2>2. {NoCat} \cup {Coll(x) : x \in {{}} \cup {{c} : c \in Owned}} \subseteq CatRows
    BY OwnedCats DEF CatRows, Maybe
  <2>3. cat \in [Cats -> CatRows] /\ crossed \in BOOLEAN
    BY <2>1, <2>2 DEF Init, InitK
  <2>4. AllShown /\ \A c \in Rows : ParentOf(c) \subseteq Mine
    BY DEF Init, InitK
  <2>5. \A c \in Cats : ParentOf(c) \subseteq Rows
    BY <2>4 DEF ParentOf, Mine
  <2> QED
    BY <2>3, <2>4, <2>5 DEF CollectionsTyped
<1>7. CartTyped
  <2>1. {NoLine} \cup [item : {{i} : i \in Items}, offer : {{}} \cup {{o} : o \in Offers}, qty : Quantities] \subseteq LineRows
    BY QuantitiesPositive DEF LineRows, Maybe
  <2>2. line \in [Lines -> LineRows]
    BY <2>1 DEF Init, InitC
  <2>3. offer \in [Offers -> {"live", "off", "gone"}] /\ raced \in BOOLEAN /\ ordered \in [Items -> Nat]
    BY DEF Init, InitC
  <2>4. wanted \in [Items -> Int]
    <3>1. \A i \in Items : Pieces(i) \in Nat
      <4> SUFFICES ASSUME NEW i \in Items
                   PROVE  Pieces(i) \in Nat
        OBVIOUS
      <4>1. {k \in Held : line[k].item = {i}} \subseteq Lines
        BY DEF Held
      <4> QED
        BY <2>2, <4>1, WithinFinite DEF Pieces, Within
    <3> QED
      BY <3>1 DEF Init, InitC
  <2> QED
    BY <2>2, <2>3, <2>4 DEF CartTyped
<1>8. ShopTypeInv
  BY <1>2, <1>5, <1>6, <1>7 DEF ShopTypeInv
<1>9. StockIsCounted
  BY <1>4, LiveIs DEF StockIsCounted, IsLive
<1>10. PartsInv
  BY <1>1, <1>3, <1>4, PartNamesAre DEF PartsInv, PastRow, Sound, Existing
<1>11. TreeInv
  BY <1>1, <1>6 DEF TreeInv, Moving
<1>12. CartInv
  <2>1. LinesStand
    <3>1. offer \in [Offers -> {"live", "off"}]
      BY DEF Init, InitC
    <3>2. \A l \in Lines : line[l].offer \subseteq Offers
      BY <1>7, LineIs DEF CartTyped
    <3> QED
      BY <3>1, <3>2 DEF LinesStand
  <2>2. Writing = {}
    BY <1>1 DEF Writing, InFlight
  <2>3. LinesWhole
    BY DEF Init, InitC, LinesWhole
  <2>4. CallsSound
    BY <1>1 DEF CallsSound, CartCallSound
  <2>5. Balanced
    BY <1>8, PiecesTyped DEF Balanced, Init, InitC
  <2> QED
    BY <2>1, <2>2, <2>3, <2>4, <2>5 DEF CartInv, OneWrites
<1> QED
  BY <1>8, <1>9, <1>10, <1>11, <1>12 DEF ShopInv

LEMMA SellingKeeps ==
  ASSUME ShopInv, NEW r \in Requests, Selling(r)
  PROVE  ShopInv'
<1>1. ShopTypeInv /\ NextP(r) /\ UNCHANGED varsK /\ UNCHANGED varsC
  BY DEF ShopInv, Selling
<1>2. Moves(r, SaveCalls) /\ ProductsTyped'
  BY <1>1, SellingMoves
<1>3. /\ req' \in [Requests -> SaveCalls \cup CollectCalls \cup CartCalls]
      /\ req[r] \in SaveCalls /\ req'[r] \in SaveCalls /\ \A s \in Requests \ {r} : req'[s] = req[s]
  BY <1>1, <1>2, MovesTyped
<1>4. cat' = cat
  BY <1>1 DEF NextP, Opens, SavesRow, SavesVariants, FreesLinks, Attaches, ChecksBundles, ClearsPart, CreatesPart, SaveDies,
              Creates, SetsStatus, Deletes, Duplicates, AddsVariant, SetsStock, DeletesVariant, Sold, varsP, rowsP
<1>5. crossed' = crossed /\ CollectionsTyped' /\ CartTyped'
  BY <1>1, <1>4 DEF varsK, varsC, ShopTypeInv, CollectionsTyped, CartTyped
<1>6. ShopTypeInv'
  BY <1>2, <1>3, <1>5 DEF ShopTypeInv
<1>7. StockIsCounted' /\ PartsInv'
  BY <1>1, <1>6, StockSelling, PartsSelling DEF ShopInv
<1>8. TreeInv'
  <2>1. req'[r].op \notin {"newcat", "edit"}
    BY <1>3, KindsApart DEF SaveCalls
  <2> QED
    BY <1>1, <1>3, <1>4, <1>5, <2>1, TreeUntouched DEF ShopInv
<1>9. CartInv'
  BY <1>1, <1>2, OthersKeep DEF ShopInv
<1> QED
  BY <1>6, <1>7, <1>8, <1>9 DEF ShopInv

\* What the others leave of the products.
LEMMA GoodsStay ==
  ASSUME ShopInv, NEW r \in Requests, NEW S \in {CollectCalls, CartCalls}, Moves(r, S), UNCHANGED goods
  PROVE  StockIsCounted' /\ PartsInv'
<1>1. ShopTypeInv /\ StockIsCounted /\ PartsInv /\ UNCHANGED <<product, part, variant, book, stale, died, overlap>>
  BY DEF ShopInv, goods, histP
<1>2. req[r] \in S /\ req'[r] \in S /\ \A s \in Requests \ {r} : req'[s] = req[s]
  BY <1>1, MovesTyped
<1>3. req[r].op # "save" /\ req'[r].op # "save"
  BY <1>2, KindsApart DEF CollectCalls, CartCalls
<1>4. StockIsCounted'
  BY <1>1 DEF StockIsCounted, IsLive
<1>5. PartsInv'
  BY <1>1, <1>2, <1>3, PartsAside DEF Existing
<1> QED
  BY <1>4, <1>5

LEMMA CollectingKeeps ==
  ASSUME ShopInv, NEW r \in Requests, Collecting(r)
  PROVE  ShopInv'
<1>1. ShopTypeInv /\ NextK(r) /\ UNCHANGED varsC
  BY DEF ShopInv, Collecting
<1>2. Moves(r, CollectCalls) /\ CollectionsTyped' /\ UNCHANGED goods /\ links' \subseteq Ps \X Cats
  BY <1>1, CollectingMoves DEF Collects
<1>3. ShopTypeInv'
  <2>1. ProductsTyped' /\ CartTyped'
    BY <1>1, <1>2 DEF goods, histP, varsC, ShopTypeInv, ProductsTyped, CartTyped
  <2> QED
    BY <1>1, <1>2, <2>1, MovesTyped DEF ShopTypeInv
<1>4. StockIsCounted' /\ PartsInv'
  BY <1>2, GoodsStay
<1>5. TreeInv' /\ CartInv'
  BY <1>1, <1>2, TreeCollecting, OthersKeep DEF ShopInv
<1> QED
  BY <1>3, <1>4, <1>5 DEF ShopInv

LEMMA CustomerKeeps ==
  ASSUME ShopInv, NEW r \in Requests, Shopping(r)
  PROVE  ShopInv'
<1>1. ShopTypeInv /\ NextC(r) /\ UNCHANGED varsP /\ UNCHANGED varsK
  BY DEF ShopInv, Shopping
<1>2. Moves(r, CartCalls) /\ CartTyped'
  BY <1>1, ShoppingMoves
<1>3. ShopTypeInv' /\ UNCHANGED goods
  <2>1. ProductsTyped' /\ CollectionsTyped' /\ UNCHANGED goods
    BY <1>1 DEF goods, histP, varsP, varsK, ShopTypeInv, ProductsTyped, CollectionsTyped
  <2> QED
    BY <1>1, <1>2, <2>1, MovesTyped DEF ShopTypeInv
<1>4. StockIsCounted' /\ PartsInv'
  BY <1>2, <1>3, GoodsStay
<1>5. TreeInv'
  <2>1. req'[r].op \notin {"newcat", "edit"} /\ \A s \in Requests \ {r} : req'[s] = req[s]
    BY <1>1, <1>2, MovesTyped, KindsApart DEF CartCalls
  <2>2. cat' = cat /\ crossed' = crossed
    BY <1>1 DEF varsP, varsK
  <2> QED
    BY <1>1, <2>1, <2>2, TreeUntouched DEF ShopInv
<1>6. CartInv'
  BY <1>1, ShoppingKeeps DEF ShopInv
<1> QED
  BY <1>3, <1>4, <1>5, <1>6 DEF ShopInv

\* Without a change to the products, the collections and the requests.
LEMMA CatalogueStill ==
  ASSUME ShopInv, UNCHANGED <<varsP, varsK, req>>
  PROVE  ProductsTyped' /\ CollectionsTyped' /\ StockIsCounted' /\ PartsInv' /\ TreeInv'
<1>1. UNCHANGED <<product, part, variant, cat, links, book, stale, died, overlap, sort, crossed, req>>
  BY DEF varsP, varsK
<1>2. ProductsTyped' /\ CollectionsTyped' /\ StockIsCounted'
  BY <1>1 DEF ShopInv, ShopTypeInv, ProductsTyped, CollectionsTyped, StockIsCounted, IsLive
<1>3. PartsInv'
  BY <1>1 DEF ShopInv, PartsInv, Sound, Existing, PastRow, Missing
<1>4. TreeInv'
  <2>1. TreeInv /\ Rows' = Rows /\ (\A c : ParentOf(c)' = ParentOf(c)) /\ (AllShown => AllShown')
    BY <1>1, TreeStands DEF ShopInv
  <2>2. \A r \in Requests : Climbs(req[r]) => Climbs(req[r])'
    BY <1>1, ClimbsOn
  <2> QED
    BY <1>1, <2>1, <2>2 DEF TreeInv, Moving
<1> QED
  BY <1>2, <1>3, <1>4

LEMMA OffersKeep ==
  ASSUME ShopInv, Offering
  PROVE  ShopInv'
<1>1. PICK o \in Offers : OfferChanges(o) /\ UNCHANGED <<varsP, varsK>>
  BY DEF Offering
<1>2. ShopTypeInv /\ CartInv /\ UNCHANGED req
  BY <1>1 DEF ShopInv, OfferChanges
<1>3. ProductsTyped' /\ CollectionsTyped' /\ StockIsCounted' /\ PartsInv' /\ TreeInv'
  BY <1>1, <1>2, CatalogueStill
<1>4. CartTyped' /\ CartInv'
  BY <1>1, <1>2, OfferChangesMoves, OfferingKeeps
<1>5. ShopTypeInv'
  BY <1>2, <1>3, <1>4 DEF ShopTypeInv
<1> QED
  BY <1>3, <1>4, <1>5 DEF ShopInv

LEMMA ShopRests ==
  ASSUME ShopInv, UNCHANGED varsShop
  PROVE  ShopInv'
<1>1. UNCHANGED <<varsP, varsK, req>> /\ UNCHANGED <<line, offer, wanted, ordered, raced>>
  BY DEF varsShop, varsC
<1>2. ProductsTyped' /\ CollectionsTyped' /\ StockIsCounted' /\ PartsInv' /\ TreeInv'
  BY <1>1, CatalogueStill
<1>3. CartTyped' /\ ShopTypeInv'
  BY <1>1, <1>2 DEF ShopInv, ShopTypeInv, CartTyped
<1>4. LinesStand'
  BY <1>1 DEF ShopInv, CartInv, LinesStand
<1>5. CartInv'
  BY <1>1, <1>3, <1>4, CartThins DEF ShopInv
<1> QED
  BY <1>2, <1>3, <1>5 DEF ShopInv

LEMMA ShopMoves == ShopInv /\ [ShopNext]_varsShop => ShopInv'
BY SellingKeeps, CollectingKeeps, CustomerKeeps, OffersKeep, ShopRests DEF ShopNext

LEMMA ShopInvariant == ShopSpec => []ShopInv
BY ShopStarts, ShopMoves, PTL DEF ShopSpec

\* The rows of the shop, and every request in whatever step it stands, are
\* what the handlers expect of them.
THEOREM ShopTyped == ShopSpec => []ShopTypeInv
<1>1. ShopInv => ShopTypeInv
  BY DEF ShopInv
<1> QED
  BY <1>1, ShopInvariant, PTL

\* A variant is offered in the stock the seller last counted, less what was
\* sold since, however saves, single updates, copies and orders interleave;
\* only a save that carries a figure read before a sale puts it back
\* (products.service update, orders.service create).
THEOREM StockStaysCounted == ShopSpec => []StockIsCounted
<1>1. ShopInv => StockIsCounted
  BY DEF ShopInv
<1> QED
  BY <1>1, ShopInvariant, PTL

\* A product has its translations, attributes and tags exactly once outside
\* of a save, unless one stopped half way or two of them overlapped, and every
\* collection of the creator hangs below a root, unless two moves overlapped
\* (products.service update, creator-categories.service assertNoCycle).
THEOREM CatalogueStaysWhole == ShopSpec => []CatalogueIsWhole
<1>1. ShopInv => CatalogueIsWhole
  BY PartsEnough, TreeEnough DEF ShopInv, CatalogueIsWhole
<1> QED
  BY <1>1, ShopInvariant, PTL

\* A bundle offer stands on a line only in a quantity it divides, and each
\* piece the customer asked for is in the cart or in an order, once, unless
\* two requests of the customer overlapped or a checkout crashed
\* (cart.service addItem, updateItem; orders.service create).
THEOREM CartStaysWhole == ShopSpec => []CartIsWhole
<1>1. ShopInv => CartIsWhole
  BY CartEnough DEF ShopInv
<1> QED
  BY <1>1, ShopInvariant, PTL
=============================================================================
