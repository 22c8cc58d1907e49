---------------------------- MODULE StorefrontProofs ----------------------------
(***************************************************************************)
(* Proofs about what a visitor meets: the site of a store (Site), for any  *)
(* pages, kits, presets, translated rows, locales and numbers of requests, *)
(* and what a basket costs and is shown to cost (Pricing, Shown), for any  *)
(* shop, basket and edits of the shop between the quote and the order.     *)
(***************************************************************************)
EXTENDS Site, Pricing, FiniteSetTheorems, SequenceTheorems, WellFoundedInduction, TLAPS

-----------------------------------------------------------------------------
(* Numbers.                                                                 *)

LEMMA HasLeast ==
  ASSUME NEW X, X \subseteq Nat, X # {}
  PROVE  \E x \in X : \A y \in X : x <= y
<1> DEFINE R == {r \in Nat \X Nat : r[1] < r[2]}
<1>1. IsWellFoundedOn(R, Nat)
  BY NatLessThanWellFounded DEF OpToRel
<1>2. \E x \in X : \A y \in X : <<y, x>> \notin R
  <2> HIDE DEF R
  <2> QED
    BY <1>1, WFMin
<1>3. PICK x \in X : \A y \in X : ~(y < x)
  BY <1>2
<1> QED
  BY <1>3

-----------------------------------------------------------------------------
(* Requests.                                                                *)

IsFun(f, X) == f = [x \in X |-> f[x]]

LEMMA StartMoves ==
  ASSUME IsFun(req, Requests), NEW r \in Requests, NEW q, Start(r, q)
  PROVE  /\ IsFun(req', Requests) /\ req'[r] = q
         /\ \A s \in Requests \ {r} : req'[s] = req[s]
BY DEF Start, IsFun

LEMMA EndMoves ==
  ASSUME IsFun(req, Requests), NEW r \in Requests, Ends(r)
  PROVE  /\ IsFun(req', Requests) /\ req'[r] = Over
         /\ \A s \in Requests \ {r} : req'[s] = req[s]
BY DEF Ends, Done, IsFun

-----------------------------------------------------------------------------
(* Translated rows: what is written is what was sent.                       *)

DocOps   == {"saveDoc", "merge", "translate", "bulk"}
DocCalls ==
  [op : {"saveDoc"}, d : Docs, at : {"clear", "write"}, status : {"DRAFT", "PUBLISHED"},
   given : BOOLEAN, locales : SUBSET Locales]
    \cup [op : {"merge"}, d : Docs, seen : SUBSET Locales, locales : SUBSET Locales]
    \cup [op : {"translate"}, d : Docs, target : Locales]
    \cup [op : {"bulk"}, target : Locales, todo : SUBSET Docs]

\* A row of texts that was made, and is not saved by merging.
Made(d) == doc[d] # Unwritten /\ KindOf[d] \notin Merging

\* What a request on translated rows knows of them.
DocCall(q) ==
  q.op \in DocOps =>
    /\ q \in DocCalls
    /\ q.op = "saveDoc" => Made(q.d) /\ (~q.given => q.at = "write" /\ q.locales = {})
    /\ q.op = "merge" => KindOf[q.d] \in Merging
    /\ q.op = "translate" => Made(q.d)
    /\ q.op = "bulk" => \A d \in q.todo : Made(d)

DocTyped ==
  /\ IsFun(req, Requests)
  /\ doc \in [Docs -> DocRows] /\ meant \in [Docs -> SUBSET Locales] /\ torn \subseteq Docs
  /\ \A d \in Of(Merging) : There(d) => doc[d].on = d
  /\ \A r \in Requests : DocCall(req[r])

\* Saves that have deleted the texts of a row and not written theirs.
Cleared(d) == {r \in Running("saveDoc") : req[r].d = d /\ req[r].at = "write" /\ req[r].given}

\* A row nobody tore has the texts meant for it, or none while its save is
\* between the two; who merges still knows them all.
Keeps(d) ==
  /\ There(d) => doc[d].locales = IF Cleared(d) = {} THEN meant[d] ELSE {}
  /\ KindOf[d] \in Merging => /\ Of1(d) = meant[d]
                              /\ \A r \in Running("merge") : req[r].d = d => req[r].seen = Of1(d)

DocInv == DocTyped /\ \A d \in Docs \ torn : Keeps(d)

LEMMA DocInvKeeps == DocInv => TextsAreKept
<1> SUFFICES ASSUME DocInv, NEW d \in Docs \ torn, There(d), Writers(d) = {}
             PROVE  doc[d].locales = meant[d]
  BY DEF TextsAreKept
<1>1. Cleared(d) \subseteq Writers(d)
  BY DEF Cleared, Writers
<1> QED
  BY <1>1 DEF DocInv, Keeps

LEMMA OtherOps ==
  /\ Idle.op \notin DocOps /\ Over.op \notin DocOps
  /\ DocCall(Idle) /\ DocCall(Over)
  /\ \A r : req[r] = Idle => req[r].op \notin DocOps
BY DEF Idle, Over, DocOps, DocCall

\* A step that leaves the rows alone and moves one request, which did not hold
\* the only clearing of a row, is none of the rows' business.
LEMMA RowsAside ==
  ASSUME DocInv, NEW r \in Requests, IsFun(req', Requests), UNCHANGED <<doc, meant, torn>>,
         \A s \in Requests \ {r} : req'[s] = req[s],
         DocCall(req'[r]),
         ~(req[r].op = "saveDoc" /\ req[r].at = "write" /\ req[r].given),
         ~(req'[r].op = "saveDoc" /\ req'[r].at = "write" /\ req'[r].given),
         req'[r].op = "merge" => req'[r].seen = Of1(req'[r].d)
  PROVE  DocInv'
<1>1. \A s \in Requests : DocCall(req'[s])
  BY DEF DocInv, DocTyped
<1>2. DocTyped'
  BY <1>1 DEF DocInv, DocTyped, There, DocCall, Made
<1>3. ASSUME NEW d \in Docs \ torn PROVE Keeps(d)'
  <2>1. Keeps(d)
    BY DEF DocInv
  <2>2. Cleared(d)' = Cleared(d)
    BY DEF Cleared, Running
  <2>3. Of1(d)' = Of1(d) /\ (There(d)' <=> There(d))
    BY DEF Of1, There
  <2>4. ASSUME KindOf[d] \in Merging, NEW s \in Running("merge")', req'[s].d = d
        PROVE  req'[s].seen = Of1(d)
    BY <2>1, <2>3, <2>4 DEF Keeps, Running, Of1, There
  <2> QED
    BY <2>1, <2>2, <2>3, <2>4 DEF Keeps
<1> QED
  BY <1>2, <1>3 DEF DocInv
LEMMA SavesStart ==
  ASSUME DocInv, NEW r \in Requests, NEW d \in Docs, Made(d), NEW status \in {"DRAFT", "PUBLISHED"},
         NEW given \in BOOLEAN, NEW locales \in SUBSET Locales, Saves(r, d, status, given, locales)
  PROVE  DocInv'
<1> DEFINE q == [op |-> "saveDoc", d |-> d, at |-> IF given THEN "clear" ELSE "write",
                 status |-> status, given |-> given, locales |-> IF given THEN locales ELSE {}]
<1>1. Start(r, q) /\ req[r] = Idle /\ UNCHANGED <<doc, meant, torn>>
  BY DEF Saves, Arrives, varsT
<1>2. /\ IsFun(req', Requests) /\ req'[r] = q
      /\ \A s \in Requests \ {r} : req'[s] = req[s]
  BY <1>1, StartMoves DEF DocInv, DocTyped
<1>3. DocCall(q) /\ q.op = "saveDoc" /\ ~(q.at = "write" /\ q.given)
  BY DEF DocCall, DocCalls
<1> HIDE DEF q
<1> QED
  BY <1>1, <1>2, <1>3, OtherOps, RowsAside DEF DocOps

LEMMA SeenStart ==
  ASSUME DocInv, NEW r \in Requests, NEW d \in Of(Merging), NEW locales \in SUBSET Locales,
         Seen(r, d, locales)
  PROVE  DocInv'
<1> DEFINE q == [op |-> "merge", d |-> d, seen |-> Of1(d), locales |-> locales]
<1>1. Start(r, q) /\ req[r] = Idle /\ UNCHANGED <<doc, meant, torn>>
  BY DEF Seen, Arrives, varsT
<1>2. /\ IsFun(req', Requests) /\ req'[r] = q
      /\ \A s \in Requests \ {r} : req'[s] = req[s]
  BY <1>1, StartMoves DEF DocInv, DocTyped
<1>3. d \in Docs /\ KindOf[d] \in Merging /\ Of1(d) \in SUBSET Locales
  BY DEF Of, Of1, There, DocInv, DocTyped, DocRows
<1>4. DocCall(q) /\ q.op = "merge" /\ q.seen = Of1(q.d)
  BY <1>3 DEF DocCall, DocCalls
<1> HIDE DEF q
<1> QED
  BY <1>1, <1>2, <1>4, OtherOps, RowsAside DEF DocOps

LEMMA TranslatesStart ==
  ASSUME DocInv, NEW r \in Requests, NEW d \in Docs, NEW source \in Locales, NEW target \in Locales,
         Translates(r, d, source, target)
  PROVE  DocInv'
<1> DEFINE q == [op |-> "translate", d |-> d, target |-> target]
<1>1. (Start(r, q) \/ Ends(r)) /\ req[r] = Idle /\ UNCHANGED <<doc, meant, torn>>
  BY DEF Translates, Arrives, varsT
<1>2. Made(d)
  BY DEF Translates, MayTranslate, Made, Merging, There
<1>3. DocCall(q) /\ q.op = "translate"
  BY <1>2 DEF DocCall, DocCalls
<1> HIDE DEF q
<1>4. /\ IsFun(req', Requests) /\ req'[r] \in {q, Over}
      /\ \A s \in Requests \ {r} : req'[s] = req[s]
  BY <1>1, StartMoves, EndMoves DEF DocInv, DocTyped
<1> QED
  BY <1>1, <1>3, <1>4, OtherOps, RowsAside DEF DocOps

LEMMA BulkStart ==
  ASSUME DocInv, NEW r \in Requests, NEW source \in Locales, NEW target \in Locales,
         StartsBulk(r, source, target)
  PROVE  DocInv'
<1> DEFINE q == [op |-> "bulk", target |-> target, todo |-> Wanting(source, target)]
<1>1. (Start(r, q) \/ Ends(r)) /\ req[r] = Idle /\ UNCHANGED <<doc, meant, torn>>
  BY DEF StartsBulk, Arrives, varsT
<1>2. \A d \in Wanting(source, target) : d \in Docs /\ Made(d)
  BY DEF Wanting, Of, Made, Merging, There
<1>3. DocCall(q) /\ q.op = "bulk"
  BY <1>2 DEF DocCall, DocCalls
<1> HIDE DEF q
<1>4. /\ IsFun(req', Requests) /\ req'[r] \in {q, Over}
      /\ \A s \in Requests \ {r} : req'[s] = req[s]
  BY <1>1, StartMoves, EndMoves DEF DocInv, DocTyped
<1> QED
  BY <1>1, <1>3, <1>4, OtherOps, RowsAside DEF DocOps

\* A step of a request at one row, which it tears if anybody else is at it.
LEMMA RowWritten ==
  ASSUME DocInv, NEW r \in Requests, NEW d \in Docs, IsFun(req', Requests),
         \A s \in Requests \ {r} : req'[s] = req[s],
         DocCall(req[r])',
         doc' \in [Docs -> DocRows], meant' \in [Docs -> SUBSET Locales],
         \A x \in Docs \ {d} : doc'[x] = doc[x] /\ meant'[x] = meant[x],
         Made(d) => doc'[d] # Unwritten,
         d \in Of(Merging) /\ There(d)' => doc'[d].on = d,
         torn' \subseteq Docs, torn \ {d} = torn' \ {d},
         \A x \in Docs \ {d} : Cleared(x)' = Cleared(x),
         req'[r].op # "merge",
         d \notin torn' => Writers(d) \subseteq {r} /\ Keeps(d)'
  PROVE  DocInv'
<1>1. ASSUME NEW x \in Docs, Made(x) PROVE Made(x)'
  BY <1>1 DEF Made
<1>2. ASSUME NEW s \in Requests PROVE DocCall(req[s])'
  <2>1. DocCall(req[s])
    BY DEF DocInv, DocTyped
  <2>2. CASE s # r
    BY <1>1, <2>1, <2>2 DEF DocCall, DocCalls
  <2> QED
    BY <2>2
<1>3. DocTyped'
  BY <1>2 DEF DocInv, DocTyped, There, Of
<1>4. ASSUME NEW x \in Docs \ torn', x # d PROVE Keeps(x)'
  <2>1. Keeps(x) /\ x \notin torn
    BY <1>4 DEF DocInv
  <2>2. doc'[x] = doc[x] /\ meant'[x] = meant[x] /\ Cleared(x)' = Cleared(x)
    BY <1>4
  <2>3. Of1(x)' = Of1(x) /\ (There(x)' <=> There(x))
    BY <2>2 DEF Of1, There
  <2>4. ASSUME NEW s \in Running("merge")', req'[s].d = x PROVE s \in Running("merge") /\ req'[s] = req[s]
    BY <2>4 DEF Running
  <2> QED
    BY <2>1, <2>2, <2>3, <2>4 DEF Keeps
<1> QED
  BY <1>3, <1>4 DEF DocInv

LEMMA TearFacts ==
  ASSUME DocInv, NEW r \in Requests, NEW d \in Docs, Tear(r, d)
  PROVE  /\ torn' \subseteq Docs /\ torn \ {d} = torn' \ {d}
         /\ d \notin torn' => d \notin torn /\ Writers(d) \subseteq {r}
BY DEF Tear, DocInv, DocTyped

\* A request that is not between the halves of a save, before the step or after
\* it, leaves what is cleared as it was.
LEMMA ClearedSame ==
  ASSUME NEW r \in Requests, \A s \in Requests \ {r} : req'[s] = req[s], NEW x,
         ~(req[r].op = "saveDoc" /\ req[r].d = x /\ req[r].at = "write" /\ req[r].given),
         ~(req'[r].op = "saveDoc" /\ req'[r].d = x /\ req'[r].at = "write" /\ req'[r].given)
  PROVE  Cleared(x)' = Cleared(x)
BY DEF Cleared, Running

LEMMA CreatesKeeps ==
  ASSUME DocInv, NEW r \in Requests, NEW d \in Docs, NEW on \in Docs, NEW locales \in SUBSET Locales,
         KindOf[d] \notin Merging, Creates(r, d, on, locales)
  PROVE  DocInv'
<1>1. /\ req[r] = Idle /\ Ends(r) /\ doc[d] = Unwritten
      /\ doc' = [doc EXCEPT ![d] = Doc(on, locales)] /\ meant' = [meant EXCEPT ![d] = locales]
      /\ torn' = torn \ {d}
  BY DEF Creates, Arrives
<1>2. /\ IsFun(req', Requests) /\ req'[r] = Over
      /\ \A s \in Requests \ {r} : req'[s] = req[s]
  BY <1>1, EndMoves DEF DocInv, DocTyped
<1>3. Doc(on, locales) \in DocRows /\ Doc(on, locales) # Unwritten /\ Doc(on, locales).locales = locales
      /\ Doc(on, locales) # Gone
  BY DEF Doc, DocRows, Unwritten, Gone
<1>4. doc' \in [Docs -> DocRows] /\ meant' \in [Docs -> SUBSET Locales]
      /\ doc'[d] = Doc(on, locales) /\ meant'[d] = locales
      /\ \A x \in Docs \ {d} : doc'[x] = doc[x] /\ meant'[x] = meant[x]
  BY <1>1, <1>3 DEF DocInv, DocTyped
<1>5. \A x : Cleared(x)' = Cleared(x)
  BY <1>1, <1>2, OtherOps, ClearedSame DEF DocOps
<1>6. Cleared(d) = {}
  BY <1>1 DEF Cleared, Running, DocInv, DocTyped, DocCall, DocOps, Made
<1>7. Keeps(d)'
  BY <1>3, <1>4, <1>5, <1>6 DEF Keeps, There
<1>8. Writers(d) = {}
  <2>1. ASSUME NEW s \in Writers(d) PROVE FALSE
    <3>1. DocCall(req[s]) /\ s \in Requests
      BY DEF Writers, Running, DocInv, DocTyped
    <3> QED
      BY <1>1, <2>1, <3>1 DEF Writers, Running, DocCall, DocOps, Made
  <2> QED
    BY <2>1
<1>9. DocCall(req[r])' /\ req'[r].op # "merge"
  BY <1>2, OtherOps DEF DocOps, DocCall
<1> QED
  BY <1>1, <1>2, <1>3, <1>4, <1>5, <1>7, <1>8, <1>9, RowWritten DEF DocInv, DocTyped, Of

LEMMA ClearsKeeps ==
  ASSUME DocInv, NEW r \in Requests, Clears(r)
  PROVE  DocInv'
<1>0. PICK d : d = req[r].d
  OBVIOUS
<1> DEFINE q == [req[r] EXCEPT !.at = "write"]
<1>1. req[r].op = "saveDoc" /\ req[r].at = "clear" /\ GoesTo(r, "write") /\ Tear(r, d) /\ meant' = meant
      /\ doc' = IF There(d) THEN [doc EXCEPT ![d].locales = {}] ELSE doc
  BY <1>0 DEF Clears, At
<1>2. DocCall(req[r]) /\ req[r] \in DocCalls /\ d \in Docs /\ Made(d) /\ req[r].given
  BY <1>0, <1>1 DEF DocInv, DocTyped, DocCall, DocCalls, DocOps
<1>3. q \in DocCalls /\ q.op = "saveDoc" /\ q.at = "write" /\ q.d = d /\ q.given
  BY <1>0, <1>1, <1>2 DEF DocCalls
<1>4. /\ IsFun(req', Requests) /\ req'[r] = q
      /\ \A s \in Requests \ {r} : req'[s] = req[s]
  BY <1>1 DEF GoesTo, IsFun, DocInv, DocTyped
<1> HIDE DEF q
<1>5. /\ doc' \in [Docs -> DocRows] /\ \A x \in Docs \ {d} : doc'[x] = doc[x]
      /\ doc'[d] # Unwritten /\ (There(d)' => doc'[d].locales = {})
  <2>1. CASE There(d)
    <3>1. [doc[d] EXCEPT !.locales = {}] \in DocRows \ {Unwritten}
          /\ [doc[d] EXCEPT !.locales = {}].locales = {}
      BY <1>2, <2>1 DEF DocInv, DocTyped, DocRows, There, Unwritten
    <3> QED
      BY <1>1, <1>2, <2>1, <3>1 DEF DocInv, DocTyped
  <2>2. CASE ~There(d)
    BY <1>1, <1>2, <2>2 DEF DocInv, DocTyped, There, Made
  <2> QED
    BY <2>1, <2>2
<1>6. /\ torn' \subseteq Docs /\ torn \ {d} = torn' \ {d}
      /\ d \notin torn' => d \notin torn /\ Writers(d) \subseteq {r}
  BY <1>1, <1>2, TearFacts
<1>7. r \in Cleared(d)'
  BY <1>3, <1>4 DEF Cleared, Running
<1>8. \A x \in Docs \ {d} : Cleared(x)' = Cleared(x)
  BY <1>0, <1>1, <1>3, <1>4, ClearedSame
<1>9. KindOf[d] \notin Merging
  BY <1>2 DEF Made
<1>10. Keeps(d)'
  BY <1>5, <1>7, <1>9 DEF Keeps
<1>11. DocCall(req[r])' /\ req'[r].op # "merge"
  BY <1>2, <1>3, <1>4, <1>5 DEF DocCall, Made
<1> QED
  BY <1>1, <1>2, <1>4, <1>5, <1>6, <1>8, <1>9, <1>10, <1>11, RowWritten DEF DocInv, DocTyped, Of

LEMMA WritesKeeps ==
  ASSUME DocInv, NEW r \in Requests, Writes(r)
  PROVE  DocInv'
<1>0. PICK q, d : q = req[r] /\ d = q.d
  OBVIOUS
<1> DEFINE taken == There(d) /\ doc[d].locales \cap q.locales = {}
<1>1. /\ q.op = "saveDoc" /\ q.at = "write" /\ Ends(r) /\ Tear(r, d)
      /\ doc' = IF taken THEN [doc EXCEPT ![d] = Written(q, @)] ELSE doc
      /\ meant' = IF taken /\ q.given THEN [meant EXCEPT ![d] = q.locales] ELSE meant
  BY <1>0 DEF Writes, At
<1>2. DocCall(q) /\ q \in DocCalls /\ d \in Docs /\ Made(d) /\ (~q.given => q.locales = {})
      /\ q.locales \in SUBSET Locales /\ q.status \in {"DRAFT", "PUBLISHED"}
  BY <1>0, <1>1 DEF DocInv, DocTyped, DocCall, DocCalls, DocOps
<1>3. /\ IsFun(req', Requests) /\ req'[r] = Over
      /\ \A s \in Requests \ {r} : req'[s] = req[s]
  BY <1>1, EndMoves DEF DocInv, DocTyped
<1>4. /\ torn' \subseteq Docs /\ torn \ {d} = torn' \ {d}
      /\ d \notin torn' => d \notin torn /\ Writers(d) \subseteq {r}
  BY <1>1, <1>2, TearFacts
<1>5. r \in Cleared(d) <=> q.given
  BY <1>0, <1>1 DEF Cleared, Running
<1>7. \A x \in Docs : x # d => Cleared(x)' = Cleared(x)
  BY <1>0, <1>3, OtherOps, ClearedSame DEF DocOps
<1>8. Cleared(d)' = Cleared(d) \ {r}
  BY <1>3, OtherOps DEF DocOps, Cleared, Running
<1>9. Cleared(d) \subseteq Writers(d)
  BY DEF Cleared, Writers
<1>10. taken => /\ Written(q, doc[d]) \in DocRows \ {Unwritten, Gone}
                /\ Written(q, doc[d]).locales = doc[d].locales \cup q.locales
  BY <1>2 DEF Written, DocRows, There, DocInv, DocTyped, Unwritten, Gone
<1>11. /\ doc' \in [Docs -> DocRows] /\ meant' \in [Docs -> SUBSET Locales]
       /\ \A x \in Docs \ {d} : doc'[x] = doc[x] /\ meant'[x] = meant[x]
       /\ doc'[d] # Unwritten
       /\ taken => There(d)' /\ doc'[d].locales = doc[d].locales \cup q.locales
       /\ meant'[d] = IF taken /\ q.given THEN q.locales ELSE meant[d]
       /\ ~taken => doc'[d] = doc[d]
  BY <1>1, <1>2, <1>10 DEF DocInv, DocTyped, There, Made
<1>12. d \notin torn' => Keeps(d)'
  <2> SUFFICES ASSUME d \notin torn' PROVE Keeps(d)'
    OBVIOUS
  <2>1. Keeps(d) /\ Cleared(d)' = {} /\ KindOf[d] \notin Merging
    BY <1>2, <1>4, <1>8, <1>9 DEF DocInv, Made
  <2>2. CASE taken
    <3>1. q.given => doc[d].locales = {}
      BY <1>5, <2>1, <2>2 DEF Keeps
    <3>2. ~q.given => Cleared(d) = {}
      BY <1>4, <1>5, <1>9
    <3> QED
      BY <1>2, <1>11, <2>1, <2>2, <3>1, <3>2 DEF Keeps
  <2>3. CASE ~taken
    <3>1. There(d) => ~q.given
      BY <1>5, <2>1, <2>3 DEF Keeps
    <3>2. ~q.given => Cleared(d) = {}
      BY <1>4, <1>5, <1>9
    <3>3. There(d)' <=> There(d)
      BY <1>11, <2>3 DEF There
    <3> QED
      BY <1>11, <2>1, <2>3, <3>1, <3>2, <3>3 DEF Keeps
  <2> QED
    BY <2>2, <2>3
<1>13. DocCall(req[r])' /\ req'[r].op # "merge" /\ d \notin Of(Merging)
  BY <1>2, <1>3, OtherOps DEF DocOps, DocCall, Made, Of
<1> QED
  BY <1>2, <1>3, <1>4, <1>7, <1>11, <1>12, <1>13, RowWritten

LEMMA SaveDiesKeeps ==
  ASSUME DocInv, NEW r \in Requests, SaveDies(r)
  PROVE  DocInv'
<1>0. PICK q, d : q = req[r] /\ d = q.d
  OBVIOUS
<1>1. /\ q.op = "saveDoc" /\ q.at = "write" /\ Ends(r) /\ UNCHANGED <<doc, meant>>
      /\ torn' = IF q.given THEN torn \cup {d} ELSE torn
  BY <1>0 DEF SaveDies, At
<1>2. DocCall(q) /\ d \in Docs /\ Made(d)
  BY <1>0, <1>1 DEF DocInv, DocTyped, DocCall, DocCalls, DocOps
<1>3. /\ IsFun(req', Requests) /\ req'[r] = Over
      /\ \A s \in Requests \ {r} : req'[s] = req[s]
  BY <1>1, EndMoves DEF DocInv, DocTyped
<1>4. CASE ~q.given
  BY <1>0, <1>1, <1>3, <1>4, OtherOps, RowsAside DEF DocOps
<1>5. CASE q.given
  <2>1. \A x \in Docs : x # d => Cleared(x)' = Cleared(x)
    BY <1>0, <1>3, OtherOps, ClearedSame DEF DocOps
  <2>2. DocCall(req[r])' /\ req'[r].op # "merge" /\ d \notin Of(Merging)
    BY <1>2, <1>3, OtherOps DEF DocOps, DocCall, Made, Of
  <2>3. doc' \in [Docs -> DocRows] /\ meant' \in [Docs -> SUBSET Locales] /\ torn' \subseteq Docs
    BY <1>1, <1>2 DEF DocInv, DocTyped
  <2> QED
    BY <1>1, <1>2, <1>3, <1>5, <2>1, <2>2, <2>3, RowWritten DEF Made
<1> QED
  BY <1>4, <1>5

\* A translation stored by one that was at the row: nobody has it cleared.
LEMMA TargetKeeps ==
  ASSUME DocInv, NEW r \in Requests, NEW d \in Docs, NEW target \in Locales, Made(d),
         IsFun(req', Requests), \A s \in Requests \ {r} : req'[s] = req[s],
         DocCall(req[r])', req[r].op \in {"translate", "bulk"},
         req'[r].op \in {"done", "bulk"}, StoresTarget(r, d, target)
  PROVE  DocInv'
<1>1. /\ IF There(d) THEN /\ doc' = [doc EXCEPT ![d].locales = @ \cup {target}]
                          /\ meant' = [meant EXCEPT ![d] = @ \cup {target}]
         ELSE UNCHANGED <<doc, meant>>
      /\ Tear(r, d)
  BY DEF StoresTarget
<1>2. /\ torn' \subseteq Docs /\ torn \ {d} = torn' \ {d}
      /\ d \notin torn' => d \notin torn /\ Writers(d) \subseteq {r}
  BY <1>1, TearFacts
<1>3. There(d) => /\ [doc[d] EXCEPT !.locales = @ \cup {target}] \in DocRows \ {Unwritten, Gone}
                  /\ [doc[d] EXCEPT !.locales = @ \cup {target}].locales = doc[d].locales \cup {target}
  BY DEF DocInv, DocTyped, DocRows, There, Unwritten, Gone
<1>4. /\ doc' \in [Docs -> DocRows] /\ meant' \in [Docs -> SUBSET Locales]
      /\ \A x \in Docs \ {d} : doc'[x] = doc[x] /\ meant'[x] = meant[x]
      /\ doc'[d] # Unwritten /\ (There(d)' <=> There(d))
      /\ There(d) => doc'[d].locales = doc[d].locales \cup {target} /\ meant'[d] = meant[d] \cup {target}
  <2>1. CASE There(d)
    <3> DEFINE row == [doc[d] EXCEPT !.locales = @ \cup {target}]
    <3>1. row \in DocRows \ {Unwritten, Gone} /\ row.locales = doc[d].locales \cup {target}
      BY <1>3, <2>1
    <3>2. doc' = [doc EXCEPT ![d] = row] /\ meant' = [meant EXCEPT ![d] = @ \cup {target}]
      BY <1>1, <2>1
    <3> HIDE DEF row
    <3> QED
      BY <2>1, <3>1, <3>2 DEF DocInv, DocTyped, There
  <2>2. CASE ~There(d)
    BY <1>1, <2>2 DEF DocInv, DocTyped, There, Made
  <2> QED
    BY <2>1, <2>2
<1>5. \A x : Cleared(x)' = Cleared(x)
  BY ClearedSame
<1>6. d \notin torn' => Keeps(d)'
  <2> SUFFICES ASSUME d \notin torn' PROVE Keeps(d)'
    OBVIOUS
  <2>1. Keeps(d) /\ KindOf[d] \notin Merging
    BY <1>2 DEF DocInv, Made
  <2>2. Cleared(d) = {}
    BY <1>2 DEF Cleared, Writers, Running
  <2> QED
    BY <1>4, <1>5, <2>1, <2>2 DEF Keeps
<1>7. d \notin Of(Merging)
  BY DEF Made, Of
<1> QED
  BY <1>2, <1>4, <1>5, <1>6, <1>7, RowWritten

LEMMA TranslationKeeps ==
  ASSUME DocInv, NEW r \in Requests, StoresTranslation(r)
  PROVE  DocInv'
<1>0. PICK q : q = req[r]
  OBVIOUS
<1>1. q.op = "translate" /\ Ends(r) /\ StoresTarget(r, q.d, q.target)
  BY <1>0 DEF StoresTranslation, Running
<1>2. q.d \in Docs /\ q.target \in Locales /\ Made(q.d)
  BY <1>0, <1>1 DEF DocInv, DocTyped, DocCall, DocCalls, DocOps
<1>3. /\ IsFun(req', Requests) /\ req'[r] = Over
      /\ \A s \in Requests \ {r} : req'[s] = req[s]
  BY <1>1, EndMoves DEF DocInv, DocTyped
<1>4. DocCall(req[r])' /\ req'[r].op = "done"
  BY <1>3 DEF Over, DocCall, DocOps
<1> QED
  BY <1>0, <1>1, <1>2, <1>3, <1>4, TargetKeeps

LEMMA BulkKeeps ==
  ASSUME DocInv, NEW r \in Requests, StoresBulk(r)
  PROVE  DocInv'
<1>0. PICK q : q = req[r]
  OBVIOUS
<1>1. PICK d \in q.todo : /\ Ticks(r, d)
                          /\ StoresTarget(r, d, q.target) \/ UNCHANGED <<doc, meant, torn>>
  BY <1>0 DEF StoresBulk, varsT
<1>2. /\ q.op = "bulk" /\ q \in DocCalls /\ d \in Docs /\ q.target \in Locales
      /\ \A x \in q.todo : x \in Docs /\ Made(x)
  BY <1>0, <1>1 DEF StoresBulk, Running, DocInv, DocTyped, DocCall, DocCalls, DocOps
<1> DEFINE rest == [q EXCEPT !.todo = @ \ {d}]
<1>3. rest \in DocCalls /\ rest.op = "bulk" /\ rest.todo \subseteq q.todo
  BY <1>2 DEF DocCalls
<1>4. Ends(r) \/ req' = [req EXCEPT ![r] = rest]
  BY <1>0, <1>1 DEF Ticks, IsFun, DocInv, DocTyped
<1> HIDE DEF rest
<1>5. /\ IsFun(req', Requests) /\ req'[r] \in {Over, rest}
      /\ \A s \in Requests \ {r} : req'[s] = req[s]
  BY <1>4, EndMoves, StartMoves DEF DocInv, DocTyped, Start
<1>6. CASE UNCHANGED <<doc, meant, torn>>
  <2>1. DocCall(req'[r]) /\ req'[r].op \in {"done", "bulk"}
    BY <1>2, <1>3, <1>5 DEF DocCall, Over, DocOps
  <2> QED
    BY <1>0, <1>2, <1>5, <1>6, <2>1, RowsAside
<1>7. CASE StoresTarget(r, d, q.target)
  <2>1. \A x \in q.todo : Made(x)'
    <3>1. doc' = doc \/ doc' = [doc EXCEPT ![d].locales = @ \cup {q.target}]
      BY <1>7 DEF StoresTarget
    <3>2. doc[d] # Gone => [doc[d] EXCEPT !.locales = @ \cup {q.target}] # Unwritten
      BY <1>1, <1>2 DEF DocInv, DocTyped, DocRows, Made, Unwritten, Gone
    <3>3. doc' = doc \/ There(d)
      BY <1>7 DEF StoresTarget
    <3>4. \A x \in Docs : x # d => doc'[x] = doc[x]
      BY <1>2, <3>1 DEF DocInv, DocTyped
    <3>5. doc'[d] # Unwritten
      BY <1>1, <1>2, <3>1, <3>2, <3>3 DEF DocInv, DocTyped, There, Made
    <3> QED
      BY <1>2, <3>4, <3>5 DEF Made
  <2>2. DocCall(req[r])' /\ req'[r].op \in {"done", "bulk"}
    BY <1>2, <1>3, <1>5, <2>1 DEF DocCall, Over, DocOps
  <2> QED
    BY <1>0, <1>1, <1>2, <1>5, <1>7, <2>2, TargetKeeps
<1> QED
  BY <1>1, <1>6, <1>7

LEMMA MergesKeeps ==
  ASSUME DocInv, NEW r \in Requests, Merges(r)
  PROVE  DocInv'
<1>0. PICK q, d : q = req[r] /\ d = q.d
  OBVIOUS
<1>1. /\ q.op = "merge" /\ Ends(r) /\ Tear(r, d)
      /\ doc' = [doc EXCEPT ![d] = Doc(d, q.seen \cup q.locales)]
      /\ meant' = [meant EXCEPT ![d] = @ \cup q.locales]
  BY <1>0 DEF Merges, Running, InAll
<1>2. /\ d \in Docs /\ KindOf[d] \in Merging /\ q.seen \in SUBSET Locales /\ q.locales \in SUBSET Locales
  BY <1>0, <1>1 DEF DocInv, DocTyped, DocCall, DocCalls, DocOps
<1>3. /\ IsFun(req', Requests) /\ req'[r] = Over
      /\ \A s \in Requests \ {r} : req'[s] = req[s]
  BY <1>1, EndMoves DEF DocInv, DocTyped
<1>4. /\ torn' \subseteq Docs /\ torn \ {d} = torn' \ {d}
      /\ d \notin torn' => d \notin torn /\ Writers(d) \subseteq {r}
  BY <1>1, <1>2, TearFacts
<1> DEFINE row == Doc(d, q.seen \cup q.locales)
<1>5. row \in DocRows \ {Unwritten, Gone} /\ row.locales = q.seen \cup q.locales /\ row.on = d
  BY <1>2 DEF Doc, DocRows, Unwritten, Gone
<1>6. doc' = [doc EXCEPT ![d] = row]
  BY <1>1
<1> HIDE DEF row
<1>7. /\ doc' \in [Docs -> DocRows] /\ meant' \in [Docs -> SUBSET Locales]
      /\ \A x \in Docs \ {d} : doc'[x] = doc[x] /\ meant'[x] = meant[x]
      /\ doc'[d] = row /\ meant'[d] = meant[d] \cup q.locales
  BY <1>1, <1>2, <1>5, <1>6 DEF DocInv, DocTyped
<1>8. \A x : Cleared(x)' = Cleared(x)
  BY <1>0, <1>1, <1>3, OtherOps, ClearedSame DEF DocOps
<1>9. d \notin torn' => Keeps(d)'
  <2> SUFFICES ASSUME d \notin torn' PROVE Keeps(d)'
    OBVIOUS
  <2>1. Keeps(d) /\ r \in Running("merge")
    BY <1>0, <1>1, <1>2, <1>4 DEF DocInv, Running
  <2>2. Cleared(d) = {} /\ \A s \in Running("merge") : req[s].d = d => s = r
    BY <1>0, <1>1, <1>4 DEF Cleared, Writers, Running
  <2>3. q.seen = Of1(d) /\ Of1(d) = meant[d]
    BY <1>0, <1>2, <2>1 DEF Keeps
  <2>4. \A s \in Running("merge")' : req'[s].d # d
    BY <1>3, <2>2, OtherOps DEF Running, DocOps
  <2>5. There(d)' /\ Of1(d)' = row.locales
    BY <1>5, <1>7 DEF There, Of1
  <2> QED
    BY <1>5, <1>7, <1>8, <2>2, <2>3, <2>4, <2>5 DEF Keeps
<1>10. DocCall(req[r])' /\ req'[r].op # "merge"
  BY <1>3, OtherOps DEF DocOps, DocCall
<1> QED
  BY <1>2, <1>3, <1>4, <1>5, <1>7, <1>8, <1>9, <1>10, RowWritten

LEMMA DeletesKeeps ==
  ASSUME DocInv, NEW r \in Requests, NEW d \in Docs, Deletes(r, d)
  PROVE  DocInv'
<1>1. /\ KindOf[d] \notin Merging /\ req[r] = Idle /\ Ends(r) /\ UNCHANGED <<meant, torn>>
      /\ doc' = [x \in Docs |-> IF There(x) /\ d \in {x, doc[x].on} THEN Gone ELSE doc[x]]
  BY DEF Deletes, Arrives
<1>2. /\ IsFun(req', Requests) /\ req'[r] = Over
      /\ \A s \in Requests \ {r} : req'[s] = req[s]
  BY <1>1, EndMoves DEF DocInv, DocTyped
<1>3. doc' \in [Docs -> DocRows]
  BY <1>1 DEF DocInv, DocTyped, DocRows
<1>4. ASSUME NEW x \in Docs
      PROVE  /\ There(x)' => There(x) /\ doc'[x] = doc[x]
             /\ doc[x] # Unwritten => doc'[x] # Unwritten
             /\ KindOf[x] \in Merging => doc'[x] = doc[x]
  BY <1>1 DEF There, Gone, Unwritten, DocInv, DocTyped, Of
<1>5. \A x : Cleared(x)' = Cleared(x)
  BY <1>1, <1>2, OtherOps, ClearedSame DEF DocOps
<1>6. ASSUME NEW s \in Requests PROVE DocCall(req[s])'
  <2>1. DocCall(req[s])
    BY DEF DocInv, DocTyped
  <2>2. CASE s = r
    BY <1>2, <2>2 DEF DocCall, DocOps, Over
  <2>3. CASE s # r
    BY <1>2, <1>4, <2>1, <2>3 DEF DocCall, DocCalls, Made
  <2> QED
    BY <2>2, <2>3
<1>7. DocTyped'
  BY <1>1, <1>2, <1>3, <1>4, <1>6 DEF DocInv, DocTyped, Of
<1>8. ASSUME NEW x \in Docs \ torn PROVE Keeps(x)'
  <2>1. Keeps(x)
    BY DEF DocInv
  <2>2. \A s \in Running("merge")' : s \in Running("merge") /\ req'[s] = req[s]
    BY <1>2, OtherOps DEF Running, DocOps
  <2>3. KindOf[x] \in Merging => Of1(x)' = Of1(x)
    BY <1>4 DEF Of1, There
  <2> QED
    BY <1>1, <1>4, <1>5, <2>1, <2>2, <2>3 DEF Keeps
<1> QED
  BY <1>1, <1>7, <1>8 DEF DocInv

LEMMA ResetKeeps ==
  ASSUME DocInv, NEW r \in Requests, NEW d \in Docs, ResetsOverride(r, d, TRUE)
  PROVE  DocInv'
<1>1. /\ KindOf[d] = "override" /\ req[r] = Idle /\ Ends(r)
      /\ doc' = [doc EXCEPT ![d] = Unwritten] /\ meant' = [meant EXCEPT ![d] = {}]
      /\ torn' = torn \cup {x \in {d} : Writers(x) # {}}
  BY DEF ResetsOverride, Arrives, Independent
<1>2. /\ IsFun(req', Requests) /\ req'[r] = Over
      /\ \A s \in Requests \ {r} : req'[s] = req[s]
  BY <1>1, EndMoves DEF DocInv, DocTyped
<1>3. /\ doc' \in [Docs -> DocRows] /\ meant' \in [Docs -> SUBSET Locales]
      /\ \A x \in Docs \ {d} : doc'[x] = doc[x] /\ meant'[x] = meant[x]
      /\ doc'[d] = Unwritten /\ meant'[d] = {}
  BY <1>1 DEF DocInv, DocTyped, DocRows
<1>4. \A x : Cleared(x)' = Cleared(x)
  BY <1>1, <1>2, OtherOps, ClearedSame DEF DocOps
<1>5. torn' \subseteq Docs /\ torn \ {d} = torn' \ {d} /\ (d \notin torn' => Writers(d) = {})
  BY <1>1 DEF DocInv, DocTyped
<1>6. d \notin torn' => Keeps(d)'
  <2> SUFFICES ASSUME d \notin torn' PROVE Keeps(d)'
    OBVIOUS
  <2>1. \A s \in Running("merge")' : req'[s].d # d
    BY <1>2, <1>5, OtherOps DEF Running, Writers, DocOps
  <2>2. ~There(d)' /\ Of1(d)' = {}
    BY <1>3 DEF There, Of1
  <2> QED
    BY <1>3, <2>1, <2>2 DEF Keeps
<1>7. DocCall(req[r])' /\ req'[r].op # "merge" /\ ~Made(d) /\ ~There(d)'
  BY <1>1, <1>2, <1>3, OtherOps DEF DocOps, DocCall, Made, Merging, There
<1> QED
  BY <1>2, <1>3, <1>4, <1>5, <1>6, <1>7, RowWritten

LEMMA AskingKeeps ==
  ASSUME DocInv, NEW r \in Requests, Asking(r)
  PROVE  DocInv'
<1> USE SendableLocales
<1>1. ASSUME NEW d \in Docs, NEW locales \in Sendable,
             \/ CreatesStatic(r, d, locales) \/ AddsBlock(r, d, locales)
             \/ CreatesPromotion(r, d, locales) \/ CreatesCategory(r, d, locales)
             \/ CreatesAttribute(r, d, locales) \/ CreatesFaq(r, d, locales) \/ CreatesField(r, d, locales)
      PROVE  DocInv'
  <2>1. KindOf[d] \notin Merging /\ \E on \in Docs : Creates(r, d, on, locales)
    BY <1>1 DEF CreatesStatic, AddsBlock, CreatesPromotion, CreatesCategory, CreatesAttribute, CreatesFaq,
                CreatesField, Merging, Of
  <2> QED
    BY <2>1, CreatesKeeps
<1>2. ASSUME NEW d \in Docs, NEW locales \in Sendable, NEW given \in BOOLEAN, NEW status \in {"DRAFT", "PUBLISHED"},
             \/ SavesFaq(r, d, locales) \/ LinksAttributes(r, d, locales)
             \/ SavesStatic(r, d, status, given, locales) \/ SavesBlock(r, d, given, locales)
             \/ SavesPromotion(r, d, given, locales) \/ SavesField(r, d, given, locales)
             \/ SavesCategory(r, d, given, locales) \/ SavesAttribute(r, d, given, locales)
      PROVE  DocInv'
  <2>1. Made(d) /\ \E st \in {"DRAFT", "PUBLISHED"}, g \in BOOLEAN : Saves(r, d, st, g, locales)
    BY <1>2 DEF SavesFaq, LinksAttributes, SavesStatic, SavesBlock, SavesPromotion, SavesField, SavesCategory,
                SavesAttribute, MayEdit, There, Made, Merging
  <2> QED
    BY <2>1, SavesStart
<1>3. ASSUME NEW d \in Docs, NEW locales \in Sendable, SavesLegal(r, d, locales) \/ SavesTemplate(r, d, locales)
      PROVE  DocInv'
  <2>1. d \in Of(Merging) /\ Seen(r, d, locales)
    BY <1>3 DEF SavesLegal, SavesTemplate, Of, Merging
  <2> QED
    BY <2>1, SeenStart
<1> QED
  BY <1>1, <1>2, <1>3, DeletesKeeps, TranslatesStart, BulkStart, ZenonT(60) DEF Asking

LEMMA DocumentsKeep ==
  ASSUME DocInv, NEW r \in Requests, Documents(r)
  PROVE  DocInv'
<1>1. CASE Writing(r)
  BY <1>1, AskingKeeps, ClearsKeeps, WritesKeeps, SaveDiesKeeps, MergesKeeps, TranslationKeeps, BulkKeeps
     DEF Writing
<1>2. CASE Overriding(r, TRUE)
  <2>1. ASSUME NEW d \in Docs, NEW locales \in Sendable, SavesOverride(r, d, TRUE, locales) PROVE DocInv'
    <3>1. d \in Of(Merging) /\ Seen(r, d, locales)
      BY <2>1 DEF SavesOverride, Independent, Of, Merging
    <3> QED
      BY <3>1, SeenStart, SendableLocales
  <2> QED
    BY <1>2, <2>1, ResetKeeps DEF Overriding
<1> QED
  BY <1>1, <1>2 DEF Documents

-----------------------------------------------------------------------------
(* Pages: what their rows, versions and requests look like.                 *)

PageOps == {"ensure", "create", "add", "publish", "restore", "import", "theme"}
Addresses == {{}} \cup {{s} : s \in Slugs}
IsSeq(s) == s \in Seq({s[i] : i \in 1 .. Len(s)})

PageRow(row) ==
  row \in [is : {"row"}, type : Singletons \cup Slugged, kind : SUBSET {"about"}, slug : Addresses,
           status : {"DRAFT", "PUBLISHED"}, live : Nat, secs : {row.secs}]

\* What a request on pages is about.
PageCall(q) ==
  /\ q.op = "ensure" => q.type \in Singletons \ Listing
  /\ q.op = "create" => /\ q.type \in Singletons \cup Slugged
                        /\ q.kind \in SUBSET {"about"} /\ q.slug \in Addresses
  /\ q.op = "add" => q.p \in PageIds
  /\ q.op = "restore" => q.pages \subseteq PageIds
  /\ q.op = "import" =>
       q \in [op : {"import"}, at : {"wipe", "commit"}, kit : DOMAIN Kits, demos : BOOLEAN,
              pages : SUBSET PageIds, before : {q.before}, missing : SUBSET (Singletons \ Listing),
              seen : {q.seen}]
  /\ q.op = "theme" => q.pages \subseteq PageIds /\ q.missing \subseteq Singletons \ Listing
  /\ q.op = "publish" =>
       q \in [op : {"publish"}, at : {"read", "write"}, todo : Seq(PageIds) \ {<< >>},
              snap : {q.snap}, edits : Nat]

\* The pages a kit or preset found stay, as only those that may go are deleted.
Found(q) ==
  q.op \in {"import", "theme"} => \A p \in q.pages : IsPage(p) /\ page[p].type \in Singletons

\* What was read of a page to publish it is its draft until somebody edits it.
Snapped(q) ==
  q.op = "publish" =>
    /\ \A i \in 1 .. Len(q.todo) : page[q.todo[i]] # Absent
    /\ q.at = "write" =>
         \A p \in PageIds : p = Head(q.todo) =>
           /\ q.edits <= revised[p]
           /\ IsPage(p) /\ q.edits = revised[p] => q.snap = Published(p)

\* The live version is the last one published.
Versioned(p) ==
  /\ IsSeq(versions[p])
  /\ page[p] = Absent => versions[p] = << >>
  /\ \A i \in 1 .. Len(versions[p]) : versions[p][i].how = "published" =>
       /\ versions[p][i].edits \in Nat /\ versions[p][i].edits <= revised[p]
       /\ IsPage(p) => i <= page[p].live
  /\ IsPage(p) /\ page[p].live # 0 =>
       /\ page[p].live <= Len(versions[p])
       /\ versions[p][page[p].live].how = "published"
       /\ versions[p][page[p].live].edits = revised[p] =>
            versions[p][page[p].live].secs = Published(p)

PagesTyped ==
  /\ IsFun(req, Requests)
  /\ IsFun(page, PageIds) /\ IsFun(versions, PageIds) /\ revised \in [PageIds -> Nat]
  /\ \A p \in Pages : PageRow(page[p])
  /\ \A r \in Requests : PageCall(req[r])

\* Rows are used from the lowest id on.
RowsInOrder == \A p, o \in PageIds : page[p] = Absent /\ p <= o => page[o] = Absent

\* Two pages of a store do not share an address.
SlugsDiffer == \A p, o \in Pages : page[p].slug # {} /\ page[p].slug = page[o].slug => p = o

\* Of a sort nobody raced for there is one page, and none while it is missing.
OnePage(t) ==
  /\ \A p, o \in PagesOf(t) : p = o
  /\ Missing(t) # {} => PagesOf(t) = {}

PagesInv ==
  /\ PagesTyped /\ RowsInOrder /\ SlugsDiffer
  /\ \A t \in Singletons \ raced : OnePage(t)
  /\ \A p \in PageIds : Versioned(p)
  /\ \A r \in Requests : Found(req[r]) /\ Snapped(req[r])

-----------------------------------------------------------------------------
(* Pages: one step of a page.                                               *)

LEMMA SeqFacts ==
  ASSUME NEW s, IsSeq(s)
  PROVE  Len(s) \in Nat
BY DEF IsSeq

LEMMA AppendFacts ==
  ASSUME NEW s, IsSeq(s), NEW e
  PROVE  /\ IsSeq(Append(s, e)) /\ Len(Append(s, e)) = Len(s) + 1
         /\ Append(s, e)[Len(s) + 1] = e
         /\ \A i \in 1 .. Len(s) : Append(s, e)[i] = s[i]
<1> DEFINE X == {s[i] : i \in 1 .. Len(s)}
           a == Append(s, e)
           T == {a[i] : i \in 1 .. Len(a)}
<1>1. s \in Seq(X) /\ Len(s) \in Nat
  BY DEF IsSeq
<1>2. s \in Seq(X \cup {e})
  BY <1>1
<1>3. a \in Seq(X \cup {e}) /\ Len(a) = Len(s) + 1 /\ a[Len(s) + 1] = e
      /\ \A i \in 1 .. Len(s) : a[i] = s[i]
  BY <1>1, <1>2
<1>4. a \in [1 .. Len(a) -> X \cup {e}] /\ Len(a) \in Nat
  BY <1>1, <1>3, LenProperties
<1>5. a \in [1 .. Len(a) -> T]
  BY <1>4
<1>6. a \in Seq(T)
  BY <1>4, <1>5, SeqDef
<1> QED
  BY <1>3, <1>6 DEF IsSeq

\* A step on requests moves one of them.
Moves(r, before, after) ==
  /\ IsFun(req', Requests) /\ \A s \in Requests \ {r} : req'[s] = req[s]
  /\ req[r].op \in before /\ req'[r].op \in after

\* What a step may do to a row: nothing, fill it, change it, or delete it.
Same(p)    == page'[p] = page[p] /\ versions'[p] = versions[p] /\ revised'[p] = revised[p]
Filled(p)  == /\ page[p] = Absent /\ PageRow(page[p])' /\ page'[p].live = 0
              /\ versions'[p] = versions[p] /\ revised'[p] = revised[p]
\* An edit, a restore or an update, with or without a restore point.
Touched(p) ==
  /\ IsPage(p) /\ PageRow(page[p])'
  /\ page'[p].type = page[p].type /\ page'[p].live = page[p].live
  /\ \/ versions'[p] = versions[p]
     \/ \E v : v.how # "published" /\ versions'[p] = Append(versions[p], v)
  /\ \/ revised'[p] = revised[p] + 1
     \/ revised'[p] = revised[p] /\ Published(p)' = Published(p)
Shown(p) ==
  /\ IsPage(p) /\ PageRow(page[p])'
  /\ page'[p].type = page[p].type /\ page'[p].live = Len(versions[p]) + 1
  /\ revised'[p] = revised[p] /\ Published(p)' = Published(p)
  /\ \E v : /\ versions'[p] = Append(versions[p], v)
            /\ v.how = "published" /\ v.edits \in Nat /\ v.edits <= revised[p]
            /\ v.edits = revised[p] => v.secs = Published(p)
Removed(p) ==
  /\ IsPage(p) /\ page[p].type \notin Singletons /\ page'[p] = Deleted
  /\ versions'[p] = << >> /\ revised'[p] = revised[p]
Turns(p) == Same(p) \/ Filled(p) \/ Touched(p) \/ Shown(p) \/ Removed(p)

LEMMA RowFacts ==
  ASSUME NEW row, PageRow(row)
  PROVE  row \notin {Absent, Deleted} /\ row.type \in Singletons \cup Slugged /\ row.slug \in Addresses
         /\ row.live \in Nat
BY DEF PageRow, Absent, Deleted

LEMMA VersionedKeeps ==
  ASSUME NEW p \in PageIds, revised \in [PageIds -> Nat], IsPage(p) => PageRow(page[p]), Versioned(p), Turns(p)
  PROVE  Versioned(p)'
<1>1. Len(versions[p]) \in Nat /\ revised[p] \in Nat
  BY SeqFacts DEF Versioned
<1>2. CASE Same(p)
  BY <1>2 DEF Same, Versioned, IsPage, Published
<1>3. CASE Filled(p)
  <2>1. versions'[p] = << >> /\ page'[p].live = 0 /\ page'[p] # Absent
    BY <1>3, RowFacts DEF Filled, Versioned
  <2> QED
    BY <2>1 DEF Versioned, IsSeq
<1>4. CASE Touched(p)
  <2>1. page'[p] \notin {Absent, Deleted} /\ page'[p].live = page[p].live /\ IsPage(p)
    BY <1>4, RowFacts DEF Touched
  <2>2. /\ IsSeq(versions'[p]) /\ Len(versions'[p]) \in Nat /\ Len(versions'[p]) >= Len(versions[p])
        /\ \A i \in 1 .. Len(versions'[p]) : versions'[p][i].how = "published" =>
             i \in 1 .. Len(versions[p]) /\ versions'[p][i] = versions[p][i]
        /\ \A i \in 1 .. Len(versions[p]) : versions'[p][i] = versions[p][i]
    <3>1. CASE versions'[p] = versions[p]
      BY <1>1, <3>1 DEF Versioned
    <3>2. CASE \E v : v.how # "published" /\ versions'[p] = Append(versions[p], v)
      <4>1. PICK v : v.how # "published" /\ versions'[p] = Append(versions[p], v)
        BY <3>2
      <4>2. /\ IsSeq(versions'[p]) /\ Len(versions'[p]) = Len(versions[p]) + 1
            /\ versions'[p][Len(versions[p]) + 1] = v
            /\ \A i \in 1 .. Len(versions[p]) : versions'[p][i] = versions[p][i]
        BY <4>1, AppendFacts DEF Versioned
      <4> QED
        BY <1>1, <4>1, <4>2
    <3> QED
      BY <1>4, <3>1, <3>2 DEF Touched
  <2>3. page[p].live \in Nat
    BY <2>1, RowFacts
  <2>4. CASE revised'[p] = revised[p] + 1
    <3>1. \A i \in 1 .. Len(versions'[p]) : versions'[p][i].how = "published" =>
            /\ versions'[p][i].edits \in Nat /\ versions'[p][i].edits <= revised'[p]
            /\ versions'[p][i].edits # revised'[p] /\ i <= page'[p].live
      <4> SUFFICES ASSUME NEW i \in 1 .. Len(versions'[p]), versions'[p][i].how = "published"
                   PROVE  /\ versions'[p][i].edits \in Nat /\ versions'[p][i].edits <= revised'[p]
                          /\ versions'[p][i].edits # revised'[p] /\ i <= page'[p].live
        OBVIOUS
      <4>1. i \in 1 .. Len(versions[p]) /\ versions'[p][i] = versions[p][i]
        BY <2>2
      <4>2. versions[p][i].edits \in Nat /\ versions[p][i].edits <= revised[p] /\ i <= page[p].live
        BY <2>1, <4>1 DEF Versioned
      <4> QED
        BY <1>1, <2>1, <2>4, <4>1, <4>2
    <3>2. page'[p].live # 0 => /\ page'[p].live \in 1 .. Len(versions'[p])
                               /\ page'[p].live <= Len(versions'[p])
                               /\ versions'[p][page'[p].live].how = "published"
      BY <1>1, <2>1, <2>2, <2>3 DEF Versioned
    <3> QED
      BY <2>1, <2>2, <3>1, <3>2 DEF Versioned
  <2>5. CASE revised'[p] = revised[p] /\ Published(p)' = Published(p)
    BY <1>1, <2>1, <2>2, <2>3, <2>5, SMTT(40) DEF Versioned, IsPage
  <2> QED
    BY <1>4, <2>4, <2>5 DEF Touched
<1>5. CASE Shown(p)
  <2>1. PICK v : /\ versions'[p] = Append(versions[p], v)
                 /\ v.how = "published" /\ v.edits \in Nat /\ v.edits <= revised[p]
                 /\ v.edits = revised[p] => v.secs = Published(p)
    BY <1>5 DEF Shown
  <2>2. /\ IsSeq(versions'[p]) /\ Len(versions'[p]) = Len(versions[p]) + 1
        /\ versions'[p][Len(versions[p]) + 1] = v
        /\ \A i \in 1 .. Len(versions[p]) : versions'[p][i] = versions[p][i]
    BY <2>1, AppendFacts DEF Versioned
  <2>3. /\ page'[p] \notin {Absent, Deleted} /\ page'[p].live = Len(versions[p]) + 1
        /\ revised'[p] = revised[p] /\ Published(p)' = Published(p)
    BY <1>5, RowFacts DEF Shown
  <2> QED
    BY <1>1, <2>1, <2>2, <2>3 DEF Versioned, IsPage
<1>6. CASE Removed(p)
  BY <1>6 DEF Removed, Versioned, IsPage, IsSeq, Deleted, Absent
<1> QED
  BY <1>2, <1>3, <1>4, <1>5, <1>6 DEF Turns

LEMMA TurnFacts ==
  ASSUME NEW p \in PageIds, revised \in [PageIds -> Nat], Turns(p)
  PROVE  /\ IsPage(p)' /\ (IsPage(p) => PageRow(page[p])) => PageRow(page'[p])
         /\ IsPage(p)' => IsPage(p) \/ Filled(p)
         /\ IsPage(p) /\ IsPage(p)' => page'[p].type = page[p].type
         /\ page'[p] = Absent => page[p] = Absent
         /\ page[p] = Absent => page'[p] = Absent \/ Filled(p)
         /\ IsPage(p) /\ page[p].type \in Singletons => IsPage(p)'
         /\ revised'[p] \in Nat /\ revised[p] <= revised'[p]
         /\ page[p] # Absent /\ IsPage(p)' /\ revised'[p] = revised[p] => Published(p)' = Published(p)
<1>1. CASE Same(p)
  BY <1>1 DEF Same, IsPage, Published
<1>2. CASE Filled(p)
  <2>1. page'[p] # Absent /\ page[p] = Absent /\ revised'[p] = revised[p] /\ PageRow(page'[p])
    BY <1>2, RowFacts DEF Filled
  <2> QED
    BY <1>2, <2>1 DEF IsPage
<1>3. CASE Touched(p)
  <2>1. page'[p] \notin {Absent, Deleted} /\ PageRow(page'[p])
    BY <1>3, RowFacts DEF Touched
  <2> QED
    BY <1>3, <2>1 DEF Touched, IsPage
<1>4. CASE Shown(p)
  <2>1. page'[p] \notin {Absent, Deleted} /\ PageRow(page'[p])
    BY <1>4, RowFacts DEF Shown
  <2> QED
    BY <1>4, <2>1 DEF Shown, IsPage
<1>5. CASE Removed(p)
  BY <1>5 DEF Removed, IsPage, Absent, Deleted
<1> QED
  BY <1>1, <1>2, <1>3, <1>4, <1>5 DEF Turns

\* What every step on pages has to show of its own.
LEMMA PagesStep ==
  ASSUME PagesInv, NEW r \in Requests, IsFun(req', Requests), \A s \in Requests \ {r} : req'[s] = req[s],
         IsFun(page', PageIds), IsFun(versions', PageIds), IsFun(revised', PageIds),
         \A p \in PageIds : Turns(p),
         PageCall(req'[r]), Found(req[r])', Snapped(req[r])',
         \A p, o \in PageIds : Filled(p) /\ o < p => page'[o] # Absent,
         \A p \in PageIds : IsPage(p)' =>
           \/ page'[p].slug = {}
           \/ IsPage(p) /\ page'[p].slug = page[p].slug
           \/ \A o \in PageIds \ {p} : IsPage(o)' => page'[o].slug # page'[p].slug,
         raced \subseteq raced',
         \A t \in Singletons \ raced' :
           \/ /\ \A p \in PageIds : Filled(p) => page'[p].type # t
              /\ r \in Missing(t)' => r \in Missing(t) \/ PagesOf(t)' = {}
           \/ Missing(t)' = {} /\ \A p, o \in PagesOf(t)' : p = o
  PROVE  PagesInv'
<1> USE DEF PagesInv, PagesTyped
<1>1. \A p \in PageIds : IsPage(p) => PageRow(page[p])
  BY DEF Pages
<1>2. PagesTyped'
  <2>1. \A p \in Pages' : PageRow(page[p])'
    BY <1>1, TurnFacts DEF Pages
  <2>2. revised' \in [PageIds -> Nat]
    BY TurnFacts DEF IsFun
  <2>3. \A s \in Requests : PageCall(req'[s])
    OBVIOUS
  <2> QED
    BY <2>1, <2>2, <2>3
<1>3. RowsInOrder'
  <2> SUFFICES ASSUME NEW p \in PageIds, NEW o \in PageIds, page'[p] = Absent, p <= o PROVE page'[o] = Absent
    BY DEF RowsInOrder
  <2>1. page[p] = Absent /\ page[o] = Absent
    BY TurnFacts DEF RowsInOrder
  <2>2. o # p => p < o
    BY PageIdsRange, FS_CardinalityType
  <2> QED
    BY <2>1, <2>2, TurnFacts
<1>4. SlugsDiffer'
  BY DEF SlugsDiffer, Pages
<1>5. \A t \in Singletons \ raced' : OnePage(t)'
  <2> SUFFICES ASSUME NEW t \in Singletons \ raced' PROVE OnePage(t)'
    OBVIOUS
  <2>1. OnePage(t)
    OBVIOUS
  <2>2. Missing(t)' \subseteq Missing(t) \cup {r}
    BY DEF Missing, InFlight
  <2>3. CASE /\ \A p \in PageIds : Filled(p) => page'[p].type # t
             /\ r \in Missing(t)' => r \in Missing(t) \/ PagesOf(t)' = {}
    <3>1. PagesOf(t)' \subseteq PagesOf(t)
      BY <2>3, TurnFacts DEF PagesOf, Pages
    <3> QED
      BY <2>1, <2>2, <2>3, <3>1 DEF OnePage
  <2>4. CASE Missing(t)' = {} /\ \A p, o \in PagesOf(t)' : p = o
    BY <2>4 DEF OnePage
  <2> QED
    BY <2>3, <2>4
<1>6. \A p \in PageIds : Versioned(p)'
  BY <1>1, VersionedKeeps
<1>7. ASSUME NEW s \in Requests PROVE Found(req[s])' /\ Snapped(req[s])'
  <2>1. CASE s = r
    BY <2>1
  <2>2. CASE s # r
    <3>1. req'[s] = req[s] /\ Found(req[s]) /\ Snapped(req[s]) /\ PageCall(req[s])
      BY <2>2
    <3>2. Found(req[s])'
      BY <3>1, TurnFacts DEF Found, PageCall
    <3>3. ASSUME req[s].op = "publish" PROVE Snapped(req[s])'
      <4>1. PICK q : q = req[s]
        OBVIOUS
      <4>2. q.todo \in Seq(PageIds) /\ q.todo # << >> /\ q.edits \in Nat
        BY <3>1, <3>3, <4>1 DEF PageCall
      <4>3. \A i \in 1 .. Len(q.todo) : page'[q.todo[i]] # Absent
        BY <3>1, <3>3, <4>1, <4>2, TurnFacts DEF Snapped
      <4>4. ASSUME q.at = "write", NEW p \in PageIds, p = Head(q.todo)
            PROVE  q.edits <= revised'[p] /\ (IsPage(p)' /\ q.edits = revised'[p] => q.snap = Published(p)')
        <5>1. q.edits <= revised[p] /\ (IsPage(p) /\ q.edits = revised[p] => q.snap = Published(p))
          BY <3>1, <3>3, <4>1, <4>4 DEF Snapped
        <5>2. page[p] # Absent
          BY <3>1, <3>3, <4>1, <4>2, <4>4 DEF Snapped
        <5>3. revised[p] \in Nat
          OBVIOUS
        <5> QED
          BY <4>2, <5>1, <5>2, <5>3, TurnFacts DEF Filled
      <4> QED
        BY <3>1, <4>1, <4>3, <4>4 DEF Snapped
    <3>4. req[s].op # "publish" => Snapped(req[s])'
      BY <3>1 DEF Snapped
    <3> QED
      BY <3>2, <3>3, <3>4
  <2> QED
    BY <2>1, <2>2
<1> QED
  BY <1>2, <1>3, <1>4, <1>5, <1>6, <1>7

LEMMA OverCalls ==
  /\ Over.op \notin PageOps /\ Idle.op \notin PageOps
  /\ \A r, t : req'[r] = Over => r \notin Missing(t)'
  /\ \A r, t : req[r] = Idle => r \notin Missing(t)
  /\ \A r, t : req'[r].op \notin {"ensure", "create", "theme", "import"} => r \notin Missing(t)'
BY DEF Over, Idle, PageOps, Missing, InFlight

LEMMA RaisedCalls ==
  ASSUME PagesInv, NEW r \in Requests
  PROVE  /\ PageCall(req[r]) /\ Found(req[r]) /\ Snapped(req[r])
         /\ IsFun(req, Requests) /\ IsFun(page, PageIds) /\ IsFun(versions, PageIds)
         /\ revised \in [PageIds -> Nat] /\ IsFun(revised, PageIds)
BY DEF PagesInv, PagesTyped, IsFun

\* A step that leaves pages alone.
LEMMA PagesAside ==
  ASSUME PagesInv, NEW r \in Requests, IsFun(req', Requests), \A s \in Requests \ {r} : req'[s] = req[s],
         UNCHANGED <<page, versions, revised, raced>>,
         PageCall(req'[r]), Found(req[r])', Snapped(req[r])',
         \A t \in Singletons : r \in Missing(t)' => r \in Missing(t) \/ PagesOf(t) = {}
  PROVE  PagesInv'
<1>1. \A p \in PageIds : Turns(p) /\ ~Filled(p)
  <2> SUFFICES ASSUME NEW p \in PageIds PROVE Same(p) /\ ~Filled(p)
    BY DEF Turns
  <2>1. PageRow(page'[p]) => page'[p] # Absent
    BY RowFacts
  <2> QED
    BY <2>1 DEF Same, Filled
<1>2. \A p : IsPage(p)' => IsPage(p) /\ page'[p].slug = page[p].slug
  BY DEF IsPage
<1>3. \A t : PagesOf(t)' = PagesOf(t)
  BY DEF PagesOf, Pages, IsPage
<1> QED
  BY <1>1, <1>2, <1>3, RaisedCalls, PagesStep

LEMMA PagesIdle ==
  ASSUME PagesInv, NEW r \in Requests, IsFun(req', Requests), \A s \in Requests \ {r} : req'[s] = req[s],
         UNCHANGED <<page, versions, revised, raced>>, req'[r].op \notin PageOps
  PROVE  PagesInv'
<1>1. PageCall(req'[r]) /\ Found(req[r])' /\ Snapped(req[r])'
  BY DEF PageOps, PageCall, Found, Snapped
<1>2. \A t : r \notin Missing(t)'
  BY OverCalls DEF PageOps
<1> QED
  BY <1>1, <1>2, PagesAside

\* A step that changes one page.
LEMMA PagesChange ==
  ASSUME PagesInv, NEW r \in Requests, IsFun(req', Requests), \A s \in Requests \ {r} : req'[s] = req[s],
         IsFun(page', PageIds), IsFun(versions', PageIds), IsFun(revised', PageIds), raced' = raced,
         NEW p \in PageIds, \A o \in PageIds \ {p} : Same(o), Touched(p) \/ Shown(p) \/ Removed(p),
         IsPage(p)' => \/ page'[p].slug = {} \/ page'[p].slug = page[p].slug
                       \/ \A o \in PageIds \ {p} : IsPage(o) => page[o].slug # page'[p].slug,
         PageCall(req'[r]), Found(req[r])', Snapped(req[r])',
         req'[r].op \notin {"ensure", "create", "theme", "import"}
  PROVE  PagesInv'
<1>1. \A o \in PageIds : Turns(o)
  BY DEF Turns
<1>2. \A o \in PageIds : ~Filled(o)
  <2>1. \A o \in PageIds : PageRow(page'[o]) => page'[o] # Absent
    BY RowFacts
  <2> QED
    BY <2>1 DEF Filled, Touched, Shown, Removed, Same, IsPage
<1>3. IsPage(p)
  BY DEF Touched, Shown, Removed
<1>4. \A o \in PageIds \ {p} : (IsPage(o)' <=> IsPage(o)) /\ page'[o] = page[o]
  BY DEF Same, IsPage
<1>5. \A o \in PageIds : IsPage(o)' =>
           \/ page'[o].slug = {}
           \/ IsPage(o) /\ page'[o].slug = page[o].slug
           \/ \A x \in PageIds \ {o} : IsPage(x)' => page'[x].slug # page'[o].slug
  BY <1>3, <1>4
<1>6. \A t : r \notin Missing(t)'
  BY OverCalls
<1> QED
  BY <1>1, <1>2, <1>5, <1>6, PagesStep

\* A page made for a request: nobody else made one of its sort meanwhile.
LEMMA PagesGain ==
  ASSUME PagesInv, NEW r \in Requests, Ends(r), NEW p \in NextRow, NEW t \in Singletons \cup Slugged,
         NEW kind \in SUBSET {"about"}, NEW slug \in Addresses, NEW secs,
         page' = [page EXCEPT ![p] = NewPage(t, kind, slug, secs)],
         UNCHANGED <<versions, revised>>, raced' = Races(t, r),
         t \in Singletons \ raced => PagesOf(t) = {}, ~Taken(slug, {})
  PROVE  PagesInv'
<1> DEFINE row == NewPage(t, kind, slug, secs)
<1>1. PageRow(row) /\ row.type = t /\ row.slug = slug /\ row.live = 0
      /\ page' = [page EXCEPT ![p] = row]
  BY DEF PageRow, NewPage
<1>2. p \in PageIds /\ page[p] = Absent /\ \A o \in PageIds : o < p => page[o] # Absent
  BY DEF NextRow
<1> HIDE DEF row
<1>3. /\ IsFun(page', PageIds) /\ page'[p] = row /\ \A o \in PageIds \ {p} : page'[o] = page[o]
  BY <1>1, <1>2, RaisedCalls DEF IsFun
<1>4. /\ IsFun(req', Requests) /\ req'[r] = Over /\ \A s \in Requests \ {r} : req'[s] = req[s]
  BY EndMoves, RaisedCalls
<1>5. Filled(p) /\ \A o \in PageIds \ {p} : Same(o) /\ ~Filled(o)
  <2>1. \A o \in PageIds : PageRow(page'[o]) => page'[o] # Absent
    BY RowFacts
  <2> QED
    BY <1>1, <1>2, <1>3, <2>1 DEF Filled, Same
<1>6. PageCall(req'[r]) /\ Found(req[r])' /\ Snapped(req[r])' /\ \A x : r \notin Missing(x)'
  BY <1>4, OverCalls DEF PageCall, Found, Snapped, Over
<1>7. \A o \in PageIds \ {p} : (IsPage(o)' <=> IsPage(o)) /\ page'[o] = page[o]
  BY <1>3 DEF IsPage
<1>8. \A o \in PageIds : IsPage(o)' =>
           \/ page'[o].slug = {}
           \/ IsPage(o) /\ page'[o].slug = page[o].slug
           \/ \A x \in PageIds \ {o} : IsPage(x)' => page'[x].slug # page'[o].slug
  BY <1>1, <1>3, <1>7 DEF Taken, Pages
<1>9. ASSUME t \in Singletons \ raced' PROVE Missing(t)' = {} /\ \A o, x \in PagesOf(t)' : o = x
  <2>1. Missing(t)' \subseteq Missing(t) \ {r}
    BY <1>4, <1>6 DEF Missing, InFlight
  <2>2. ASSUME NEW s \in Missing(t) \ {r}, t \in Listing PROVE req[s].op = "create"
    <3>1. s \in Requests
      BY DEF Missing, InFlight
    <3> QED
      BY <2>2, <3>1, RaisedCalls DEF Missing, PageCall
  <2>3. Missing(t) \ {r} = {}
    BY <1>9, <2>2 DEF Races
  <2>4. \A o \in PagesOf(t)' : o = p
    BY <1>7, <1>9 DEF PagesOf, Pages, Races
  <2> QED
    BY <2>1, <2>3, <2>4
<1>10. raced \subseteq raced'
  BY DEF Races
<1>11. \A o \in PageIds : Turns(o)
  BY <1>5 DEF Turns
<1>12. \A q, o \in PageIds : Filled(q) /\ o < q => page'[o] # Absent
  BY <1>2, <1>3, <1>5, PageIdsRange, FS_CardinalityType
<1>13. \A x \in Singletons \ raced' :
           \/ /\ \A o \in PageIds : Filled(o) => page'[o].type # x
              /\ r \in Missing(x)' => r \in Missing(x) \/ PagesOf(x)' = {}
           \/ Missing(x)' = {} /\ \A o, y \in PagesOf(x)' : o = y
  BY <1>1, <1>3, <1>5, <1>6, <1>9
<1>14. IsFun(versions', PageIds) /\ IsFun(revised', PageIds)
  BY RaisedCalls DEF IsFun
<1> QED
  BY <1>3, <1>4, <1>6, <1>8, <1>10, <1>11, <1>12, <1>13, <1>14, PagesStep

-----------------------------------------------------------------------------
(* Pages: each handler.                                                     *)

LEMMA EnsuresListingKeeps ==
  ASSUME PagesInv, NEW r \in Requests, NEW t \in Singletons, EnsuresListing(r, t)
  PROVE  PagesInv'
<1>1. Ends(r) /\ UNCHANGED <<versions, revised>>
  BY DEF EnsuresListing
<1>2. CASE PagesOf(t) # {}
  <2>1. UNCHANGED <<page, versions, revised, raced>>
    BY <1>1, <1>2 DEF EnsuresListing
  <2> QED
    BY <1>1, <2>1, EndMoves, RaisedCalls, OverCalls, PagesIdle
<1>3. CASE PagesOf(t) = {}
  <2>1. PICK p \in NextRow : page' = [page EXCEPT ![p] = NewPage(t, {}, {}, Seeded(SeedOf(t), fresh))]
    BY <1>3 DEF EnsuresListing
  <2>2. raced' = Races(t, r)
    BY <1>3 DEF EnsuresListing
  <2>3. {} \in SUBSET {"about"} /\ {} \in Addresses /\ ~Taken({}, {})
    BY DEF Addresses, Taken
  <2> QED
    BY <1>1, <1>3, <2>1, <2>2, <2>3, PagesGain
<1> QED
  BY <1>2, <1>3

LEMMA LooksForKeeps ==
  ASSUME PagesInv, NEW r \in Requests, NEW t \in Singletons, LooksFor(r, t)
  PROVE  PagesInv'
<1> DEFINE q == [op |-> "ensure", type |-> t]
<1>1. UNCHANGED <<page, versions, revised, raced>> /\ t \notin Listing
  BY DEF LooksFor, varsG, rowsG, histG, Locked
<1>2. CASE Ends(r)
  BY <1>1, <1>2, EndMoves, RaisedCalls, OverCalls, PagesIdle
<1>3. CASE PagesOf(t) = {} /\ Start(r, q)
  <2>1. PageCall(q) /\ q.op = "ensure" /\ q.type = t
    BY <1>1 DEF PageCall
  <2> HIDE DEF q
  <2>2. /\ IsFun(req', Requests) /\ req'[r] = q /\ \A s \in Requests \ {r} : req'[s] = req[s]
    BY <1>3, StartMoves, RaisedCalls
  <2>3. Found(req[r])' /\ Snapped(req[r])'
    BY <2>1, <2>2 DEF Found, Snapped
  <2>4. \A x : r \in Missing(x)' => x = t
    BY <2>1, <2>2 DEF Missing
  <2> QED
    BY <1>1, <1>3, <2>1, <2>2, <2>3, <2>4, PagesAside
<1> QED
  BY <1>2, <1>3 DEF LooksFor

LEMMA ProvisionsKeeps ==
  ASSUME PagesInv, NEW r \in Requests, Provisions(r)
  PROVE  PagesInv'
<1>0. PICK t : t = req[r].type
  OBVIOUS
<1>1. /\ req[r].op = "ensure" /\ Ends(r) /\ UNCHANGED <<versions, revised>> /\ raced' = Races(t, r)
  BY <1>0 DEF Provisions, Running
<1>2. PICK p \in NextRow : page' = [page EXCEPT ![p] = NewPage(t, {}, {}, Seeded(SeedOf(t), fresh))]
  BY <1>0 DEF Provisions
<1>3. t \in Singletons
  BY <1>0, <1>1, RaisedCalls DEF PageCall
<1>4. r \in Missing(t)
  BY <1>0, <1>1 DEF Missing, InFlight, Idle, Over
<1>5. t \in Singletons \ raced => PagesOf(t) = {}
  BY <1>4 DEF PagesInv, OnePage
<1>6. {} \in SUBSET {"about"} /\ {} \in Addresses /\ ~Taken({}, {})
  BY DEF Addresses, Taken
<1> QED
  BY <1>1, <1>2, <1>3, <1>5, <1>6, PagesGain

LEMMA CreatesPageKeeps ==
  ASSUME PagesInv, NEW r \in Requests, NEW t \in Singletons \cup Slugged, NEW kind \in {{}, {"about"}},
         NEW slug \in Addresses, CreatesPage(r, t, kind, slug)
  PROVE  PagesInv'
<1> DEFINE q == [op |-> "create", type |-> t, kind |-> kind, slug |-> slug]
<1>1. UNCHANGED <<page, versions, revised, raced>>
  BY DEF CreatesPage, varsG, rowsG, histG
<1>2. CASE Ends(r)
  BY <1>1, <1>2, EndMoves, RaisedCalls, OverCalls, PagesIdle
<1>3. CASE (t \in Singletons => PagesOf(t) = {}) /\ Start(r, q)
  <2>1. PageCall(q) /\ q.op = "create" /\ q.type = t
    BY DEF PageCall
  <2> HIDE DEF q
  <2>2. /\ IsFun(req', Requests) /\ req'[r] = q /\ \A s \in Requests \ {r} : req'[s] = req[s]
    BY <1>3, StartMoves, RaisedCalls
  <2>3. Found(req[r])' /\ Snapped(req[r])'
    BY <2>1, <2>2 DEF Found, Snapped
  <2>4. \A x : r \in Missing(x)' => x = t
    BY <2>1, <2>2 DEF Missing
  <2> QED
    BY <1>1, <1>3, <2>1, <2>2, <2>3, <2>4, PagesAside
<1> QED
  BY <1>2, <1>3 DEF CreatesPage

LEMMA StoresPageKeeps ==
  ASSUME PagesInv, NEW r \in Requests, StoresPage(r)
  PROVE  PagesInv'
<1>0. PICK q : q = req[r]
  OBVIOUS
<1>1. q.op = "create" /\ Ends(r) /\ UNCHANGED <<versions, revised>>
  BY <1>0 DEF StoresPage, Running
<1>2. CASE UNCHANGED <<page, raced>>
  BY <1>1, <1>2, EndMoves, RaisedCalls, OverCalls, PagesIdle
<1>3. CASE /\ ~Taken(q.slug, {}) /\ raced' = Races(q.type, r)
           /\ \E p \in NextRow : page' = [page EXCEPT ![p] = NewPage(q.type, q.kind, q.slug, {})]
  <2>0. PICK p \in NextRow : page' = [page EXCEPT ![p] = NewPage(q.type, q.kind, q.slug, {})]
    BY <1>3
  <2>1. q.type \in Singletons \cup Slugged /\ q.kind \in SUBSET {"about"} /\ q.slug \in Addresses
    BY <1>0, <1>1, RaisedCalls DEF PageCall
  <2>2. r \in Missing(q.type)
    BY <1>0, <1>1 DEF Missing, InFlight, Idle, Over
  <2>3. q.type \in Singletons \ raced => PagesOf(q.type) = {}
    BY <2>2 DEF PagesInv, OnePage
  <2> QED
    BY <1>1, <1>3, <2>0, <2>1, <2>3, PagesGain
<1> QED
  BY <1>0, <1>2, <1>3 DEF StoresPage

LEMMA UpdatesPageKeeps ==
  ASSUME PagesInv, NEW r \in Requests, NEW p \in PageIds, UpdatesPage(r, p)
  PROVE  PagesInv'
<1>1. IsPage(p) /\ Ends(r) /\ UNCHANGED <<versions, revised, raced>>
  BY DEF UpdatesPage, histG
<1>2. PageRow(page[p])
  BY <1>1 DEF PagesInv, PagesTyped, Pages
<1>3. PICK slug \in {{s} : s \in Slugs} \cup {page[p].slug}, status \in {"DRAFT", "PUBLISHED"} :
        page' = IF Taken(slug, {p}) THEN page ELSE [page EXCEPT ![p].slug = slug, ![p].status = status]
  BY DEF UpdatesPage
<1>4. /\ IsFun(req', Requests) /\ req'[r] = Over /\ \A s \in Requests \ {r} : req'[s] = req[s]
  BY <1>1, EndMoves, RaisedCalls
<1>5. CASE Taken(slug, {p})
  BY <1>1, <1>3, <1>4, <1>5, OverCalls, PagesIdle
<1>6. CASE ~Taken(slug, {p})
  <2> DEFINE row == [page[p] EXCEPT !.slug = slug, !.status = status]
  <2>1. slug \in Addresses
    BY <1>2, RowFacts DEF Addresses
  <2>2. PageRow(row) /\ row.type = page[p].type /\ row.live = page[p].live /\ row.slug = slug /\ row.secs = page[p].secs
    BY <1>2, <1>3, <2>1 DEF PageRow
  <2>3. page' = [page EXCEPT ![p] = row]
    BY <1>3, <1>6
  <2> HIDE DEF row
  <2>4. IsFun(page', PageIds) /\ page'[p] = row /\ \A o \in PageIds \ {p} : page'[o] = page[o]
    BY <2>3, RaisedCalls DEF IsFun
  <2>5. Touched(p) /\ \A o \in PageIds \ {p} : Same(o)
    BY <1>1, <2>2, <2>4 DEF Touched, Same, Published
  <2>6. slug = {} \/ \A o \in PageIds \ {p} : IsPage(o) => page[o].slug # slug
    BY <1>6 DEF Taken, Pages
  <2>7. req'[r].op \notin PageOps /\ IsFun(versions', PageIds) /\ IsFun(revised', PageIds)
    BY <1>1, <1>4, OverCalls, RaisedCalls
  <2>8. PageCall(req'[r]) /\ Found(req[r])' /\ Snapped(req[r])'
    BY <1>4, OverCalls DEF PageCall, Found, Snapped, Over
  <2> QED
    BY <1>1, <1>4, <2>2, <2>4, <2>5, <2>6, <2>7, <2>8, PagesChange DEF PageOps
<1> QED
  BY <1>5, <1>6

LEMMA DeletesPageKeeps ==
  ASSUME PagesInv, NEW r \in Requests, NEW p \in PageIds, DeletesPage(r, p)
  PROVE  PagesInv'
<1>1. /\ IsPage(p) /\ page[p].type \notin Singletons /\ Ends(r) /\ UNCHANGED <<revised, raced>>
      /\ page' = [page EXCEPT ![p] = Deleted] /\ versions' = [versions EXCEPT ![p] = << >>]
  BY DEF DeletesPage, MayGo
<1>2. /\ IsFun(req', Requests) /\ req'[r] = Over /\ \A s \in Requests \ {r} : req'[s] = req[s]
  BY <1>1, EndMoves, RaisedCalls
<1>3. /\ IsFun(page', PageIds) /\ IsFun(versions', PageIds) /\ IsFun(revised', PageIds)
      /\ Removed(p) /\ \A o \in PageIds \ {p} : Same(o)
  BY <1>1, RaisedCalls DEF IsFun, Removed, Same
<1>4. ~IsPage(p)'
  BY <1>3 DEF Removed, IsPage
<1>5. PageCall(req'[r]) /\ Found(req[r])' /\ Snapped(req[r])' /\ req'[r].op \notin PageOps
  BY <1>2, OverCalls DEF PageCall, Found, Snapped, Over
<1> QED
  BY <1>1, <1>2, <1>3, <1>4, <1>5, PagesChange DEF PageOps

\* The draft of a page is rewritten, and counted as edited.
LEMMA DraftKeeps ==
  ASSUME PagesInv, NEW r \in Requests, Ends(r), NEW p \in PageIds, IsPage(p), NEW row, PageRow(row),
         row.type = page[p].type, row.live = page[p].live, row.slug = page[p].slug,
         page' = [page EXCEPT ![p] = row], Edited(p), UNCHANGED <<versions, raced>>
  PROVE  PagesInv'
<1>1. /\ IsFun(req', Requests) /\ req'[r] = Over /\ \A s \in Requests \ {r} : req'[s] = req[s]
  BY EndMoves, RaisedCalls
<1>2. /\ IsFun(page', PageIds) /\ IsFun(versions', PageIds) /\ IsFun(revised', PageIds)
      /\ page'[p] = row /\ revised'[p] = revised[p] + 1 /\ versions'[p] = versions[p]
      /\ \A o \in PageIds \ {p} : Same(o)
  BY RaisedCalls DEF IsFun, Edited, Same
<1>3. Touched(p)
  BY <1>2 DEF Touched
<1>4. PageCall(req'[r]) /\ Found(req[r])' /\ Snapped(req[r])' /\ req'[r].op \notin PageOps
  BY <1>1, OverCalls DEF PageCall, Found, Snapped, Over
<1> QED
  BY <1>1, <1>2, <1>3, <1>4, PagesChange DEF PageOps

LEMMA SectionsKeep ==
  ASSUME PagesInv, NEW r \in Requests, Ends(r), NEW p \in PageIds, IsPage(p), NEW secs,
         page' = [page EXCEPT ![p].secs = secs], Edited(p), UNCHANGED <<versions, raced>>
  PROVE  PagesInv'
<1>1. PageRow(page[p])
  BY DEF PagesInv, PagesTyped, Pages
<1> DEFINE row == [page[p] EXCEPT !.secs = secs]
<1>2. /\ PageRow(row) /\ row.type = page[p].type /\ row.live = page[p].live /\ row.slug = page[p].slug
  BY <1>1 DEF PageRow
<1>3. page' = [page EXCEPT ![p] = row]
  OBVIOUS
<1> HIDE DEF row
<1> QED
  BY <1>2, <1>3, DraftKeeps

LEMMA EditingKeeps ==
  ASSUME PagesInv, NEW r \in Requests, NEW p \in PageIds,
         EditsSection(r, p) \/ DeletesSection(r, p) \/ ReordersSections(r, p)
  PROVE  PagesInv'
<1>1. IsPage(p) /\ Ends(r) /\ Edited(p) /\ UNCHANGED <<versions, raced>>
  BY DEF EditsSection, DeletesSection, ReordersSections
<1>2. \E secs : page' = [page EXCEPT ![p].secs = secs]
  BY DEF EditsSection, DeletesSection, ReordersSections
<1> QED
  BY <1>1, <1>2, SectionsKeep

LEMMA CountsSectionsKeeps ==
  ASSUME PagesInv, NEW r \in Requests, NEW p \in PageIds,
         CountsSections(r, p) \/ \E v \in 1 .. Len(versions[p]) : StartsRestore(r, p, v)
  PROVE  PagesInv'
<1>1. UNCHANGED <<page, versions, revised, raced>>
  BY DEF CountsSections, StartsRestore, varsG, rowsG, histG
<1>2. PICK q : /\ Start(r, q)
               /\ \/ q.op = "add" /\ q.p = p
                  \/ q.op = "restore" /\ q.pages = {p}
  <2>1. CASE CountsSections(r, p)
    <3>1. PICK n : Start(r, [op |-> "add", p |-> p, n |-> n])
      BY <2>1 DEF CountsSections
    <3> QED
      BY <3>1
  <2>2. CASE \E v \in 1 .. Len(versions[p]) : StartsRestore(r, p, v)
    <3>1. PICK v : Start(r, [op |-> "restore", pages |-> {p}, v |-> v, seen |-> Ids(page[p].secs)])
      BY <2>2 DEF StartsRestore
    <3> QED
      BY <3>1
  <2> QED
    BY <2>1, <2>2
<1>3. /\ IsFun(req', Requests) /\ req'[r] = q /\ \A s \in Requests \ {r} : req'[s] = req[s]
  BY <1>2, StartMoves, RaisedCalls
<1>4. PageCall(req'[r]) /\ Found(req[r])' /\ Snapped(req[r])'
  BY <1>2, <1>3 DEF PageCall, Found, Snapped
<1>5. \A t : r \notin Missing(t)'
  BY <1>2, <1>3, OverCalls
<1> QED
  BY <1>1, <1>3, <1>4, <1>5, PagesAside

LEMMA AddsSectionKeeps ==
  ASSUME PagesInv, NEW r \in Requests, NEW key, AddsSection(r, key)
  PROVE  PagesInv'
<1>0. PICK p : p = req[r].p
  OBVIOUS
<1>1. req[r].op = "add" /\ Ends(r) /\ UNCHANGED <<versions, raced>>
  BY DEF AddsSection, Running
<1>2. p \in PageIds
  BY <1>0, <1>1, RaisedCalls DEF PageCall
<1>3. CASE IsPage(p)
  <2>1. Edited(p) /\ \E secs : page' = [page EXCEPT ![p].secs = secs]
    BY <1>0, <1>3 DEF AddsSection
  <2> QED
    BY <1>1, <1>2, <1>3, <2>1, SectionsKeep
<1>4. CASE ~IsPage(p)
  <2>1. UNCHANGED <<page, versions, revised, raced>>
    BY <1>0, <1>1, <1>4 DEF AddsSection
  <2> QED
    BY <1>1, <2>1, EndMoves, RaisedCalls, OverCalls, PagesIdle
<1> QED
  BY <1>3, <1>4

LEMMA RestoresKeeps ==
  ASSUME PagesInv, NEW r \in Requests, Restores(r)
  PROVE  PagesInv'
<1>0. PICK q : q = req[r]
  OBVIOUS
<1>1. q.op = "restore" /\ Ends(r) /\ UNCHANGED <<versions, raced>>
  BY <1>0 DEF Restores, Running
<1>2. q.pages \subseteq PageIds
  BY <1>0, <1>1, RaisedCalls DEF PageCall
<1>3. PICK p \in q.pages :
        IF ~IsPage(p) THEN UNCHANGED <<page, fresh, revised, written>>
        ELSE LET left == {s \in page[p].secs : s.id \notin q.seen}
                 new  == Rebuilt(versions[p][q.v].secs, fresh)
             IN  /\ page' = [page EXCEPT ![p] = [Restored(p) EXCEPT !.secs = left \cup new]]
                 /\ fresh' = fresh + Cardinality(new) + 1 /\ Edited(p)
                 /\ written' = (written \ Texts(page[p].secs)) \cup Texts(left \cup new)
  BY <1>0 DEF Restores
<1>4. CASE ~IsPage(p)
  <2>1. UNCHANGED <<page, versions, revised, raced>>
    BY <1>1, <1>3, <1>4
  <2> QED
    BY <1>1, <2>1, EndMoves, RaisedCalls, OverCalls, PagesIdle
<1>5. CASE IsPage(p)
  <2>1. PICK secs : page' = [page EXCEPT ![p] = [Restored(p) EXCEPT !.secs = secs]]
    BY <1>3, <1>5
  <2>2. Edited(p)
    BY <1>3, <1>5
  <2>3. PageRow(page[p])
    BY <1>2, <1>5 DEF PagesInv, PagesTyped, Pages
  <2> DEFINE row == [Restored(p) EXCEPT !.secs = secs]
  <2>4. /\ PageRow(row) /\ row.type = page[p].type /\ row.live = page[p].live /\ row.slug = page[p].slug
    BY <2>3 DEF PageRow, Restored
  <2>5. page' = [page EXCEPT ![p] = row]
    BY <2>1
  <2> HIDE DEF row
  <2> QED
    BY <1>1, <1>2, <1>5, <2>2, <2>4, <2>5, DraftKeeps
<1> QED
  BY <1>4, <1>5

LEMMA ReadsToPublishFacts ==
  ASSUME NEW q, NEW p, q \in [op : {"publish"}, at : {"read", "write"}, todo : Seq(PageIds) \ {<< >>},
                              snap : {q.snap}, edits : Nat], revised[p] \in Nat
  PROVE  LET new == ReadsToPublish(q, p) IN
         /\ new \in [op : {"publish"}, at : {"read", "write"}, todo : Seq(PageIds) \ {<< >>},
                     snap : {new.snap}, edits : Nat]
         /\ new.op = "publish" /\ new.todo = q.todo /\ new.snap = Published(p) /\ new.edits = revised[p]
BY DEF ReadsToPublish

\* A page read to be published.
LEMMA ReadsKeep ==
  ASSUME PagesInv, NEW r \in Requests, UNCHANGED varsG, NEW q, NEW p, Start(r, ReadsToPublish(q, p)),
         q \in [op : {"publish"}, at : {"read", "write"}, todo : Seq(PageIds) \ {<< >>},
                snap : {q.snap}, edits : Nat],
         \A i \in 1 .. Len(q.todo) : page[q.todo[i]] # Absent,
         p = Head(q.todo)
  PROVE  PagesInv'
<1>1. UNCHANGED <<page, versions, revised, raced>>
  BY DEF varsG, rowsG, histG
<1>2. p \in PageIds
  OBVIOUS
<1>3. revised[p] \in Nat
  BY <1>2, RaisedCalls
<1> DEFINE new == ReadsToPublish(q, p)
<1>4. /\ new \in [op : {"publish"}, at : {"read", "write"}, todo : Seq(PageIds) \ {<< >>},
                  snap : {new.snap}, edits : Nat]
      /\ new.op = "publish" /\ new.todo = q.todo /\ new.snap = Published(p) /\ new.edits = revised[p]
  BY <1>3, ReadsToPublishFacts
<1>5. Start(r, new)
  OBVIOUS
<1> HIDE DEF new
<1>6. /\ IsFun(req', Requests) /\ req'[r] = new /\ \A s \in Requests \ {r} : req'[s] = req[s]
  BY <1>5, StartMoves, RaisedCalls
<1>7. PageCall(req'[r])
  BY <1>4, <1>6 DEF PageCall
<1>8. Found(req[r])'
  BY <1>4, <1>6 DEF Found
<1>9. Snapped(req[r])'
  BY <1>1, <1>3, <1>4, <1>6 DEF Snapped, Published
<1>10. \A t : r \notin Missing(t)'
  BY <1>4, <1>6, OverCalls
<1> QED
  BY <1>1, <1>6, <1>7, <1>8, <1>9, <1>10, PagesAside

LEMMA StartsPublishKeeps ==
  ASSUME PagesInv, NEW r \in Requests, NEW p \in PageIds, StartsPublish(r, p)
  PROVE  PagesInv'
<1> DEFINE q == Publishing(<<p>>)
<1>1. /\ q \in [op : {"publish"}, at : {"read", "write"}, todo : Seq(PageIds) \ {<< >>},
                snap : {q.snap}, edits : Nat]
      /\ q.todo = <<p>>
  BY DEF Publishing
<1>2. page[p] # Absent /\ Start(r, ReadsToPublish(q, p)) /\ UNCHANGED varsG
  BY DEF StartsPublish, IsPage
<1> HIDE DEF q
<1>3. p = Head(q.todo) /\ \A i \in 1 .. Len(q.todo) : page[q.todo[i]] # Absent
  BY <1>1, <1>2
<1> QED
  BY <1>1, <1>2, <1>3, ReadsKeep

LEMMA ReadsNextKeeps ==
  ASSUME PagesInv, NEW r \in Requests, ReadsNext(r)
  PROVE  PagesInv'
<1>0. PICK q, p : q = req[r] /\ p = Head(q.todo)
  OBVIOUS
<1>1. q.op = "publish" /\ Start(r, ReadsToPublish(q, p)) /\ UNCHANGED varsG
  BY <1>0 DEF ReadsNext, At
<1>2. q \in [op : {"publish"}, at : {"read", "write"}, todo : Seq(PageIds) \ {<< >>},
             snap : {q.snap}, edits : Nat]
  BY <1>0, <1>1, RaisedCalls DEF PageCall
<1>3. \A i \in 1 .. Len(q.todo) : page[q.todo[i]] # Absent
  BY <1>0, <1>1, RaisedCalls DEF Snapped
<1> QED
  BY <1>0, <1>1, <1>2, <1>3, ReadsKeep

LEMMA PublishesKeeps ==
  ASSUME PagesInv, NEW r \in Requests, Publishes(r)
  PROVE  PagesInv'
<1>0. PICK q, p : q = req[r] /\ p = Head(q.todo)
  OBVIOUS
<1>1. q.op = "publish" /\ q.at = "write" /\ UNCHANGED <<revised, raced>>
  BY <1>0 DEF Publishes, At, histG
<1>2. /\ q.todo \in Seq(PageIds) /\ q.todo # << >> /\ q.edits \in Nat
      /\ \A i \in 1 .. Len(q.todo) : page[q.todo[i]] # Absent
  BY <1>0, <1>1, RaisedCalls DEF PageCall, Snapped
<1>3. p \in PageIds
  BY <1>0, <1>2
<1>4. CASE ~IsPage(p)
  <2>1. Ends(r) /\ UNCHANGED <<page, versions, revised, raced>>
    BY <1>0, <1>1, <1>4 DEF Publishes
  <2> QED
    BY <2>1, EndMoves, RaisedCalls, OverCalls, PagesIdle
<1>5. CASE IsPage(p)
  <2> DEFINE v == Version(q.snap, "published", q.edits)
             row == [page[p] EXCEPT !.live = Len(versions[p]) + 1, !.status = "PUBLISHED"]
             next == Publishing(Tail(q.todo))
  <2>1. /\ versions' = [versions EXCEPT ![p] = Append(@, v)]
        /\ page' = [page EXCEPT ![p] = row]
        /\ IF Len(q.todo) = 1 THEN Ends(r) ELSE Start(r, next)
    BY <1>0, <1>5 DEF Publishes
  <2>2. PageRow(page[p]) /\ Len(versions[p]) \in Nat
    BY <1>3, <1>5, SeqFacts DEF PagesInv, PagesTyped, Pages, Versioned
  <2>3. /\ PageRow(row) /\ row.type = page[p].type /\ row.live = Len(versions[p]) + 1
        /\ row.slug = page[p].slug /\ row.secs = page[p].secs
    <3>1. Len(versions[p]) + 1 \in Nat
      BY <2>2
    <3>2. PICK old, n : old = page[p] /\ n = Len(versions[p]) + 1
      OBVIOUS
    <3>3. PageRow(old) /\ n \in Nat
      BY <2>2, <3>1, <3>2
    <3>4. PICK new : new = row
      OBVIOUS
    <3>5. new = [old EXCEPT !.live = n, !.status = "PUBLISHED"]
      BY <3>2, <3>4
    <3>6. PageRow(new) /\ new.type = old.type /\ new.live = n /\ new.slug = old.slug /\ new.secs = old.secs
      BY <3>3, <3>5 DEF PageRow
    <3> HIDE DEF row
    <3> QED
      BY <3>2, <3>4, <3>6
  <2>4. v.how = "published" /\ v.edits = q.edits /\ v.secs = q.snap
    BY DEF Version
  <2>5. q.edits <= revised[p] /\ (q.edits = revised[p] => q.snap = Published(p))
    BY <1>0, <1>1, <1>3, <1>5, RaisedCalls DEF Snapped
  <2>6. /\ next.op = "publish" /\ next.at = "read" /\ next.todo = Tail(q.todo)
        /\ Len(q.todo) # 1 => PageCall(next)
    <3>1. ASSUME Len(q.todo) # 1 PROVE Tail(q.todo) \in Seq(PageIds) \ {<< >>}
      <4>1. Tail(q.todo) \in Seq(PageIds) /\ Len(Tail(q.todo)) = Len(q.todo) - 1
        BY <1>2, HeadTailProperties
      <4>2. Len(q.todo) \in Nat \ {0} /\ Len(<< >>) = 0
        BY <1>2, EmptySeq
      <4>3. Len(Tail(q.todo)) # Len(<< >>)
        BY <3>1, <4>1, <4>2
      <4> QED
        BY <4>1, <4>3
    <3> QED
      BY <3>1 DEF Publishing, PageCall
  <2> HIDE DEF v, row, next
  <2>7. /\ IsFun(page', PageIds) /\ IsFun(versions', PageIds) /\ IsFun(revised', PageIds)
        /\ page'[p] = row /\ versions'[p] = Append(versions[p], v) /\ \A o \in PageIds \ {p} : Same(o)
    BY <1>1, <1>3, <2>1, RaisedCalls DEF IsFun, Same
  <2>8. Shown(p)
    BY <1>1, <1>2, <1>5, <2>3, <2>4, <2>5, <2>7 DEF Shown, Published
  <2>9. /\ IsFun(req', Requests) /\ \A s \in Requests \ {r} : req'[s] = req[s]
        /\ req'[r] = IF Len(q.todo) = 1 THEN Over ELSE next
    BY <2>1, EndMoves, StartMoves, RaisedCalls
  <2>10. PageCall(req'[r]) /\ Found(req[r])' /\ Snapped(req[r])'
         /\ req'[r].op \notin {"ensure", "create", "theme", "import"}
    <3>1. CASE Len(q.todo) = 1
      BY <2>9, <3>1, OverCalls DEF PageCall, Found, Snapped, Over, PageOps
    <3>2. CASE Len(q.todo) # 1
      <4>1. \A i \in 1 .. Len(next.todo) : page'[next.todo[i]] # Absent
        <5>1. PageRow(row) => row # Absent
          BY RowFacts
        <5>2. \A i \in 1 .. Len(next.todo) : next.todo[i] \in PageIds /\ page[next.todo[i]] # Absent
          BY <1>2, <2>6, <3>2
        <5> QED
          BY <2>3, <2>7, <5>1, <5>2 DEF Same
      <4> QED
        BY <2>6, <2>9, <3>2, <4>1 DEF Found, Snapped
    <3> QED
      BY <3>1, <3>2
  <2> QED
    BY <1>1, <1>3, <2>3, <2>7, <2>8, <2>9, <2>10, PagesChange
<1> QED
  BY <1>4, <1>5

-----------------------------------------------------------------------------
(* Kits and presets.                                                        *)

LEMMA PageIdsFacts ==
  /\ IsFiniteSet(PageIds) /\ PageIds \subseteq Nat \ {0}
  /\ \A p \in PageIds : 1 .. p \subseteq PageIds
BY PageIdsRange, FS_CardinalityType

LEMMA OldestFacts ==
  ASSUME NEW ps, ps \subseteq PageIds, ps # {}
  PROVE  Oldest(ps) \in ps
<1>1. \E p \in ps : \A o \in ps : p <= o
  BY PageIdsFacts, HasLeast
<1> QED
  BY <1>1 DEF Oldest

\* A set as a sequence names each of its elements once.
LEMMA SetToSeqFacts ==
  ASSUME NEW X, IsFiniteSet(X)
  PROVE  /\ SetToSeq(X) \in Seq(X)
         /\ \A i, j \in 1 .. Len(SetToSeq(X)) : SetToSeq(X)[i] = SetToSeq(X)[j] => i = j
<1>1. Cardinality(X) \in Nat /\ ExistsBijection(1 .. Cardinality(X), X)
  BY FS_CardinalityType
<1>2. \E f \in [1 .. Cardinality(X) -> X] : IsInjective(f)
  BY <1>1 DEF ExistsBijection, Bijection, Injection
<1>3. SetToSeq(X) \in [1 .. Cardinality(X) -> X] /\ IsInjective(SetToSeq(X))
  BY <1>2 DEF SetToSeq
<1>4. SetToSeq(X) \in Seq(X)
  BY <1>1, <1>3, SeqDef
<1>5. DOMAIN SetToSeq(X) = 1 .. Len(SetToSeq(X))
  BY <1>4, LenProperties
<1> QED
  BY <1>3, <1>4, <1>5 DEF IsInjective

LEMMA MissingFinite ==
  ASSUME NEW X, X \subseteq Singletons \ Listing
  PROVE  IsFiniteSet(X)
<1>1. IsFiniteSet({"HEADER"} \cup {"FOOTER"} \cup {"HOME"} \cup {"PRODUCT_TEMPLATE"})
  BY FS_Singleton, FS_Union
<1>2. Singletons \ Listing = {"HEADER"} \cup {"FOOTER"} \cup {"HOME"} \cup {"PRODUCT_TEMPLATE"}
  BY DEF Singletons, Listing, Chrome
<1> QED
  BY <1>1, <1>2, FS_Subset

LEMMA StartsImportKeeps ==
  ASSUME PagesInv, NEW r \in Requests, NEW kit \in DOMAIN Kits, NEW demos \in BOOLEAN, StartsImport(r, kit, demos)
  PROVE  PagesInv'
<1> DEFINE types == DOMAIN Kits[kit]
           found == [t \in {t \in types : PagesOf(t) # {}} |-> CHOOSE p \in PagesOf(t) : TRUE]
           pages == {found[t] : t \in DOMAIN found}
           q == [op |-> "import", at |-> "wipe", kit |-> kit, demos |-> demos, pages |-> pages,
                 before |-> [p \in pages |-> Beforehand(p)], missing |-> types \ DOMAIN found, seen |-> {}]
<1>1. Start(r, q) /\ UNCHANGED <<page, versions, revised, raced>>
  BY DEF StartsImport, varsG, rowsG, histG
<1>2. types \subseteq Singletons \ Listing
  BY KitsPlain
<1>3. \A p \in pages : p \in PageIds /\ IsPage(p) /\ page[p].type \in Singletons
  BY <1>2 DEF PagesOf, Pages
<1>4. \A t \in types \ DOMAIN found : PagesOf(t) = {}
  OBVIOUS
<1>5. q.op = "import" /\ q.pages = pages /\ q.missing = types \ DOMAIN found
  OBVIOUS
<1>6. PageCall(q)
  BY <1>2, <1>3 DEF PageCall
<1> HIDE DEF q, found, pages, types
<1>7. /\ IsFun(req', Requests) /\ req'[r] = q /\ \A s \in Requests \ {r} : req'[s] = req[s]
  BY <1>1, StartMoves, RaisedCalls
<1>8. Found(req[r])' /\ Snapped(req[r])'
  BY <1>1, <1>3, <1>5, <1>7 DEF Found, Snapped, IsPage
<1>9. \A t : r \in Missing(t)' => PagesOf(t) = {}
  BY <1>4, <1>5, <1>7 DEF Missing
<1> QED
  BY <1>1, <1>6, <1>7, <1>8, <1>9, PagesAside

LEMMA WipesKeeps ==
  ASSUME PagesInv, NEW r \in Requests, WipesForImport(r)
  PROVE  PagesInv'
<1>0. PICK q : q = req[r]
  OBVIOUS
<1>1. q.op = "import" /\ UNCHANGED <<page, versions, revised, raced>>
  BY <1>0 DEF WipesForImport, At, varsG, rowsG, histG
<1>2. PageCall(q) /\ Found(q) /\ Snapped(q)
  BY <1>0, RaisedCalls
<1>3. PICK seen : req' = [req EXCEPT ![r].at = "commit", ![r].seen = seen]
  BY DEF WipesForImport
<1> DEFINE new == [q EXCEPT !.at = "commit", !.seen = seen]
<1>4. /\ new.op = "import" /\ new.pages = q.pages /\ new.missing = q.missing /\ PageCall(new)
  BY <1>1, <1>2 DEF PageCall
<1>5. Start(r, new)
  BY <1>0, <1>3 DEF Start
<1> HIDE DEF new
<1>6. /\ IsFun(req', Requests) /\ req'[r] = new /\ \A s \in Requests \ {r} : req'[s] = req[s]
  BY <1>5, StartMoves, RaisedCalls
<1>7. Found(req[r])' /\ Snapped(req[r])'
  BY <1>1, <1>2, <1>4, <1>6 DEF Found, Snapped, IsPage
<1>8. \A t : r \in Missing(t)' => r \in Missing(t)
  BY <1>0, <1>1, <1>4, <1>6 DEF Missing, InFlight, Idle, Over
<1> QED
  BY <1>1, <1>4, <1>6, <1>7, <1>8, PagesAside

LEMMA StartsThemeKeeps ==
  ASSUME PagesInv, NEW r \in Requests, NEW name \in DOMAIN Presets, NEW publish \in BOOLEAN,
         StartsTheme(r, name, publish)
  PROVE  PagesInv'
<1> DEFINE types == DOMAIN Presets[name]
           there == {t \in types : PagesOf(t) # {}}
           pages == {Oldest(PagesOf(t)) : t \in there}
           q == [op |-> "theme", name |-> name, publish |-> publish, pages |-> pages,
                 before |-> [p \in pages |-> ChromeBefore(p)], missing |-> types \ there,
                 read |-> [p \in pages |-> page[p].secs], was |-> [p \in pages |-> page[p].status]]
<1>1. Start(r, q) /\ UNCHANGED <<page, versions, revised, raced>>
  BY DEF StartsTheme, varsG, rowsG, histG
<1>2. types \subseteq Singletons \ Listing
  BY PresetsPlain DEF Singletons, Chrome, Listing
<1>3. \A p \in pages : p \in PageIds /\ IsPage(p) /\ page[p].type \in Singletons
  <2> SUFFICES ASSUME NEW t \in there, NEW p, p = Oldest(PagesOf(t))
               PROVE  p \in PageIds /\ IsPage(p) /\ page[p].type \in Singletons
    OBVIOUS
  <2>1. PagesOf(t) \subseteq PageIds
    BY DEF PagesOf, Pages
  <2>2. p \in PagesOf(t)
    BY <2>1, OldestFacts
  <2> QED
    BY <1>2, <2>2 DEF PagesOf, Pages
<1>4. \A t \in types \ there : PagesOf(t) = {}
  OBVIOUS
<1>5. q.op = "theme" /\ q.pages = pages /\ q.missing = types \ there
  OBVIOUS
<1>6. PageCall(q)
  BY <1>2, <1>3 DEF PageCall
<1> HIDE DEF q, there, pages, types
<1>7. /\ IsFun(req', Requests) /\ req'[r] = q /\ \A s \in Requests \ {r} : req'[s] = req[s]
  BY <1>1, StartMoves, RaisedCalls
<1>8. Found(req[r])' /\ Snapped(req[r])'
  BY <1>1, <1>3, <1>5, <1>7 DEF Found, Snapped, IsPage
<1>9. \A t : r \in Missing(t)' => PagesOf(t) = {}
  BY <1>4, <1>5, <1>7 DEF Missing
<1> QED
  BY <1>1, <1>6, <1>7, <1>8, <1>9, PagesAside

\* What a kit or preset does to the rows when it commits: those found get other
\* sections, with a restore point; those missing are made on the next rows.
Styles(q, first, made, rows) ==
  /\ made = SetToSeq(q.missing)
  /\ made # << >> => first \in NextRow
  /\ rows = IF made = << >> THEN {} ELSE first .. (first + Len(made) - 1)
  /\ rows \subseteq PageIds
  /\ IsFun(page', PageIds)
  /\ \A p \in q.pages : \E secs : page'[p] = [page[p] EXCEPT !.secs = secs]
  /\ \A p \in rows \ q.pages : \E secs : page'[p] = NewPage(made[p - first + 1], {}, {}, secs)
  /\ \A p \in PageIds \ (q.pages \cup rows) : page'[p] = page[p]
  /\ versions' = RestorePoints(q, versions)
  /\ revised' = [p \in PageIds |-> IF p \in q.pages THEN revised[p] + 1 ELSE revised[p]]

Styled(q, first, made, rows) ==
  /\ q.pages \subseteq PageIds /\ q.missing \subseteq Singletons \ Listing
  /\ \A p \in q.pages : Touched(p) /\ page'[p].slug = page[p].slug
  /\ \A p \in rows : /\ Filled(p) /\ page'[p].slug = {}
                     /\ p - first + 1 \in 1 .. Len(made) /\ page'[p].type = made[p - first + 1]
                     /\ \A o \in PageIds : o < p => page[o] # Absent \/ o \in rows
  /\ \A p \in PageIds \ (q.pages \cup rows) : Same(p)
  /\ \A i, j \in 1 .. Len(made) : made[i] = made[j] => i = j
  /\ \A i \in 1 .. Len(made) : made[i] \in q.missing

LEMMA StyledRows ==
  ASSUME PagesInv, NEW r \in Requests, NEW q, q = req[r], q.op \in {"import", "theme"},
         NEW first, NEW made, NEW rows, Styles(q, first, made, rows)
  PROVE  Styled(q, first, made, rows)
<1>1. /\ q.pages \subseteq PageIds /\ q.missing \subseteq Singletons \ Listing
      /\ \A p \in q.pages : IsPage(p)
  BY RaisedCalls DEF PageCall, Found
<1>2. /\ made \in Seq(q.missing)
      /\ \A i, j \in 1 .. Len(made) : made[i] = made[j] => i = j
  BY <1>1, MissingFinite, SetToSeqFacts DEF Styles
<1>3. Len(made) \in Nat /\ \A i \in 1 .. Len(made) : made[i] \in q.missing
  BY <1>2
<1>4. ASSUME NEW p \in rows
      PROVE  /\ first \in Nat /\ p \in Nat /\ p - first + 1 \in 1 .. Len(made) /\ page[p] = Absent
             /\ \A o \in PageIds : o < p => page[o] # Absent \/ o \in rows
  <2>1. first \in NextRow /\ rows = first .. (first + Len(made) - 1) /\ p \in PageIds
    BY <1>4 DEF Styles
  <2>2. first \in Nat /\ first \in PageIds /\ page[first] = Absent /\ \A o \in PageIds : o < first => page[o] # Absent
    BY <2>1, PageIdsFacts DEF NextRow
  <2>3. p \in Nat /\ first <= p
    BY <2>1, <2>2, PageIdsFacts
  <2>4. page[p] = Absent
    BY <2>1, <2>2, <2>3 DEF PagesInv, RowsInOrder
  <2>5. p - first + 1 \in 1 .. Len(made)
    BY <1>3, <1>4, <2>1, <2>2, <2>3
  <2>6. ASSUME NEW o \in PageIds, o < p PROVE page[o] # Absent \/ o \in rows
    <3>1. o \in Nat
      BY PageIdsFacts
    <3>2. CASE o < first
      BY <2>2, <3>2
    <3>3. CASE first <= o
      BY <1>3, <1>4, <2>1, <2>2, <2>3, <2>6, <3>1, <3>3
    <3> QED
      BY <2>2, <3>1, <3>2, <3>3
  <2> QED
    BY <2>2, <2>3, <2>4, <2>5, <2>6
<1>5. \A p \in rows : p \notin q.pages
  BY <1>1, <1>4 DEF IsPage
<1>6. \A p \in PageIds : revised'[p] = IF p \in q.pages THEN revised[p] + 1 ELSE revised[p]
  BY DEF Styles
<1>7. ASSUME NEW p \in q.pages PROVE Touched(p) /\ page'[p].slug = page[p].slug
  <2>1. PICK secs : page'[p] = [page[p] EXCEPT !.secs = secs]
    BY <1>7 DEF Styles
  <2>2. p \in PageIds /\ IsPage(p) /\ PageRow(page[p])
    BY <1>1, <1>7 DEF PagesInv, PagesTyped, Pages
  <2>3. PICK old, new : old = page[p] /\ new = page'[p]
    OBVIOUS
  <2>4. PageRow(old) /\ new = [old EXCEPT !.secs = secs]
    BY <2>1, <2>2, <2>3
  <2>5. PageRow(new) /\ new.type = old.type /\ new.live = old.live /\ new.slug = old.slug
    BY <2>4 DEF PageRow
  <2>6. revised'[p] = revised[p] + 1
    BY <1>6, <1>7, <2>2
  <2>7. \/ versions'[p] = versions[p]
        \/ \E v : v.how # "published" /\ versions'[p] = Append(versions[p], v)
    <3>1. Version(q.before[p], "before", 0).how # "published"
      BY DEF Version
    <3> QED
      BY <1>7, <2>2, <3>1 DEF Styles, RestorePoints
  <2> QED
    BY <2>2, <2>3, <2>5, <2>6, <2>7 DEF Touched
<1>8. ASSUME NEW p \in rows PROVE Filled(p) /\ page'[p].slug = {} /\ page'[p].type = made[p - first + 1]
  <2>1. p \in PageIds \ q.pages /\ page[p] = Absent /\ p - first + 1 \in 1 .. Len(made)
    BY <1>4, <1>5, <1>8 DEF Styles
  <2>2. PICK secs : page'[p] = NewPage(made[p - first + 1], {}, {}, secs)
    BY <1>5, <1>8 DEF Styles
  <2>3. made[p - first + 1] \in Singletons
    BY <1>1, <1>3, <2>1
  <2>4. PICK t : t = made[p - first + 1] /\ t \in Singletons
    BY <2>3
  <2>5. /\ PageRow(NewPage(t, {}, {}, secs)) /\ NewPage(t, {}, {}, secs).type = t
        /\ NewPage(t, {}, {}, secs).slug = {} /\ NewPage(t, {}, {}, secs).live = 0
    BY <2>4 DEF PageRow, NewPage, Addresses
  <2>6. revised'[p] = revised[p] /\ versions'[p] = versions[p]
    BY <1>6, <2>1 DEF Styles, RestorePoints
  <2> QED
    BY <2>1, <2>2, <2>4, <2>5, <2>6 DEF Filled
<1>9. ASSUME NEW p \in PageIds \ (q.pages \cup rows) PROVE Same(p)
  BY <1>6, <1>9 DEF Styles, RestorePoints, Same
<1> QED
  BY <1>1, <1>2, <1>3, <1>4, <1>7, <1>8, <1>9 DEF Styled

LEMMA StyleKeeps ==
  ASSUME PagesInv, NEW r \in Requests, NEW q, q = req[r], q.op \in {"import", "theme"},
         NEW first, NEW made, NEW rows, Styles(q, first, made, rows),
         raced' = raced \cup UNION {Races(t, r) : t \in q.missing},
         IsFun(req', Requests), \A s \in Requests \ {r} : req'[s] = req[s],
         req'[r].op \notin {"ensure", "create", "theme", "import"},
         PageCall(req'[r]), Found(req[r])', Snapped(req[r])'
  PROVE  PagesInv'
<1>1. /\ q.pages \subseteq PageIds /\ q.missing \subseteq Singletons \ Listing
      /\ \A p \in q.pages : Touched(p) /\ page'[p].slug = page[p].slug
      /\ \A p \in rows : /\ Filled(p) /\ page'[p].slug = {}
                         /\ p - first + 1 \in 1 .. Len(made) /\ page'[p].type = made[p - first + 1]
                         /\ \A o \in PageIds : o < p => page[o] # Absent \/ o \in rows
      /\ \A p \in PageIds \ (q.pages \cup rows) : Same(p)
      /\ \A i, j \in 1 .. Len(made) : made[i] = made[j] => i = j
      /\ \A i \in 1 .. Len(made) : made[i] \in q.missing
  <2>1. Styled(q, first, made, rows)
    BY StyledRows
  <2> QED
    BY <2>1 DEF Styled
<1>2. rows \subseteq PageIds /\ IsFun(page', PageIds) /\ (rows # {} => first \in Nat)
  BY PageIdsFacts DEF Styles, NextRow
<1>3. \A p \in PageIds : Turns(p)
  BY <1>1, <1>2 DEF Turns
<1>4. \A p \in PageIds : PageRow(page'[p]) => page'[p] # Absent
  BY RowFacts
<1>5. \A p \in PageIds : Filled(p) => p \in rows
  BY <1>1, <1>4 DEF Filled, Touched, Same, IsPage
<1>6. \A p, o \in PageIds : Filled(p) /\ o < p => page'[o] # Absent
  <2> SUFFICES ASSUME NEW p \in PageIds, NEW o \in PageIds, Filled(p), o < p PROVE page'[o] # Absent
    OBVIOUS
  <2>1. page[o] # Absent \/ Filled(o)
    BY <1>1, <1>5
  <2> QED
    BY <1>3, <1>4, <2>1, RaisedCalls, TurnFacts DEF Filled
<1>7. \A p \in PageIds : IsPage(p)' => page'[p].slug = {} \/ (IsPage(p) /\ page'[p].slug = page[p].slug)
  BY <1>1 DEF Same, Touched, IsPage
<1>8. IsFun(versions', PageIds) /\ IsFun(revised', PageIds)
  BY DEF Styles, RestorePoints, IsFun
<1>9. raced \subseteq raced'
  OBVIOUS
<1>10. \A t : r \notin Missing(t)'
  BY OverCalls
<1>11. ASSUME NEW t \in Singletons \ raced'
       PROVE  \/ \A p \in PageIds : Filled(p) => page'[p].type # t
              \/ Missing(t)' = {} /\ \A p, o \in PagesOf(t)' : p = o
  <2>1. CASE t \notin q.missing
    BY <1>1, <1>5, <2>1
  <2>2. CASE t \in q.missing
    <3>1. r \in Missing(t)
      BY <2>2 DEF Missing, InFlight, Idle, Over
    <3>2. OnePage(t) /\ PagesOf(t) = {}
      BY <1>9, <1>11, <3>1 DEF PagesInv, OnePage
    <3>3. t \notin Races(t, r) /\ t \notin Listing
      BY <1>1, <1>11, <2>2
    <3>4. Missing(t) \ {r} = {}
      BY <3>3 DEF Races
    <3>5. Missing(t)' \subseteq Missing(t) \ {r}
      BY <1>10 DEF Missing, InFlight
    <3>6. \A p \in PagesOf(t)' : p \in rows
      <4> SUFFICES ASSUME NEW p \in PagesOf(t)', p \notin rows PROVE FALSE
        OBVIOUS
      <4>1. p \in PageIds /\ IsPage(p)' /\ page'[p].type = t
        BY DEF PagesOf, Pages
      <4>2. IsPage(p) /\ page[p].type = t
        BY <1>3, <1>5, <4>1, RaisedCalls, TurnFacts
      <4> QED
        BY <3>2, <4>1, <4>2 DEF PagesOf, Pages
    <3>7. ASSUME NEW p \in PagesOf(t)', NEW o \in PagesOf(t)' PROVE p = o
      <4>1. p \in rows /\ o \in rows /\ page'[p].type = t /\ page'[o].type = t
        BY <3>6 DEF PagesOf
      <4>2. p - first + 1 = o - first + 1
        BY <1>1, <4>1
      <4>3. p \in Nat /\ o \in Nat /\ first \in Nat
        BY <1>2, <4>1, PageIdsFacts
      <4> QED
        BY <4>2, <4>3
    <3> QED
      BY <3>4, <3>5, <3>7
  <2> QED
    BY <2>1, <2>2
<1> QED
  BY <1>2, <1>3, <1>6, <1>7, <1>8, <1>9, <1>10, <1>11, PagesStep

\* The rows a kit or preset makes are not in use.
LEMMA RowsApart ==
  ASSUME PagesInv, NEW r \in Requests, req[r].op \in {"import", "theme"}, NEW first \in NextRow, NEW p \in Nat,
         first <= p
  PROVE  p \notin req[r].pages
<1>1. first \in PageIds /\ page[first] = Absent
  BY DEF NextRow
<1>2. ASSUME p \in req[r].pages PROVE p \in PageIds /\ page[p] # Absent
  BY <1>2, RaisedCalls DEF PageCall, Found, IsPage
<1> QED
  BY <1>1, <1>2 DEF PagesInv, RowsInOrder

LEMMA ImportsKeeps ==
  ASSUME PagesInv, NEW r \in Requests, Imports(r)
  PROVE  PagesInv'
<1>0. PICK q : q = req[r]
  OBVIOUS
<1> DEFINE keys(p) == Kits[q.kit][page[p].type]
           placed == [p \in q.pages |-> [page[p] EXCEPT
                       !.secs = {s \in @ : s.id \notin q.seen} \cup Seeded(keys(p), fresh + 10 * p)]]
           new == SetToSeq(q.missing)
           first == CHOOSE p \in NextRow : TRUE
           kitted == [i \in 1 .. Len(new) |-> KitPage(q.kit, new[i], fresh + 10 * (first + i - 1))]
           rows == IF new = << >> THEN {} ELSE first .. (first + Len(new) - 1)
<1>1. /\ q.op = "import" /\ Ends(r) /\ NextRow # {} /\ (first + Len(new) - 1) \in PageIds
      /\ page' = [p \in PageIds |-> CASE p \in q.pages -> placed[p]
                                      [] p \in first .. (first + Len(new) - 1) -> kitted[p - first + 1]
                                      [] OTHER -> page[p]]
      /\ versions' = RestorePoints(q, versions)
      /\ revised' = [p \in PageIds |-> IF p \in q.pages THEN revised[p] + 1 ELSE revised[p]]
      /\ raced' = raced \cup UNION {Races(t, r) : t \in q.missing}
  BY <1>0 DEF Imports, At
<1>2. q.pages \subseteq PageIds /\ q.missing \subseteq Singletons \ Listing
  BY <1>0, <1>1, RaisedCalls DEF PageCall
<1>3. Len(new) \in Nat /\ (new = << >> <=> Len(new) = 0)
  <2>1. new \in Seq(q.missing)
    BY <1>2, MissingFinite, SetToSeqFacts
  <2> QED
    BY <2>1, EmptySeq
<1>4. first \in NextRow
  BY <1>1
<1>5. first \in Nat \ {0} /\ first \in PageIds
  BY <1>4, PageIdsFacts DEF NextRow
<1>6. first .. (first + Len(new) - 1) = rows
  BY <1>3, <1>5
<1>7. \A p \in q.pages : p \notin rows
  <2> SUFFICES ASSUME NEW p \in rows PROVE p \notin q.pages
    OBVIOUS
  <2>1. p \in Nat /\ first <= p
    BY <1>3, <1>5, <1>6
  <2> HIDE DEF placed, kitted, first, new, rows
  <2> QED
    BY <1>0, <1>1, <1>4, <2>1, RowsApart
<1>8. rows \subseteq PageIds
  <2> SUFFICES ASSUME NEW p \in first .. (first + Len(new) - 1) PROVE p \in PageIds
    BY <1>6
  <2>1. p \in 1 .. (first + Len(new) - 1)
    BY <1>3, <1>5
  <2> QED
    BY <1>1, <2>1, PageIdsFacts
<1>9. \A p \in q.pages : \E secs : page'[p] = [page[p] EXCEPT !.secs = secs]
  <2> SUFFICES ASSUME NEW p \in q.pages PROVE \E secs : page'[p] = [page[p] EXCEPT !.secs = secs]
    OBVIOUS
  <2>1. page'[p] = placed[p]
    <3> HIDE DEF placed, kitted, first, new, rows
    <3> QED
      BY <1>1, <1>2, <1>6, <1>7
  <2>2. \E secs : placed[p] = [page[p] EXCEPT !.secs = secs]
    OBVIOUS
  <2> HIDE DEF placed
  <2> QED
    BY <2>1, <2>2
<1>10. \A p \in rows \ q.pages : \E secs : page'[p] = NewPage(new[p - first + 1], {}, {}, secs)
  <2> SUFFICES ASSUME NEW p \in rows \ q.pages
               PROVE  \E secs : page'[p] = NewPage(new[p - first + 1], {}, {}, secs)
    OBVIOUS
  <2>1. page'[p] = kitted[p - first + 1]
    <3> HIDE DEF placed, kitted, first, new, rows
    <3> QED
      BY <1>1, <1>6, <1>8
  <2>2. p - first + 1 \in 1 .. Len(new)
    <3> HIDE DEF placed, kitted, first, new, rows
    <3> QED
      BY <1>3, <1>5, <1>6
  <2>3. kitted[p - first + 1] = KitPage(q.kit, new[p - first + 1], fresh + 10 * (first + (p - first + 1) - 1))
    <3> HIDE DEF first, new, rows
    <3> QED
      BY <2>2
  <2> HIDE DEF placed, kitted, first, new, rows
  <2> QED
    BY <2>1, <2>3 DEF KitPage
<1>11. \A p \in PageIds \ (q.pages \cup rows) : page'[p] = page[p]
  <2> HIDE DEF placed, kitted, first, new, rows
  <2> QED
    BY <1>1, <1>6
<1>12. IsFun(page', PageIds)
  <2> HIDE DEF placed, kitted, first, new, rows
  <2> QED
    BY <1>1 DEF IsFun
<1>13. Styles(q, first, new, rows)
  <2>1. new = SetToSeq(q.missing) /\ rows = IF new = << >> THEN {} ELSE first .. (first + Len(new) - 1)
    OBVIOUS
  <2> HIDE DEF placed, kitted, first, new, rows
  <2> QED
    BY <1>1, <1>4, <1>8, <1>9, <1>10, <1>11, <1>12, <2>1 DEF Styles
<1> HIDE DEF keys, placed, kitted, first, new, rows
<1>14. /\ IsFun(req', Requests) /\ req'[r] = Over /\ \A s \in Requests \ {r} : req'[s] = req[s]
  BY <1>1, EndMoves, RaisedCalls
<1>15. PageCall(req'[r]) /\ Found(req[r])' /\ Snapped(req[r])' /\ req'[r].op \notin PageOps
  BY <1>14, OverCalls DEF PageCall, Found, Snapped, Over
<1> QED
  BY <1>0, <1>1, <1>13, <1>14, <1>15, StyleKeeps DEF PageOps

LEMMA ThemesKeeps ==
  ASSUME PagesInv, NEW r \in Requests, Themes(r)
  PROVE  PagesInv'
<1>0. PICK q : q = req[r]
  OBVIOUS
<1> DEFINE preset(t) == Presets[q.name][t]
           plan(p) == Planned(q.read[p], preset(page[p].type), q.name, fresh + 10 * p)
           new == SetToSeq(q.missing)
           first == CHOOSE p \in NextRow : TRUE
           rows == IF new = << >> THEN {} ELSE first .. (first + Len(new) - 1)
           todo == ToPublish(q, rows)
<1>1. /\ q.op = "theme" /\ (new # << >> => NextRow # {} /\ rows \subseteq PageIds)
      /\ page' = [p \in PageIds |->
           CASE p \in q.pages -> [page[p] EXCEPT !.secs = Merged(@, q.read[p], plan(p))]
             [] p \in rows -> LET t == new[p - first + 1] IN
                              NewPage(t, {}, {}, Planned({}, preset(t), q.name, fresh + 10 * p))
             [] OTHER -> page[p]]
      /\ versions' = RestorePoints(q, versions)
      /\ revised' = [p \in PageIds |-> IF p \in q.pages THEN revised[p] + 1 ELSE revised[p]]
      /\ raced' = raced \cup UNION {Races(t, r) : t \in q.missing}
      /\ IF todo = << >> THEN Ends(r) ELSE Start(r, Publishing(todo))
  BY <1>0 DEF Themes, Running
<1>2. q.pages \subseteq PageIds /\ q.missing \subseteq Singletons \ Listing
  BY <1>0, <1>1, RaisedCalls DEF PageCall
<1>3. new = SetToSeq(q.missing) /\ rows = (IF new = << >> THEN {} ELSE first .. (first + Len(new) - 1))
      /\ todo = ToPublish(q, rows) /\ (new # << >> => first \in NextRow) /\ rows \subseteq PageIds
  BY <1>1
<1> HIDE DEF new, first, rows, todo
<1>4. \A p \in q.pages : \E secs : page'[p] = [page[p] EXCEPT !.secs = secs]
  <2> SUFFICES ASSUME NEW p \in q.pages PROVE \E secs : page'[p] = [page[p] EXCEPT !.secs = secs]
    OBVIOUS
  <2>1. page'[p] = [page[p] EXCEPT !.secs = Merged(page[p].secs, q.read[p], plan(p))]
    <3>1. p \notin rows
      <4>1. ASSUME p \in rows PROVE first \in Nat /\ p \in Nat /\ first <= p /\ first \in NextRow
        <5>1. p \in first .. (first + Len(new) - 1) /\ first \in NextRow
          BY <1>3, <4>1
        <5>2. first \in Nat
          BY <5>1, PageIdsFacts DEF NextRow
        <5>3. Len(new) \in Nat
          BY <1>2, <1>3, MissingFinite, SetToSeqFacts
        <5> QED
          BY <5>1, <5>2, <5>3
      <4> QED
        BY <1>0, <1>1, <4>1, RowsApart
    <3> HIDE DEF plan
    <3> QED
      BY <1>1, <1>2, <3>1
  <2> HIDE DEF plan
  <2> QED
    BY <2>1
<1>5. \A p \in rows \ q.pages : \E secs : page'[p] = NewPage(new[p - first + 1], {}, {}, secs)
  <2> SUFFICES ASSUME NEW p \in rows \ q.pages
               PROVE  \E secs : page'[p] = NewPage(new[p - first + 1], {}, {}, secs)
    OBVIOUS
  <2>1. page'[p] = NewPage(new[p - first + 1], {}, {}, Planned({}, preset(new[p - first + 1]), q.name, fresh + 10 * p))
    <3> HIDE DEF preset, plan
    <3> QED
      BY <1>1, <1>3
  <2> HIDE DEF preset
  <2> QED
    BY <2>1
<1> HIDE DEF preset, plan
<1>6. \A p \in PageIds \ (q.pages \cup rows) : page'[p] = page[p]
  BY <1>1
<1>7. IsFun(page', PageIds)
  BY <1>1 DEF IsFun
<1>8. Styles(q, first, new, rows)
  BY <1>1, <1>3, <1>4, <1>5, <1>6, <1>7 DEF Styles
<1>9. /\ \A p \in q.pages : Touched(p)
      /\ \A p \in rows : Filled(p)
  <2>1. Styled(q, first, new, rows)
    BY <1>0, <1>1, <1>8, StyledRows
  <2> QED
    BY <2>1 DEF Styled
<1>10. todo # << >> => /\ todo \in Seq(PageIds)
                       /\ \A i \in 1 .. Len(todo) : todo[i] \in q.pages \cup rows
  <2> SUFFICES ASSUME todo # << >> PROVE todo \in Seq(PageIds) /\ \A i \in 1 .. Len(todo) : todo[i] \in q.pages \cup rows
    OBVIOUS
  <2>1. PICK X : X = {p \in q.pages : q.was[p] = "PUBLISHED"} \cup rows
    OBVIOUS
  <2>2. X \subseteq PageIds /\ X \subseteq q.pages \cup rows
    BY <1>2, <1>3, <2>1
  <2>3. IsFiniteSet(X)
    BY <2>2, PageIdsFacts, FS_Subset
  <2>4. todo = SetToSeq(X)
    BY <1>3, <2>1 DEF ToPublish
  <2>5. todo \in Seq(X)
    BY <2>3, <2>4, SetToSeqFacts
  <2>6. \A i \in 1 .. Len(todo) : todo[i] \in X
    BY <2>5
  <2> QED
    BY <2>2, <2>5, <2>6
<1>11. \A p \in q.pages \cup rows : page'[p] # Absent
  BY <1>9, RowFacts DEF Touched, Filled
<1>12. /\ IsFun(req', Requests) /\ \A s \in Requests \ {r} : req'[s] = req[s]
       /\ req'[r] = IF todo = << >> THEN Over ELSE Publishing(todo)
  BY <1>1, EndMoves, StartMoves, RaisedCalls
<1>13. PageCall(req'[r]) /\ Found(req[r])' /\ Snapped(req[r])'
       /\ req'[r].op \notin {"ensure", "create", "theme", "import"}
  <2>1. CASE todo = << >>
    BY <1>12, <2>1 DEF PageCall, Found, Snapped, Over
  <2>2. CASE todo # << >>
    <3>1. PICK next : next = Publishing(todo)
      OBVIOUS
    <3>2. next.op = "publish" /\ next.at = "read" /\ next.todo = todo /\ PageCall(next)
      BY <1>10, <2>2, <3>1 DEF Publishing, PageCall
    <3>3. req'[r] = next
      BY <1>12, <2>2, <3>1
    <3> QED
      BY <1>10, <1>11, <2>2, <3>2, <3>3 DEF Found, Snapped
  <2> QED
    BY <2>1, <2>2
<1> QED
  BY <1>0, <1>1, <1>8, <1>12, <1>13, StyleKeeps

LEMMA PlanFailsKeeps ==
  ASSUME PagesInv, NEW r \in Requests, PlanFails(r)
  PROVE  PagesInv'
<1>1. Ends(r) /\ UNCHANGED <<page, versions, revised, raced>>
  BY DEF PlanFails, varsG, rowsG, histG
<1> QED
  BY <1>1, EndMoves, RaisedCalls, OverCalls, PagesIdle

-----------------------------------------------------------------------------
(* Each part of the site minds its own requests.                            *)

LEMMA StartsAs ==
  ASSUME IsFun(req, Requests), NEW r \in Requests, NEW before, NEW after, req[r].op \in before,
         NEW q, Start(r, q), q.op \in after
  PROVE  Moves(r, before, after)
BY StartMoves DEF Moves

LEMMA EndsAs ==
  ASSUME IsFun(req, Requests), NEW r \in Requests, NEW before, NEW after, req[r].op \in before, Ends(r),
         "done" \in after
  PROVE  Moves(r, before, after)
BY EndMoves DEF Moves, Over

LEMMA PublishMoves ==
  ASSUME PagesInv, NEW r \in Requests, NEW before, req[r].op \in before, NEW q, NEW p, Start(r, ReadsToPublish(q, p)),
         "op" \in DOMAIN q, q.op = "publish"
  PROVE  Moves(r, before, PageOps)
<1>1. ReadsToPublish(q, p).op = "publish"
  BY DEF ReadsToPublish
<1> QED
  BY <1>1, StartsAs, RaisedCalls DEF PageOps

LEMMA PageMoves ==
  ASSUME PagesInv, NEW r \in Requests, Building(r) \/ Editing(r) \/ Styling(r)
  PROVE  Moves(r, PageOps \cup {"idle"}, PageOps \cup {"done"})
<1> DEFINE B == PageOps \cup {"idle"}
           A == PageOps \cup {"done"}
<1>1. IsFun(req, Requests)
  BY RaisedCalls
<1>2. PageOps \subseteq A /\ "done" \in A /\ \A op \in PageOps : op \in B
  OBVIOUS
<1>3. Arrives(r) => req[r].op \in B
  BY DEF Arrives, Idle
<1>4. ASSUME NEW op \in PageOps, r \in Running(op) PROVE req[r].op \in B
  BY <1>4 DEF Running
<1>5. {"ensure", "create", "add", "publish", "restore", "import", "theme"} \subseteq PageOps
  BY DEF PageOps
<1> HIDE DEF A, B
<1>6. ASSUME Ends(r), req[r].op \in B PROVE Moves(r, B, A)
  BY <1>1, <1>2, <1>6, EndsAs
<1>7. ASSUME NEW q, Start(r, q), q.op \in PageOps, req[r].op \in B PROVE Moves(r, B, A)
  BY <1>1, <1>2, <1>7, StartsAs
<1>8. CASE Building(r)
  <2>1. ASSUME NEW t \in Singletons, EnsuresListing(r, t) \/ LooksFor(r, t) PROVE Moves(r, B, A)
    <3>1. Arrives(r) /\ (Ends(r) \/ \E q : Start(r, q) /\ q.op = "ensure")
      BY <2>1 DEF EnsuresListing, LooksFor
    <3> QED
      BY <1>3, <1>5, <1>6, <1>7, <3>1
  <2>2. ASSUME Provisions(r) \/ StoresPage(r) PROVE Moves(r, B, A)
    BY <1>4, <1>5, <1>6, <2>2 DEF Provisions, StoresPage
  <2>3. ASSUME NEW t, NEW kind, NEW slug, CreatesPage(r, t, kind, slug) PROVE Moves(r, B, A)
    <3>1. Arrives(r) /\ (Ends(r) \/ \E q : Start(r, q) /\ q.op = "create")
      BY <2>3 DEF CreatesPage
    <3> QED
      BY <1>3, <1>5, <1>6, <1>7, <3>1
  <2>4. ASSUME NEW p \in PageIds, UpdatesPage(r, p) \/ DeletesPage(r, p) PROVE Moves(r, B, A)
    BY <1>3, <1>6, <2>4 DEF UpdatesPage, DeletesPage
  <2>5. ASSUME NEW p \in PageIds, StartsPublish(r, p) PROVE Moves(r, B, A)
    <3>1. Arrives(r) /\ Start(r, ReadsToPublish(Publishing(<<p>>), p))
      BY <2>5 DEF StartsPublish
    <3>2. Publishing(<<p>>).op = "publish" /\ "op" \in DOMAIN Publishing(<<p>>)
      BY DEF Publishing
    <3>3. Moves(r, B, PageOps)
      BY <1>3, <3>1, <3>2, PublishMoves
    <3> QED
      BY <1>2, <3>3 DEF Moves
  <2>6. ASSUME ReadsNext(r) PROVE Moves(r, B, A)
    <3>1. PICK q, p : q = req[r] /\ p = Head(q.todo)
      OBVIOUS
    <3>2. q.op = "publish" /\ Start(r, ReadsToPublish(q, p))
      BY <2>6, <3>1 DEF ReadsNext, At
    <3>3. "op" \in DOMAIN q
      BY <3>1, <3>2, RaisedCalls DEF PageCall
    <3>4. Moves(r, B, PageOps)
      BY <1>2, <1>5, <3>1, <3>2, <3>3, PublishMoves
    <3> QED
      BY <1>2, <3>4 DEF Moves
  <2>7. ASSUME Publishes(r) PROVE Moves(r, B, A)
    <3>1. req[r].op = "publish" /\ (Ends(r) \/ \E todo : Start(r, Publishing(todo)))
      BY <2>7 DEF Publishes, At
    <3>2. \A todo : Publishing(todo).op = "publish"
      BY DEF Publishing
    <3> QED
      BY <1>2, <1>5, <1>6, <1>7, <3>1, <3>2
  <2> QED
    BY <1>8, <2>1, <2>2, <2>3, <2>4, <2>5, <2>6, <2>7 DEF Building, A, B
<1>9. CASE Editing(r)
  <2>1. ASSUME NEW p \in PageIds, NEW v, CountsSections(r, p) \/ StartsRestore(r, p, v) PROVE Moves(r, B, A)
    <3>1. Arrives(r) /\ \E q : Start(r, q) /\ q.op \in {"add", "restore"}
      BY <2>1 DEF CountsSections, StartsRestore
    <3> QED
      BY <1>3, <1>5, <1>7, <3>1
  <2>2. ASSUME AddsSection(r, "text") \/ Restores(r) PROVE Moves(r, B, A)
    BY <1>4, <1>5, <1>6, <2>2 DEF AddsSection, Restores
  <2>3. ASSUME NEW p \in PageIds, EditsSection(r, p) \/ DeletesSection(r, p) \/ ReordersSections(r, p)
        PROVE  Moves(r, B, A)
    BY <1>3, <1>6, <2>3 DEF EditsSection, DeletesSection, ReordersSections
  <2> QED
    BY <1>9, <2>1, <2>2, <2>3 DEF Editing, A, B
<1>10. CASE Styling(r)
  <2>1. ASSUME NEW kit, NEW demos, StartsImport(r, kit, demos) PROVE Moves(r, B, A)
    <3>1. Arrives(r) /\ \E q : Start(r, q) /\ q.op = "import"
      BY <2>1 DEF StartsImport
    <3> QED
      BY <1>3, <1>5, <1>7, <3>1
  <2>2. ASSUME WipesForImport(r) PROVE Moves(r, B, A)
    <3>1. PICK q : q = req[r]
      OBVIOUS
    <3>2. q.op = "import" /\ PageCall(q)
      BY <2>2, <3>1, RaisedCalls DEF WipesForImport, At
    <3>3. PICK seen : req' = [req EXCEPT ![r].at = "commit", ![r].seen = seen]
      BY <2>2 DEF WipesForImport
    <3>4. Start(r, [q EXCEPT !.at = "commit", !.seen = seen])
      BY <3>1, <3>3 DEF Start
    <3>5. [q EXCEPT !.at = "commit", !.seen = seen].op = "import"
      BY <3>2 DEF PageCall
    <3> QED
      BY <1>2, <1>5, <1>7, <3>1, <3>2, <3>4, <3>5
  <2>3. ASSUME Imports(r) PROVE Moves(r, B, A)
    <3>1. req[r].op = "import" /\ Ends(r)
      BY <2>3 DEF Imports, At
    <3> QED
      BY <1>2, <1>5, <1>6, <3>1
  <2>4. ASSUME NEW name, NEW publish, StartsTheme(r, name, publish) PROVE Moves(r, B, A)
    <3>1. Arrives(r) /\ \E q : Start(r, q) /\ q.op = "theme"
      BY <2>4 DEF StartsTheme
    <3> QED
      BY <1>3, <1>5, <1>7, <3>1
  <2>5. ASSUME PlanFails(r) PROVE Moves(r, B, A)
    BY <1>4, <1>5, <1>6, <2>5 DEF PlanFails
  <2>6. ASSUME Themes(r) PROVE Moves(r, B, A)
    <3>1. req[r].op = "theme" /\ (Ends(r) \/ \E todo : Start(r, Publishing(todo)))
      BY <2>6 DEF Themes, Running
    <3>2. \A todo : Publishing(todo).op = "publish"
      BY DEF Publishing
    <3> QED
      BY <1>2, <1>5, <1>6, <1>7, <3>1, <3>2
  <2> QED
    BY <1>10, <2>1, <2>2, <2>3, <2>4, <2>5, <2>6 DEF Styling, A, B
<1> QED
  BY <1>8, <1>9, <1>10

LEMMA DocMoves ==
  ASSUME DocTyped, NEW r \in Requests, Documents(r)
  PROVE  Moves(r, DocOps \cup {"idle"}, DocOps \cup {"done"})
<1> DEFINE B == DocOps \cup {"idle"}
           A == DocOps \cup {"done"}
<1>1. IsFun(req, Requests) /\ DocCall(req[r])
  BY DEF DocTyped
<1>2. {"saveDoc", "merge", "translate", "bulk"} \subseteq A /\ "done" \in A
      /\ {"idle", "saveDoc", "merge", "translate", "bulk"} \subseteq B
  BY DEF DocOps
<1>3. Arrives(r) => req[r].op \in B
  BY DEF Arrives, Idle
<1> HIDE DEF A, B
<1>4. ASSUME Ends(r), req[r].op \in B PROVE Moves(r, B, A)
  BY <1>1, <1>2, <1>4, EndsAs
<1>5. ASSUME NEW q, Start(r, q), q.op \in A, req[r].op \in B PROVE Moves(r, B, A)
  BY <1>1, <1>5, StartsAs
<1>6. ASSUME NEW d, NEW on, NEW locales, Creates(r, d, on, locales) \/ Deletes(r, d) PROVE Moves(r, B, A)
  BY <1>3, <1>4, <1>6 DEF Creates, Deletes
<1>7. ASSUME NEW d, NEW status, NEW given, NEW locales, Saves(r, d, status, given, locales) \/ Seen(r, d, locales)
      PROVE  Moves(r, B, A)
  <2>1. Arrives(r) /\ \E q : Start(r, q) /\ q.op \in {"saveDoc", "merge"}
    BY <1>7 DEF Saves, Seen
  <2> QED
    BY <1>2, <1>3, <1>5, <2>1
<1>8. ASSUME NEW d, NEW source, NEW target, Translates(r, d, source, target) \/ StartsBulk(r, source, target)
      PROVE  Moves(r, B, A)
  <2>1. Arrives(r) /\ (Ends(r) \/ \E q : Start(r, q) /\ q.op \in {"translate", "bulk"})
    BY <1>8 DEF Translates, StartsBulk
  <2> QED
    BY <1>2, <1>3, <1>4, <1>5, <2>1
<1>9. ASSUME NEW d, NEW locales, SavesOverride(r, d, TRUE, locales) \/ ResetsOverride(r, d, TRUE) PROVE Moves(r, B, A)
  <2>1. Seen(r, d, locales) \/ (Arrives(r) /\ Ends(r))
    BY <1>9 DEF SavesOverride, ResetsOverride
  <2> QED
    BY <1>3, <1>4, <1>7, <2>1
<1>10. ASSUME Asking(r) PROVE Moves(r, B, A)
  <2>1. \/ \E d, on, locales : Creates(r, d, on, locales)
        \/ \E d : Deletes(r, d)
        \/ \E d, status, given, locales : Saves(r, d, status, given, locales)
        \/ \E d, locales : Seen(r, d, locales)
        \/ \E d, source, target : Translates(r, d, source, target)
        \/ \E source, target : StartsBulk(r, source, target)
    BY <1>10, ZenonT(60) DEF Asking, CreatesStatic, AddsBlock, CreatesPromotion, CreatesCategory, CreatesAttribute, CreatesFaq,
                 CreatesField, SavesFaq, LinksAttributes, SavesLegal, SavesTemplate, SavesStatic, SavesBlock,
                 SavesPromotion, SavesField, SavesCategory, SavesAttribute
  <2> QED
    BY <1>6, <1>7, <1>8, <2>1
<1>11. ASSUME Clears(r) PROVE Moves(r, B, A)
  <2>1. PICK q : q = req[r]
    OBVIOUS
  <2>2. q.op = "saveDoc" /\ req' = [req EXCEPT ![r].at = "write"]
    BY <1>11, <2>1 DEF Clears, At, GoesTo
  <2>3. q \in DocCalls
    BY <1>1, <2>1, <2>2 DEF DocCall, DocOps
  <2>4. [q EXCEPT !.at = "write"].op = "saveDoc"
    BY <2>2, <2>3 DEF DocCalls
  <2>5. Start(r, [q EXCEPT !.at = "write"])
    BY <2>1, <2>2 DEF Start
  <2> QED
    BY <1>2, <1>5, <2>1, <2>2, <2>4, <2>5
<1>12. ASSUME Writes(r) \/ SaveDies(r) \/ Merges(r) \/ StoresTranslation(r) PROVE Moves(r, B, A)
  <2>1. Ends(r) /\ req[r].op \in {"saveDoc", "merge", "translate"}
    BY <1>12 DEF Writes, SaveDies, Merges, StoresTranslation, At, Running
  <2> QED
    BY <1>2, <1>4, <2>1
<1>13. ASSUME StoresBulk(r) PROVE Moves(r, B, A)
  <2>1. PICK q : q = req[r]
    OBVIOUS
  <2>2. PICK d : Ticks(r, d) /\ q.op = "bulk"
    BY <1>13, <2>1 DEF StoresBulk, Running
  <2>3. q \in DocCalls
    BY <1>1, <2>1, <2>2 DEF DocCall, DocOps
  <2>4. [q EXCEPT !.todo = @ \ {d}].op = "bulk"
    BY <2>2, <2>3 DEF DocCalls
  <2>5. Ends(r) \/ Start(r, [q EXCEPT !.todo = @ \ {d}])
    BY <2>1, <2>2 DEF Ticks, Start
  <2> QED
    BY <1>2, <1>4, <1>5, <2>1, <2>2, <2>4, <2>5
<1>14. Moves(r, B, A)
  BY <1>9, <1>10, <1>11, <1>12, <1>13 DEF Documents, Writing, Overriding
<1> QED
  BY <1>14 DEF A, B

LEMMA LinkMoves ==
  ASSUME IsFun(req, Requests), NEW r \in Requests, Linking(r)
  PROVE  Moves(r, {"items", "idle"}, {"items", "done"})
<1>1. ASSUME NEW list, StartsItems(r, list) PROVE Moves(r, {"items", "idle"}, {"items", "done"})
  <2>1. req[r].op = "idle" /\ \E q : Start(r, q) /\ q.op = "items"
    BY <1>1 DEF StartsItems, Arrives, Idle
  <2> QED
    BY <2>1, StartsAs
<1>2. ASSUME WritesItems(r) PROVE Moves(r, {"items", "idle"}, {"items", "done"})
  <2>1. req[r].op = "items" /\ Ends(r)
    BY <1>2 DEF WritesItems, Running
  <2> QED
    BY <2>1, EndsAs
<1> QED
  BY <1>1, <1>2 DEF Linking

-----------------------------------------------------------------------------
(* The site.                                                                *)

MenuInv == ~mixed => menu = sent /\ \A r \in Running("items") : req[r].seen = menu

SiteInv == DocInv /\ PagesInv /\ MenuInv

LEMMA PagesKeep ==
  ASSUME PagesInv, NEW r \in Requests, Building(r) \/ Editing(r) \/ Styling(r)
  PROVE  PagesInv'
<1>1. CASE Building(r)
  <2>1. ASSUME NEW t \in Singletons \cup Slugged, NEW kind \in {{}, {"about"}}, NEW slug \in {{}} \cup {{s} : s \in Slugs},
               CreatesPage(r, t, kind, slug)
        PROVE  PagesInv'
    BY <2>1, CreatesPageKeeps DEF Addresses
  <2> QED
    BY <1>1, <2>1, EnsuresListingKeeps, LooksForKeeps, ProvisionsKeeps, StoresPageKeeps, UpdatesPageKeeps,
       DeletesPageKeeps, StartsPublishKeeps, ReadsNextKeeps, PublishesKeeps DEF Building
<1>2. CASE Editing(r)
  BY <1>2, CountsSectionsKeeps, AddsSectionKeeps, EditingKeeps, RestoresKeeps DEF Editing
<1>3. CASE Styling(r)
  BY <1>3, StartsImportKeeps, WipesKeeps, ImportsKeeps, StartsThemeKeeps, PlanFailsKeeps, ThemesKeeps DEF Styling
<1> QED
  BY <1>1, <1>2, <1>3

LEMMA PagesAlone ==
  ASSUME SiteInv, NEW r \in Requests, Building(r) \/ Editing(r) \/ Styling(r)
  PROVE  SiteInv'
<1>1. PagesInv'
  BY PagesKeep DEF SiteInv
<1>2. Moves(r, PageOps \cup {"idle"}, PageOps \cup {"done"})
  BY PageMoves DEF SiteInv
<1>3. UNCHANGED <<doc, meant, torn, menu, sent, mixed>>
  BY DEF Building, Editing, Styling, varsD, varsT, varsM
<1>4. /\ IsFun(req', Requests) /\ \A s \in Requests \ {r} : req'[s] = req[s]
      /\ req[r].op \notin DocOps /\ req'[r].op \notin DocOps /\ req[r].op # "items" /\ req'[r].op # "items"
  BY <1>2 DEF Moves, PageOps, DocOps
<1>5. DocInv'
  BY <1>3, <1>4, RowsAside DEF SiteInv, DocCall, DocOps
<1>6. MenuInv'
  BY <1>3, <1>4 DEF SiteInv, MenuInv, Running
<1> QED
  BY <1>1, <1>5, <1>6 DEF SiteInv

LEMMA DocumentsAlone ==
  ASSUME SiteInv, NEW r \in Requests, Documents(r)
  PROVE  SiteInv'
<1>1. DocInv'
  BY DocumentsKeep DEF SiteInv
<1>2. Moves(r, DocOps \cup {"idle"}, DocOps \cup {"done"})
  BY DocMoves DEF SiteInv, DocInv
<1>3. UNCHANGED <<page, versions, revised, raced, menu, sent, mixed>>
  BY DEF Documents, varsG, rowsG, histG, varsM
<1>4. /\ IsFun(req', Requests) /\ \A s \in Requests \ {r} : req'[s] = req[s]
      /\ req'[r].op \notin PageOps /\ req[r].op # "items" /\ req'[r].op # "items"
  BY <1>2 DEF Moves, PageOps, DocOps
<1>5. PagesInv'
  BY <1>3, <1>4, PagesIdle DEF SiteInv
<1>6. MenuInv'
  BY <1>3, <1>4 DEF SiteInv, MenuInv, Running
<1> QED
  BY <1>1, <1>5, <1>6 DEF SiteInv

LEMMA LinkingAlone ==
  ASSUME SiteInv, NEW r \in Requests, Linking(r)
  PROVE  SiteInv'
<1>1. IsFun(req, Requests)
  BY DEF SiteInv, DocInv, DocTyped
<1>2. Moves(r, {"items", "idle"}, {"items", "done"})
  BY <1>1, LinkMoves
<1>3. UNCHANGED <<page, versions, revised, raced, doc, meant, torn>>
  BY DEF Linking, StartsItems, WritesItems, varsG, rowsG, histG, varsD, varsT
<1>4. /\ IsFun(req', Requests) /\ \A s \in Requests \ {r} : req'[s] = req[s]
      /\ req'[r].op \notin PageOps /\ req[r].op \notin DocOps /\ req'[r].op \notin DocOps
  BY <1>2 DEF Moves, PageOps, DocOps
<1>5. PagesInv'
  BY <1>3, <1>4, PagesIdle DEF SiteInv
<1>6. DocInv'
  BY <1>3, <1>4, RowsAside DEF SiteInv, DocCall, DocOps
<1>7. MenuInv'
  <2>1. ASSUME NEW list, StartsItems(r, list) PROVE MenuInv'
    <3>1. PICK q : q = [op |-> "items", list |-> list, seen |-> menu]
      OBVIOUS
    <3>2. Start(r, q) /\ q.seen = menu /\ UNCHANGED <<menu, sent, mixed>>
      BY <2>1, <3>1 DEF StartsItems, varsD, varsM
    <3>3. req'[r] = q
      BY <1>1, <3>2, StartMoves
    <3> QED
      BY <1>4, <3>2, <3>3 DEF SiteInv, MenuInv, Running
  <2>2. ASSUME WritesItems(r) PROVE MenuInv'
    <3>1. PICK q : q = req[r]
      OBVIOUS
    <3>2. /\ r \in Running("items") /\ Ends(r)
          /\ menu' = (menu \ q.seen) \cup q.list /\ sent' = q.list
          /\ mixed' = (mixed \/ Running("items") # {r})
      BY <2>2, <3>1 DEF WritesItems, Rows
    <3>3. SUFFICES ASSUME ~mixed' PROVE menu' = sent' /\ Running("items")' = {}
      BY DEF MenuInv
    <3>4. ~mixed /\ Running("items") = {r}
      BY <3>2, <3>3
    <3>5. q.seen = menu
      BY <3>1, <3>2, <3>4 DEF SiteInv, MenuInv
    <3>6. req'[r].op # "items"
      BY <1>1, <3>2, EndMoves DEF Over
    <3>7. Running("items")' = {}
      BY <1>4, <3>4, <3>6 DEF Running
    <3> QED
      BY <3>2, <3>5, <3>7
  <2> QED
    BY <2>1, <2>2 DEF Linking
<1> QED
  BY <1>5, <1>6, <1>7 DEF SiteInv

LEMMA SiteStarts == SiteInit => SiteInv
<1> SUFFICES ASSUME SiteInit PROVE SiteInv
  OBVIOUS
<1>1. IsFun(req, Requests) /\ (\A r \in Requests : req[r] = Idle)
  BY DEF SiteInit, NoRequests, IsFun
<1>2. \A r \in Requests : req[r].op \notin PageOps \cup DocOps \cup {"items"}
  BY <1>1 DEF Idle, PageOps, DocOps
<1>3. DocInv
  <2>1. doc \in [Docs -> DocRows] /\ meant = [d \in Docs |-> Of1(d)] /\ torn = {}
        /\ \A d \in Of(Merging) : There(d) => doc[d].on = d
    BY DEF SiteInit
  <2>2. \A d \in Docs : Of1(d) \in SUBSET Locales
    BY <2>1 DEF Of1, There, DocRows
  <2>3. DocTyped
    BY <1>1, <1>2, <2>1, <2>2 DEF DocTyped, DocCall
  <2>4. ASSUME NEW d \in Docs PROVE Keeps(d)
    <3>1. meant[d] = Of1(d) /\ Cleared(d) = {} /\ Running("merge") = {}
      BY <1>2, <2>1 DEF Cleared, Running, DocOps
    <3> QED
      BY <3>1 DEF Keeps, Of1
  <2> QED
    BY <2>3, <2>4 DEF DocInv
<1>4. PagesInv
  <2>1. /\ \A p \in PageIds : page[p] = Absent /\ versions[p] = << >> /\ ~IsPage(p)
        /\ IsFun(page, PageIds) /\ IsFun(versions, PageIds) /\ revised \in [PageIds -> Nat]
    BY DEF SiteInit, IsFun, IsPage
  <2>2. Pages = {} /\ \A t : PagesOf(t) = {}
    BY <2>1 DEF Pages, PagesOf
  <2>3. \A r \in Requests : PageCall(req[r]) /\ Found(req[r]) /\ Snapped(req[r])
    BY <1>2 DEF PageCall, Found, Snapped, PageOps
  <2>4. \A p \in PageIds : Versioned(p)
    <3>1. Len(<< >>) = 0 /\ IsSeq(<< >>)
      BY DEF IsSeq
    <3> QED
      BY <2>1, <3>1 DEF Versioned
  <2> QED
    BY <1>1, <2>1, <2>2, <2>3, <2>4 DEF PagesInv, PagesTyped, RowsInOrder, SlugsDiffer, OnePage
<1>5. MenuInv
  BY <1>2 DEF MenuInv, SiteInit, Running
<1> QED
  BY <1>3, <1>4, <1>5 DEF SiteInv

LEMMA SiteStays ==
  ASSUME SiteInv, UNCHANGED siteVars
  PROVE  SiteInv'
<1>1. UNCHANGED <<req, page, versions, revised, raced, doc, meant, torn, menu, sent, mixed>>
  BY DEF siteVars, varsG, varsD, rowsG, histG, varsT, varsM
<1>2. DocInv'
  BY <1>1 DEF SiteInv, DocInv, DocTyped, Keeps, Cleared, Running, DocCall, Made, There, Of1
<1>3. PagesInv'
  <2>1. PagesTyped'
    BY <1>1 DEF SiteInv, PagesInv, PagesTyped, PageCall, Pages, IsPage
  <2>2. RowsInOrder' /\ SlugsDiffer'
    BY <1>1 DEF SiteInv, PagesInv, RowsInOrder, SlugsDiffer, Pages, IsPage
  <2>3. \A t \in Singletons \ raced' : OnePage(t)'
    BY <1>1 DEF SiteInv, PagesInv, OnePage, PagesOf, Pages, IsPage, Missing, InFlight
  <2>4. \A p \in PageIds : Versioned(p)'
    BY <1>1 DEF SiteInv, PagesInv, Versioned, IsPage, Published
  <2>5. \A r \in Requests : (Found(req[r]) /\ Snapped(req[r]))'
    BY <1>1 DEF SiteInv, PagesInv, Found, Snapped, IsPage, Published
  <2> QED
    BY <2>1, <2>2, <2>3, <2>4, <2>5 DEF PagesInv
<1>4. MenuInv'
  BY <1>1 DEF SiteInv, MenuInv, Running
<1> QED
  BY <1>2, <1>3, <1>4 DEF SiteInv

\* Whatever pages, kits, presets, rows and locales a store has, and however
\* many requests of its editors interleave: the facts about translated rows,
\* pages and menus above hold together in every state of the site.
THEOREM SiteKept == SiteSpec => []SiteInv
<1>1. SiteInit => SiteInv
  BY SiteStarts
<1>2. SiteInv /\ [SiteNext]_siteVars => SiteInv'
  <2> SUFFICES ASSUME SiteInv, [SiteNext]_siteVars PROVE SiteInv'
    OBVIOUS
  <2>1. CASE UNCHANGED siteVars
    BY <2>1, SiteStays
  <2>2. ASSUME NEW r \in Requests,
               Building(r) \/ Editing(r) \/ Styling(r) \/ Documents(r) \/ Linking(r)
        PROVE  SiteInv'
    BY <2>2, PagesAlone, DocumentsAlone, LinkingAlone
  <2> QED
    BY <2>1, <2>2 DEF SiteNext
<1> QED
  BY <1>1, <1>2, PTL DEF SiteSpec

LEMMA PagesInvFinds == PagesInv => PagesAreFound
<1> SUFFICES ASSUME PagesInv PROVE SingletonsAreSingle /\ LinksOpen /\ ServedIsPublished
  BY DEF PagesAreFound
<1>1. SingletonsAreSingle
  <2> SUFFICES ASSUME NEW t \in Singletons \ raced PROVE Cardinality(PagesOf(t)) <= 1
    BY DEF SingletonsAreSingle
  <2>1. \A p, o \in PagesOf(t) : p = o
    BY DEF PagesInv, OnePage
  <2>2. CASE PagesOf(t) = {}
    BY <2>2, FS_EmptySet
  <2>3. CASE PagesOf(t) # {}
    <3>1. PICK p : p \in PagesOf(t)
      BY <2>3
    <3>2. PagesOf(t) = {p}
      BY <2>1, <3>1
    <3> QED
      BY <3>2, FS_Singleton
  <2> QED
    BY <2>2, <2>3
<1>2. LinksOpen
  <2>1. ASSUME NEW p \in Pages, NEW s \in page[p].slug, Live(p), page[p].type \in Slugged PROVE OpensAt(s)
    <3>1. page[p].slug \in Addresses
      BY RowFacts DEF PagesInv, PagesTyped
    <3>2. page[p].slug = {s}
      BY <3>1 DEF Addresses
    <3> QED
      BY <2>1, <3>2 DEF OpensAt
  <2>2. \A p \in Linked : p \in Pages /\ Live(p) /\ page[p].type \in Slugged /\ page[p].slug # {}
    BY DEF Linked, PagesOf, Slugged
  <2>3. \A s \in LinkedSlugs : OpensAt(s)
    BY <2>1, <2>2 DEF LinkedSlugs
  <2>4. \A s \in OldSlugs : OpensAt(s)
    BY DEF OldSlugs, OpensAt
  <2>5. \A s \in Mapped : OpensAt(s)
    BY <2>1 DEF Mapped, OpensAt
  <2>6. \A p, o \in Linked : page[p].slug = page[o].slug => p = o
    BY <2>2 DEF PagesInv, SlugsDiffer
  <2> QED
    BY <2>3, <2>4, <2>5, <2>6 DEF LinksOpen
<1>3. ServedIsPublished
  <2> SUFFICES ASSUME NEW p \in Pages, NEW i \in 1 .. Len(versions[p]), versions[p][i].how = "published"
               PROVE  /\ Live(p)
                      /\ \A j \in 1 .. Len(versions[p]) : versions[p][j].how = "published" => j <= page[p].live
                      /\ versions[p][page[p].live].edits = revised[p] => Served(p) = Frozen(Unhidden(page[p].secs))
    BY DEF ServedIsPublished
  <2>1. p \in PageIds /\ IsPage(p) /\ Versioned(p) /\ page[p].live \in Nat
    BY RowFacts DEF Pages, PagesInv, PagesTyped
  <2>2. \A j \in 1 .. Len(versions[p]) : versions[p][j].how = "published" => j <= page[p].live
    BY <2>1 DEF Versioned
  <2>3. page[p].live # 0
    BY <2>1, <2>2, SeqFacts DEF Versioned
  <2> QED
    BY <2>1, <2>2, <2>3 DEF Versioned, Live, Served, Published
<1> QED
  BY <1>1, <1>2, <1>3

\* Every page of a store is found: there is one home page, header and template
\* of each sort unless two requests looked for it at once (the listing
\* templates even then, being looked for under a lock), what the navigation
\* and the sitemap name opens, and what is served is what was published last.
THEOREM PagesStayFound == SiteSpec => []PagesAreFound
<1>1. SiteInv => PagesAreFound
  BY PagesInvFinds DEF SiteInv
<1> QED
  BY <1>1, SiteKept, PTL

\* A translated row has the texts it was saved with and its translations since,
\* and a menu the items of one list, the last one sent, except what a save that
\* stopped halfway or met another left.
THEOREM TextsStayAsSent == SiteSpec => []SavedAsSent
<1>1. SiteInv => SavedAsSent
  BY DocInvKeeps DEF SiteInv, SavedAsSent, MenuInv
<1> QED
  BY <1>1, SiteKept, PTL

-----------------------------------------------------------------------------
(* Finite sets: what follows for a set that is built up element by element. *)

\* Induction, as a fact about sets: of numbers, ...
LEMMA NatSet ==
  ASSUME NEW A, 0 \in A, \A n \in Nat : n \in A => n + 1 \in A
  PROVE  Nat \subseteq A
<1> SUFFICES ASSUME Nat \ A # {} PROVE FALSE
  OBVIOUS
<1>1. PICK n \in Nat \ A : \A m \in Nat \ A : n <= m
  BY HasLeast
<1>2. n # 0 /\ n - 1 \in Nat /\ n - 1 \in A
  BY <1>1
<1>3. n - 1 + 1 \in A
  BY <1>2
<1> QED
  BY <1>1, <1>3

\* ... and of the subsets of a finite set.
LEMMA FiniteSet ==
  ASSUME NEW T, IsFiniteSet(T), NEW A, {} \in A,
         \A s \in SUBSET T : \A x \in T \ s : s \in A => s \cup {x} \in A
  PROVE  \A s \in SUBSET T : s \in A
<1> DEFINE B == {n \in Nat : \A s \in SUBSET T : Cardinality(s) = n => s \in A}
<1>1. \A s \in SUBSET T : IsFiniteSet(s) /\ Cardinality(s) \in Nat /\ (Cardinality(s) = 0 <=> s = {})
  BY FS_Subset, FS_EmptySet, FS_CardinalityType
<1>2. 0 \in B
  BY <1>1
<1>3. ASSUME NEW n \in Nat, n \in B PROVE n + 1 \in B
  <2> SUFFICES ASSUME NEW s \in SUBSET T, Cardinality(s) = n + 1 PROVE s \in A
    OBVIOUS
  <2>1. PICK x : x \in s
    BY <1>1
  <2>2. Cardinality(s \ {x}) = n
    <3>1. IsFiniteSet(s) /\ Cardinality(s) = n + 1
      BY <1>1
    <3>2. Cardinality(s \ {x}) = Cardinality(s) - 1
      BY <3>1, <2>1, FS_RemoveElement
    <3> QED
      BY <3>1, <3>2
  <2>3. s \ {x} \in A /\ x \in T \ (s \ {x}) /\ s \ {x} \in SUBSET T
    BY <1>3, <2>1, <2>2
  <2>4. (s \ {x}) \cup {x} = s
    BY <2>1
  <2> QED
    BY <2>3, <2>4
<1>4. Nat \subseteq B
  <2> HIDE DEF B
  <2> QED
    BY <1>2, <1>3, NatSet
<1> QED
  BY <1>1, <1>4

-----------------------------------------------------------------------------
(* Folds of a function over a finite set.                                   *)

One(s) == CHOOSE x \in s : TRUE

LEMMA OneFacts == \A s : s # {} => One(s) \in s
BY DEF One

FoldsBy(h, G, base, T) ==
  \A s \in SUBSET T : h[s] = IF s = {} THEN base ELSE G[<<One(s), h[s \ {One(s)}]>>]

\* What folds compute, one chosen element after the other, is defined.
LEMMA FoldExists ==
  ASSUME NEW T, IsFiniteSet(T), NEW D, NEW base \in D, NEW G \in [T \X D -> D]
  PROVE  \E h \in [SUBSET T -> D] : FoldsBy(h, G, base, T)
<1> DEFINE Small(n) == {s \in SUBSET T : Cardinality(s) <= n}
           Step(h, s) == h[s] = IF s = {} THEN base ELSE G[<<One(s), h[s \ {One(s)}]>>]
           B == {n \in Nat : \E h \in [Small(n) -> D] : \A s \in Small(n) : Step(h, s)}
<1>1. \A s \in SUBSET T : IsFiniteSet(s) /\ Cardinality(s) \in Nat /\ (Cardinality(s) = 0 <=> s = {})
  BY FS_Subset, FS_EmptySet, FS_CardinalityType
<1>2. \A s \in SUBSET T : s # {} => /\ One(s) \in T /\ s \ {One(s)} \in SUBSET T
                                    /\ Cardinality(s \ {One(s)}) = Cardinality(s) - 1
  BY <1>1, OneFacts, FS_RemoveElement
<1>3. 0 \in B
  <2>1. \A s \in Small(0) : s = {}
    BY <1>1
  <2>2. PICK h : h = [s \in Small(0) |-> base]
    OBVIOUS
  <2>3. h \in [Small(0) -> D] /\ \A s \in Small(0) : Step(h, s)
    BY <2>1, <2>2
  <2> QED
    BY <2>3
<1>4. ASSUME NEW n \in Nat, n \in B PROVE n + 1 \in B
  <2>1. PICK h \in [Small(n) -> D] : \A s \in Small(n) : Step(h, s)
    BY <1>4
  <2>0. PICK g : g = [s \in Small(n + 1) |-> IF s = {} THEN base ELSE G[<<One(s), h[s \ {One(s)}]>>]]
    OBVIOUS
  <2>2. \A s \in Small(n + 1) : s # {} => s \ {One(s)} \in Small(n) /\ One(s) \in T
    BY <1>1, <1>2
  <2>3. g \in [Small(n + 1) -> D]
    BY <2>0, <2>1, <2>2
  <2>4. \A s \in Small(n) : s \in Small(n + 1)
    BY <1>1
  <2>5. \A s \in Small(n) : g[s] = h[s]
    BY <2>0, <2>1, <2>4
  <2>6. \A s \in Small(n + 1) : Step(g, s)
    BY <2>0, <2>2, <2>5
  <2> HIDE DEF Small, Step
  <2> QED
    BY <2>3, <2>6
<1>5. Nat \subseteq B
  <2> HIDE DEF B
  <2> QED
    BY <1>3, <1>4, NatSet
<1>6. Cardinality(T) \in Nat /\ Small(Cardinality(T)) = SUBSET T
  BY <1>1, FS_Subset, FS_CardinalityType
<1>7. Cardinality(T) \in B
  BY <1>5, <1>6
<1> QED
  BY <1>6, <1>7 DEF FoldsBy

-----------------------------------------------------------------------------
(* Sums.                                                                    *)

SumOver(f, T) == SumFunctionOnSet(f, T)
IsSum(h, f, T) ==
  h = [s \in SUBSET T |-> IF s = {} THEN 0 ELSE f[One(s)] + h[s \ {One(s)}]]
Numbers(f, T) == \A x \in T : f[x] \in Int

LEMMA SumUnfolds == \A f, T : SumOver(f, T) = (CHOOSE h : IsSum(h, f, T))[T]
BY DEF SumOver, SumFunctionOnSet, FoldFunctionOnSet, MapThenFoldSet, IsSum, One

LEMMA SumExists ==
  ASSUME NEW T, IsFiniteSet(T), NEW f, Numbers(f, T)
  PROVE  \E h : IsSum(h, f, T)
<1>1. PICK G : G = [p \in T \X Int |-> f[p[1]] + p[2]]
  OBVIOUS
<1>2. G \in [T \X Int -> Int]
  BY <1>1 DEF Numbers
<1>3. PICK h \in [SUBSET T -> Int] : FoldsBy(h, G, 0, T)
  <2>1. 0 \in Int
    OBVIOUS
  <2> QED
    BY <1>2, <2>1, FoldExists
<1>4. \A s \in SUBSET T : s # {} => One(s) \in T /\ s \ {One(s)} \in SUBSET T
  BY OneFacts
<1>5. \A s \in SUBSET T : h[s] = IF s = {} THEN 0 ELSE f[One(s)] + h[s \ {One(s)}]
  BY <1>1, <1>3, <1>4 DEF FoldsBy
<1> QED
  BY <1>3, <1>5 DEF IsSum

\* Which element is taken first does not matter.
LEMMA SumAnyOrder ==
  ASSUME NEW T, IsFiniteSet(T), NEW f, Numbers(f, T), NEW h, IsSum(h, f, T)
  PROVE  \A s \in SUBSET T : h[s] \in Int /\ \A x \in s : h[s] = f[x] + h[s \ {x}]
<1> DEFINE Fine(s) == h[s] \in Int /\ \A x \in s : h[s] = f[x] + h[s \ {x}]
           B == {n \in Nat : \A s \in SUBSET T : Cardinality(s) <= n => Fine(s)}
<1>1. \A s \in SUBSET T : IsFiniteSet(s) /\ Cardinality(s) \in Nat /\ (Cardinality(s) = 0 <=> s = {})
  BY FS_Subset, FS_EmptySet, FS_CardinalityType
<1>2. h[{}] = 0
  BY DEF IsSum
<1>3. \A s \in SUBSET T : s # {} => One(s) \in s /\ h[s] = f[One(s)] + h[s \ {One(s)}]
  BY OneFacts DEF IsSum
<1>4. 0 \in B
  BY <1>1, <1>2
<1>5. ASSUME NEW n \in Nat, n \in B PROVE n + 1 \in B
  <2> SUFFICES ASSUME NEW s \in SUBSET T, Cardinality(s) = n + 1 PROVE Fine(s)
    BY <1>1, <1>5
  <2>1. \A x \in s : s \ {x} \in SUBSET T /\ Cardinality(s \ {x}) = n
    <3> TAKE x \in s
    <3>1. IsFiniteSet(s) /\ Cardinality(s \ {x}) = Cardinality(s) - 1
      BY <1>1, FS_RemoveElement
    <3> QED
      BY <3>1
  <2>2. \A x \in s : Fine(s \ {x})
    BY <1>5, <2>1
  <2>3. s # {}
    BY <1>1
  <2>4. PICK c \in s : h[s] = f[c] + h[s \ {c}]
    BY <1>3, <2>3
  <2>5. f[c] \in Int /\ h[s \ {c}] \in Int
    BY <2>2, <2>4 DEF Numbers
  <2>6. ASSUME NEW x \in s PROVE h[s] = f[x] + h[s \ {x}]
    <3>1. CASE x = c
      BY <2>4, <3>1
    <3>2. CASE x # c
      <4>1. PICK t : t = s \ {c, x}
        OBVIOUS
      <4>2. (s \ {c}) \ {x} = t /\ (s \ {x}) \ {c} = t
        BY <4>1
      <4>3. h[s \ {c}] = f[x] + h[t] /\ h[s \ {x}] = f[c] + h[t] /\ h[t] \in Int
        <5>1. x \in s \ {c} /\ c \in s \ {x}
          BY <3>2
        <5>2. h[s \ {c}] = f[x] + h[t] /\ h[s \ {x}] = f[c] + h[t]
          BY <2>2, <4>2, <5>1
        <5>3. t \in SUBSET T /\ Cardinality(t) <= n
          <6>1. IsFiniteSet(s \ {c}) /\ Cardinality((s \ {c}) \ {x}) = n - 1
            <7>1. IsFiniteSet(s \ {c}) /\ Cardinality(s \ {c}) = n
              BY <1>1, <2>1
            <7>2. Cardinality((s \ {c}) \ {x}) = Cardinality(s \ {c}) - 1
              BY <5>1, <7>1, FS_RemoveElement
            <7> QED
              BY <7>1, <7>2
          <6> QED
            BY <4>1, <4>2, <6>1
        <5> QED
          BY <1>5, <5>2, <5>3
      <4>4. f[x] \in Int
        BY DEF Numbers
      <4> QED
        BY <2>4, <2>5, <4>3, <4>4
    <3> QED
      BY <3>1, <3>2
  <2>7. h[s] \in Int
    BY <2>4, <2>5
  <2> QED
    BY <2>6, <2>7
<1>6. Nat \subseteq B
  <2> HIDE DEF B
  <2> QED
    BY <1>4, <1>5, NatSet
<1> QED
  <2> SUFFICES ASSUME NEW s \in SUBSET T PROVE Fine(s)
    OBVIOUS
  <2>1. Cardinality(s) \in B
    BY <1>1, <1>6
  <2> QED
    BY <1>1, <2>1

\* Sums of the same numbers are the same.
LEMMA SumsAgree ==
  ASSUME NEW T, NEW U, IsFiniteSet(T), IsFiniteSet(U), NEW V, V \subseteq T, V \subseteq U,
         NEW f, NEW g, Numbers(f, T), Numbers(g, U), \A x \in V : f[x] = g[x],
         NEW h, IsSum(h, f, T), NEW k, IsSum(k, g, U)
  PROVE  h[V] = k[V]
<1> DEFINE A == {s \in SUBSET V : h[s] = k[s]}
<1>1. IsFiniteSet(V)
  BY FS_Subset
<1>2. {} \in A
  BY DEF IsSum
<1>3. ASSUME NEW s \in SUBSET V, NEW x \in V \ s, s \in A PROVE s \cup {x} \in A
  <2>1. s \cup {x} \in SUBSET T /\ s \cup {x} \in SUBSET U /\ (s \cup {x}) \ {x} = s /\ x \in s \cup {x}
    OBVIOUS
  <2>2. \A t \in SUBSET T : h[t] \in Int /\ \A y \in t : h[t] = f[y] + h[t \ {y}]
    BY SumAnyOrder
  <2>3. \A t \in SUBSET U : k[t] \in Int /\ \A y \in t : k[t] = g[y] + k[t \ {y}]
    BY SumAnyOrder
  <2>4. h[s \cup {x}] = f[x] + h[(s \cup {x}) \ {x}]
    BY <2>1, <2>2
  <2>5. k[s \cup {x}] = g[x] + k[(s \cup {x}) \ {x}]
    BY <2>1, <2>3
  <2> QED
    BY <1>3, <2>1, <2>4, <2>5
<1>4. V \in A
  <2> HIDE DEF A
  <2> QED
    BY <1>1, <1>2, <1>3, FiniteSet
<1> QED
  BY <1>4

LEMMA SumEmpty == \A f : SumOver(f, {}) = 0
<1> TAKE f
<1>1. PICK h : h = [s \in SUBSET {} |-> 0]
  OBVIOUS
<1>2. IsSum(h, f, {})
  BY <1>1 DEF IsSum
<1>3. IsSum(CHOOSE k : IsSum(k, f, {}), f, {})
  BY <1>2
<1> QED
  BY <1>3, SumUnfolds DEF IsSum

LEMMA SumAdds ==
  ASSUME NEW T, IsFiniteSet(T), NEW f, Numbers(f, T)
  PROVE  /\ SumOver(f, T) \in Int
         /\ \A x \in T : SumOver(f, T) = f[x] + SumOver(f, T \ {x})
<1>1. PICK h : IsSum(h, f, T) /\ h = (CHOOSE k : IsSum(k, f, T))
  BY SumExists
<1>2. SumOver(f, T) = h[T]
  BY <1>1, SumUnfolds
<1>3. ASSUME NEW x \in T PROVE SumOver(f, T \ {x}) = h[T \ {x}]
  <2>1. IsFiniteSet(T \ {x}) /\ Numbers(f, T \ {x})
    BY FS_RemoveElement DEF Numbers
  <2>2. PICK k : IsSum(k, f, T \ {x}) /\ k = (CHOOSE j : IsSum(j, f, T \ {x}))
    BY <2>1, SumExists
  <2>3. k[T \ {x}] = h[T \ {x}]
    BY <1>1, <2>1, <2>2, SumsAgree
  <2> QED
    BY <2>2, <2>3, SumUnfolds
<1>4. h[T] \in Int /\ \A x \in T : h[T] = f[x] + h[T \ {x}]
  BY <1>1, SumAnyOrder
<1> QED
  BY <1>2, <1>3, <1>4

LEMMA SumSame ==
  ASSUME NEW T, IsFiniteSet(T), NEW f, NEW g, Numbers(f, T), \A x \in T : f[x] = g[x]
  PROVE  SumOver(f, T) = SumOver(g, T)
<1>1. Numbers(g, T)
  BY DEF Numbers
<1>2. PICK h : IsSum(h, f, T) /\ h = (CHOOSE k : IsSum(k, f, T))
  BY SumExists
<1>3. PICK j : IsSum(j, g, T) /\ j = (CHOOSE k : IsSum(k, g, T))
  BY <1>1, SumExists
<1>4. h[T] = j[T]
  BY <1>1, <1>2, <1>3, SumsAgree
<1> QED
  BY <1>2, <1>3, <1>4, SumUnfolds

\* What follows by adding one element after the other.
LEMMA SumInduction ==
  ASSUME NEW T, IsFiniteSet(T), NEW f, Numbers(f, T)
  PROVE  /\ SumOver(f, {}) = 0
         /\ \A s \in SUBSET T : SumOver(f, s) \in Int
         /\ \A s \in SUBSET T : \A x \in T \ s : SumOver(f, s \cup {x}) = f[x] + SumOver(f, s)
<1>1. \A s \in SUBSET T : IsFiniteSet(s) /\ Numbers(f, s)
  BY FS_Subset DEF Numbers
<1>2. \A s \in SUBSET T : SumOver(f, s) \in Int
  BY <1>1, SumAdds
<1>3. ASSUME NEW s \in SUBSET T, NEW x \in T \ s PROVE SumOver(f, s \cup {x}) = f[x] + SumOver(f, s)
  <2>1. s \cup {x} \in SUBSET T /\ (s \cup {x}) \ {x} = s /\ x \in s \cup {x}
    OBVIOUS
  <2> QED
    BY <1>1, <2>1, SumAdds
<1> QED
  BY <1>2, <1>3, SumEmpty

LEMMA TotalIs == \A f : Total(f) = SumOver(f, DOMAIN f)
BY DEF Total, SumFunction, SumOver

LEMMA SumPlus ==
  ASSUME NEW T, IsFiniteSet(T), NEW f, NEW g, NEW e, Numbers(f, T), Numbers(g, T),
         \A x \in T : e[x] = f[x] + g[x]
  PROVE  SumOver(e, T) = SumOver(f, T) + SumOver(g, T)
<1> DEFINE A == {s \in SUBSET T : SumOver(e, s) = SumOver(f, s) + SumOver(g, s)}
<1>1. Numbers(e, T)
  BY DEF Numbers
<1>2. {} \in A
  BY <1>1, SumInduction
<1>3. ASSUME NEW s \in SUBSET T, NEW x \in T \ s, s \in A PROVE s \cup {x} \in A
  <2>1. SumOver(e, s \cup {x}) = e[x] + SumOver(e, s)
    BY <1>1, SumInduction
  <2>2. SumOver(f, s \cup {x}) = f[x] + SumOver(f, s) /\ SumOver(f, s) \in Int
    BY SumInduction
  <2>3. SumOver(g, s \cup {x}) = g[x] + SumOver(g, s) /\ SumOver(g, s) \in Int
    BY SumInduction
  <2>4. f[x] \in Int /\ g[x] \in Int
    BY DEF Numbers
  <2> QED
    BY <1>3, <2>1, <2>2, <2>3, <2>4
<1>4. T \in A
  <2> HIDE DEF A
  <2> QED
    BY <1>2, <1>3, FiniteSet
<1> QED
  BY <1>4

LEMMA SumScale ==
  ASSUME NEW T, IsFiniteSet(T), NEW f, NEW e, Numbers(f, T), NEW u \in Int,
         \A x \in T : e[x] = u * f[x]
  PROVE  SumOver(e, T) = u * SumOver(f, T)
<1> DEFINE A == {s \in SUBSET T : SumOver(e, s) = u * SumOver(f, s)}
<1>1. Numbers(e, T)
  BY DEF Numbers
<1>2. {} \in A
  BY <1>1, SumInduction
<1>3. ASSUME NEW s \in SUBSET T, NEW x \in T \ s, s \in A PROVE s \cup {x} \in A
  <2>1. SumOver(e, s \cup {x}) = e[x] + SumOver(e, s)
    BY <1>1, SumInduction
  <2>2. SumOver(f, s \cup {x}) = f[x] + SumOver(f, s) /\ SumOver(f, s) \in Int
    BY SumInduction
  <2>3. f[x] \in Int
    BY DEF Numbers
  <2>4. \A a, b \in Int : u * (a + b) = u * a + u * b
    OBVIOUS
  <2> QED
    BY <1>3, <2>1, <2>2, <2>3, <2>4
<1>4. T \in A
  <2> HIDE DEF A
  <2> QED
    BY <1>2, <1>3, FiniteSet
<1> QED
  BY <1>4

LEMMA SumAtMost ==
  ASSUME NEW T, IsFiniteSet(T), NEW f, NEW g, Numbers(f, T), Numbers(g, T),
         \A x \in T : f[x] <= g[x]
  PROVE  SumOver(f, T) <= SumOver(g, T)
<1> DEFINE A == {s \in SUBSET T : SumOver(f, s) <= SumOver(g, s)}
<1>1. {} \in A
  BY SumInduction
<1>2. ASSUME NEW s \in SUBSET T, NEW x \in T \ s, s \in A PROVE s \cup {x} \in A
  <2>1. SumOver(f, s \cup {x}) = f[x] + SumOver(f, s) /\ SumOver(f, s) \in Int
    BY SumInduction
  <2>2. SumOver(g, s \cup {x}) = g[x] + SumOver(g, s) /\ SumOver(g, s) \in Int
    BY SumInduction
  <2>3. f[x] \in Int /\ g[x] \in Int /\ f[x] <= g[x]
    BY DEF Numbers
  <2> QED
    BY <1>2, <2>1, <2>2, <2>3
<1>3. T \in A
  <2> HIDE DEF A
  <2> QED
    BY <1>1, <1>2, FiniteSet
<1> QED
  BY <1>3

LEMMA SumConstant ==
  ASSUME NEW T, IsFiniteSet(T), NEW f, NEW c \in Int, \A x \in T : f[x] = c
  PROVE  SumOver(f, T) = c * Cardinality(T)
<1> DEFINE A == {s \in SUBSET T : SumOver(f, s) = c * Cardinality(s)}
<1>1. Numbers(f, T)
  BY DEF Numbers
<1>2. {} \in A
  BY <1>1, SumInduction, FS_EmptySet
<1>3. ASSUME NEW s \in SUBSET T, NEW x \in T \ s, s \in A PROVE s \cup {x} \in A
  <2>1. SumOver(f, s \cup {x}) = f[x] + SumOver(f, s)
    BY <1>1, SumInduction
  <2>2. IsFiniteSet(s) /\ Cardinality(s) \in Nat
    BY FS_Subset, FS_CardinalityType
  <2>3. Cardinality(s \cup {x}) = Cardinality(s) + 1
    BY <2>2, FS_AddElement
  <2>4. \A n \in Nat : c * (n + 1) = c + c * n
    OBVIOUS
  <2> QED
    BY <1>3, <2>1, <2>2, <2>3, <2>4
<1>4. T \in A
  <2> HIDE DEF A
  <2> QED
    BY <1>2, <1>3, FiniteSet
<1> QED
  BY <1>4

\* A sum is the sum over the groups of its numbers.
LEMMA SumByKey ==
  ASSUME NEW T, IsFiniteSet(T), NEW f, Numbers(f, T),
         NEW K, NEW q \in [T -> K], \A k \in K : \E x \in T : q[x] = k,
         NEW g \in [K -> SUBSET T], \A k \in K : \A x \in T : x \in g[k] <=> q[x] = k,
         NEW e, \A k \in K : e[k] = SumOver(f, g[k])
  PROVE  IsFiniteSet(K) /\ Numbers(e, K) /\ SumOver(e, K) = SumOver(f, T)
<1> DEFINE Group(s, k) == {x \in s : q[x] = k}
           Groups(s) == [k \in K |-> SumOver(f, Group(s, k))]
           A == {s \in SUBSET T : SumOver(Groups(s), K) = SumOver(f, s)}
<1>0. \A t \in SUBSET T, y \in T : y \notin t => SumOver(f, t \cup {y}) = f[y] + SumOver(f, t)
  <2> TAKE t \in SUBSET T, y \in T
  <2> QED
    BY SumInduction
<1>1. IsFiniteSet(K)
  <2>1. [x \in T |-> q[x]] \in Surjection(T, K)
    BY DEF Surjection
  <2> QED
    BY <2>1, FS_Surjection
<1>2. ASSUME NEW s \in SUBSET T PROVE Numbers(Groups(s), K)
  <2>1. \A k \in K : Group(s, k) \in SUBSET T
    OBVIOUS
  <2>2. \A t \in SUBSET T : SumOver(f, t) \in Int
    BY SumInduction
  <2>3. \A k \in K : SumOver(f, Group(s, k)) \in Int
    BY <2>1, <2>2
  <2> QED
    BY <2>3 DEF Numbers
<1>3. {} \in A
  <2>1. \A k \in K : Groups({})[k] = 0
    <3>1. \A k \in K : Group({}, k) = {}
      OBVIOUS
    <3> QED
      BY <3>1, SumEmpty
  <2>2. SumOver(Groups({}), K) = 0 * Cardinality(K)
    <3>1. PICK z : z = Groups({})
      OBVIOUS
    <3>2. \A k \in K : z[k] = 0
      BY <2>1, <3>1
    <3>3. SumOver(z, K) = 0 * Cardinality(K)
      BY <1>1, <3>2, SumConstant
    <3> QED
      BY <3>1, <3>3
  <2> QED
    BY <1>1, <2>2, SumEmpty, FS_CardinalityType
<1>4. ASSUME NEW s \in SUBSET T, NEW x \in T \ s, s \in A PROVE s \cup {x} \in A
  <2>1. PICK u, d, k : u = Groups(s) /\ d = Groups(s \cup {x}) /\ k = q[x]
    OBVIOUS
  <2>2. k \in K /\ Numbers(u, K) /\ Numbers(d, K)
    <3>1. k \in K /\ s \cup {x} \in SUBSET T
      BY <2>1
    <3>2. Numbers(Groups(s), K) /\ Numbers(Groups(s \cup {x}), K)
      BY <1>2, <3>1
    <3> QED
      BY <2>1, <3>1, <3>2
  <2>3. \A j \in K \ {k} : d[j] = u[j]
    <3>1. \A j \in K \ {k} : Group(s \cup {x}, j) = Group(s, j)
      BY <2>1
    <3> QED
      BY <2>1, <3>1
  <2>4. d[k] = f[x] + u[k]
    <3>1. Group(s \cup {x}, k) = Group(s, k) \cup {x} /\ Group(s, k) \in SUBSET T /\ x \notin Group(s, k)
      BY <2>1
    <3>3. SumOver(f, Group(s, k) \cup {x}) = f[x] + SumOver(f, Group(s, k))
      BY <1>0, <3>1
    <3> QED
      BY <2>1, <2>2, <3>1, <3>3
  <2>5. SumOver(d, K) = d[k] + SumOver(d, K \ {k}) /\ SumOver(u, K) = u[k] + SumOver(u, K \ {k})
        /\ SumOver(u, K) \in Int
    BY <1>1, <2>2, SumAdds
  <2>6. SumOver(d, K \ {k}) = SumOver(u, K \ {k}) /\ SumOver(u, K \ {k}) \in Int
    <3>1. IsFiniteSet(K \ {k}) /\ Numbers(d, K \ {k}) /\ Numbers(u, K \ {k})
      BY <1>1, <2>2, FS_RemoveElement DEF Numbers
    <3> QED
      BY <2>3, <3>1, SumSame, SumAdds
  <2>7. SumOver(f, s \cup {x}) = f[x] + SumOver(f, s) /\ f[x] \in Int /\ u[k] \in Int
    BY <2>2, SumInduction DEF Numbers
  <2>8. SumOver(u, K) = SumOver(f, s)
    BY <1>4, <2>1
  <2>9. SumOver(d, K) = SumOver(f, s \cup {x})
    BY <2>4, <2>5, <2>6, <2>7, <2>8
  <2> QED
    BY <2>1, <2>9
<1>5. T \in A
  <2> HIDE DEF A
  <2> QED
    BY <1>3, <1>4, FiniteSet
<1>6. \A k \in K : e[k] = Groups(T)[k]
  <2> TAKE k \in K
  <2>1. g[k] = Group(T, k)
    OBVIOUS
  <2> QED
    BY <2>1
<1>7. Numbers(Groups(T), K)
  BY <1>2
<1> HIDE DEF Groups
<1>8. Numbers(e, K) /\ SumOver(e, K) = SumOver(Groups(T), K)
  BY <1>1, <1>6, <1>7, SumSame DEF Numbers
<1> QED
  BY <1>1, <1>5, <1>8

LEMMA SumTelescopes ==
  ASSUME NEW N \in Nat, NEW r, \A n \in 0 .. N : r[n] \in Int,
         NEW d, \A n \in 1 .. N : d[n] = r[n] - r[n - 1]
  PROVE  SumOver(d, 1 .. N) = r[N] - r[0]
<1> DEFINE A == {n \in Nat : n <= N => SumOver(d, 1 .. n) = r[n] - r[0]}
<1>0. IsFiniteSet(1 .. N)
  BY FS_Interval
<1>1. Numbers(d, 1 .. N)
  <2> SUFFICES ASSUME NEW n \in 1 .. N PROVE d[n] \in Int
    BY DEF Numbers
  <2>1. r[n] \in Int /\ r[n - 1] \in Int /\ d[n] = r[n] - r[n - 1]
    OBVIOUS
  <2> QED
    BY <2>1
<1>2. 0 \in A
  <2>1. 1 .. 0 = {}
    OBVIOUS
  <2> QED
    BY <2>1, SumEmpty
<1>3. ASSUME NEW n \in Nat, n \in A PROVE n + 1 \in A
  <2> SUFFICES ASSUME n + 1 <= N PROVE SumOver(d, 1 .. n + 1) = r[n + 1] - r[0]
    OBVIOUS
  <2>1. 1 .. n \in SUBSET (1 .. N) /\ n + 1 \in (1 .. N) \ (1 .. n) /\ 1 .. n + 1 = (1 .. n) \cup {n + 1}
    OBVIOUS
  <2>2. SumOver(d, (1 .. n) \cup {n + 1}) = d[n + 1] + SumOver(d, 1 .. n)
    <3>1. \A s \in SUBSET (1 .. N) : \A x \in (1 .. N) \ s : SumOver(d, s \cup {x}) = d[x] + SumOver(d, s)
      BY <1>0, <1>1, SumInduction, ZenonT(60)
    <3> QED
      BY <2>1, <3>1
  <2>3. d[n + 1] = r[n + 1] - r[n] /\ r[n + 1] \in Int /\ r[n] \in Int /\ r[0] \in Int
    OBVIOUS
  <2>4. SumOver(d, 1 .. n) = r[n] - r[0]
    BY <1>3
  <2>5. SumOver(d, 1 .. n + 1) = SumOver(d, (1 .. n) \cup {n + 1})
    BY <2>1
  <2> HIDE DEF A
  <2> QED
    BY <2>2, <2>3, <2>4, <2>5
<1>4. N \in A
  <2> HIDE DEF A
  <2> QED
    BY <1>2, <1>3, NatSet
<1> QED
  BY <1>4

-----------------------------------------------------------------------------
(* Rounding and sharing out.                                                *)

LEMMA DivFacts ==
  ASSUME NEW x \in Int, NEW m \in Nat \ {0}
  PROVE  /\ x \div m \in Int /\ x % m \in Int
         /\ 0 <= x % m /\ x % m < m
         /\ x = m * (x \div m) + (x % m)
OBVIOUS

LEMMA RoundFacts ==
  ASSUME NEW a \in Int, NEW b \in Nat \ {0}
  PROVE  /\ Round(a, b) \in Int
         /\ 2 * (b * Round(a, b)) <= 2 * a + b
         /\ 2 * a + b < 2 * (b * Round(a, b)) + 2 * b
<1>1. 2 * a + b \in Int /\ 2 * b \in Nat \ {0}
  OBVIOUS
<1>2. PICK x, m, d, r : x = 2 * a + b /\ m = 2 * b /\ d = x \div m /\ r = (x % m)
  OBVIOUS
<1>3. d \in Int /\ r \in Int /\ 0 <= r /\ r < m /\ x = m * d + r
  BY <1>1, <1>2, DivFacts
<1>4. m * d = 2 * (b * d)
  BY <1>2, <1>3
<1>5. b * d \in Int
  BY <1>3
<1>6. Round(a, b) = d
  BY <1>2 DEF Round
<1> QED
  BY <1>2, <1>3, <1>4, <1>5, <1>6

\* What is rounded is found again: in whole units, or where there is one unit.
LEMMA RoundWhole ==
  ASSUME NEW m \in Int, NEW b \in Nat \ {0}
  PROVE  Round(m * b, b) = m /\ Round(m, 1) = m
<1>1. PICK x, y : x = Round(m * b, b) /\ y = m * b
  OBVIOUS
<1>2. x \in Int /\ y \in Int /\ 2 * (b * x) <= 2 * y + b /\ 2 * y + b < 2 * (b * x) + 2 * b
  BY <1>1, RoundFacts
<1>3. b * (x - m) = b * x - y /\ b * (m - x) = y - b * x /\ b * x \in Int
  BY <1>1, <1>2
<1>4. ~(x > m)
  <2> SUFFICES ASSUME x >= m + 1 PROVE FALSE
    BY <1>2
  <2>1. b * (x - m) >= b
    BY <1>2
  <2> QED
    BY <1>2, <1>3, <2>1
<1>5. ~(x < m)
  <2> SUFFICES ASSUME m >= x + 1 PROVE FALSE
    BY <1>2
  <2>1. b * (m - x) >= b
    BY <1>2
  <2> QED
    BY <1>2, <1>3, <2>1
<1>6. Round(m, 1) = m
  BY DEF Round
<1> QED
  BY <1>1, <1>2, <1>4, <1>5, <1>6

LEMMA SymmetricFacts ==
  ASSUME NEW a \in Int, NEW b \in Nat \ {0}
  PROVE  RoundSymmetric(a, b) \in Int
<1>1. -a \in Int /\ Round(a, b) \in Int /\ Round(-a, b) \in Int
  BY RoundFacts
<1> QED
  BY <1>1 DEF RoundSymmetric

\* A strict order puts the elements of a finite set in places 0, 1, 2, ...
LEMMA Places01 ==
  ASSUME NEW P, IsFiniteSet(P), NEW low \in [P -> SUBSET P],
         \A i \in P : i \notin low[i],
         \A i, j \in P : i = j \/ i \in low[j] \/ j \in low[i],
         \A i, j, k \in P : i \in low[j] /\ j \in low[k] => i \in low[k],
         NEW q, \A i \in P : q[i] = Cardinality(low[i])
  PROVE  /\ Cardinality(P) \in Nat
         /\ \A i \in P : q[i] \in Nat /\ q[i] < Cardinality(P)
         /\ \A i, j \in P : i \in low[j] <=> q[i] < q[j]
         /\ \A k \in Nat : k <= Cardinality(P) => Cardinality({i \in P : q[i] < k}) = k
         /\ \A k \in Nat : k < Cardinality(P) => \E i \in P : q[i] = k
<1>b. PICK first : first = [k \in Nat |-> {i \in P : q[i] < k}]
  OBVIOUS
<1>c. PICK A : A = {k \in Nat : k <= Cardinality(P) => Cardinality(first[k]) = k}
  OBVIOUS
<1>d. \A k \in Nat : first[k] \in SUBSET P /\ \A i \in P : i \in first[k] <=> q[i] < k
  BY <1>b
<1>0. \A s \in SUBSET P : IsFiniteSet(s) /\ Cardinality(s) \in Nat
  BY FS_Subset, FS_CardinalityType
<1>n. Cardinality(P) \in Nat
  BY FS_CardinalityType
<1>1. \A i \in P : low[i] \in SUBSET P /\ q[i] = Cardinality(low[i])
  OBVIOUS
<1>i. \A i \in P : q[i] \in Nat
  BY <1>0, <1>1
<1>2. ASSUME NEW i \in P, NEW j \in P, j \in low[i] PROVE q[j] < q[i]
  <2>1. low[j] \subseteq low[i] /\ j \in low[i] /\ j \notin low[j]
    BY <1>1, <1>2
  <2>2. Cardinality(low[j]) <= Cardinality(low[i]) /\ Cardinality(low[j]) # Cardinality(low[i])
    BY <1>0, <1>1, <2>1, FS_Subset
  <2> QED
    BY <1>1, <1>i, <2>2
<1>s. \A i \in P : q[i] < Cardinality(P)
  <2> TAKE i \in P
  <2>1. low[i] # P
    BY <1>1
  <2>2. Cardinality(low[i]) <= Cardinality(P) /\ Cardinality(low[i]) # Cardinality(P)
    BY <1>1, <2>1, FS_Subset
  <2> QED
    BY <1>1, <1>i, <1>n, <2>2
<1>o. \A i, j \in P : i \in low[j] <=> q[i] < q[j]
  BY <1>2, <1>i
<1>3. ASSUME NEW k \in Nat, Cardinality(first[k]) = k, k < Cardinality(P)
      PROVE  \E m \in P : q[m] = k /\ first[k + 1] = first[k] \cup {m} /\ m \notin first[k]
  <2>0. PICK Z : Z = P \ first[k]
    OBVIOUS
  <2>1. Z # {} /\ Z \subseteq P /\ \A i \in Z : ~(q[i] < k)
    <3>1. first[k] # P
      BY <1>3, <1>n
    <3> QED
      BY <1>d, <2>0, <3>1
  <2>2. PICK m \in Z : \A i \in Z : q[m] <= q[i]
    <3>1. {q[i] : i \in Z} \subseteq Nat /\ {q[i] : i \in Z} # {}
      BY <1>i, <2>1
    <3>2. \E x \in {q[i] : i \in Z} : \A y \in {q[i] : i \in Z} : x <= y
      BY <3>1, HasLeast
    <3> QED
      BY <3>2
  <2>3. m \in P /\ q[m] \in Nat /\ k <= q[m] /\ m \notin first[k]
    BY <1>d, <1>i, <2>0, <2>1, <2>2
  <2>4. low[m] = first[k]
    <3>1. ASSUME NEW j \in P, j \in low[m] PROVE j \in first[k]
      <4>1. q[j] < q[m] /\ q[j] \in Nat
        BY <1>o, <1>i, <2>3, <3>1
      <4>2. j \notin Z
        BY <2>2, <2>3, <4>1
      <4> QED
        BY <2>0, <4>2
    <3>2. ASSUME NEW j \in first[k] PROVE j \in P /\ j \in low[m]
      <4>1. j \in P /\ q[j] < k /\ q[j] \in Nat /\ j # m
        BY <1>d, <1>i, <2>3
      <4>2. m \notin low[j]
        BY <1>o, <2>3, <4>1
      <4> QED
        BY <2>3, <4>1, <4>2
    <3> QED
      BY <1>1, <1>d, <2>3, <3>1, <3>2
  <2>5. q[m] = k
    BY <1>1, <1>3, <2>3, <2>4
  <2>6. first[k + 1] = first[k] \cup {m}
    <3>1. ASSUME NEW i \in P, q[i] < k + 1, i # m PROVE q[i] < k
      <4>1. q[i] # q[m]
        BY <1>o, <1>i, <2>3, <3>1
      <4> QED
        BY <1>i, <2>5, <3>1, <4>1
    <3>2. \A i \in P : q[i] < k => q[i] < k + 1
      BY <1>i
    <3>3. k + 1 \in Nat /\ q[m] < k + 1
      BY <2>5
    <3> QED
      BY <1>d, <2>3, <3>1, <3>2, <3>3
  <2> QED
    BY <2>3, <2>5, <2>6
<1>4. 0 \in A
  <2>1. first[0] = {}
    BY <1>d, <1>i
  <2>2. Cardinality({}) = 0
    BY FS_EmptySet
  <2> QED
    BY <1>c, <2>1, <2>2
<1>5. ASSUME NEW k \in Nat, k \in A PROVE k + 1 \in A
  <2> SUFFICES ASSUME k + 1 <= Cardinality(P) PROVE Cardinality(first[k + 1]) = k + 1
    BY <1>c
  <2>1. Cardinality(first[k]) = k /\ k < Cardinality(P)
    BY <1>c, <1>n, <1>5
  <2>2. PICK m \in P : q[m] = k /\ first[k + 1] = first[k] \cup {m} /\ m \notin first[k]
    BY <1>3, <2>1
  <2>3. IsFiniteSet(first[k])
    BY <1>0, <1>d
  <2>4. Cardinality(first[k] \cup {m}) = Cardinality(first[k]) + 1
    BY <2>2, <2>3, FS_AddElement, Zenon
  <2> QED
    BY <2>1, <2>2, <2>4
<1>6. Nat \subseteq A
  BY <1>4, <1>5, NatSet
<1>7. \A k \in Nat : k <= Cardinality(P) => Cardinality(first[k]) = k
  BY <1>6, <1>c
<1>8. \A k \in Nat : k < Cardinality(P) => \E i \in P : q[i] = k
  BY <1>n, <1>3, <1>7
<1>9. \A k \in Nat : first[k] = {i \in P : q[i] < k}
  BY <1>b
<1> QED
  BY <1>n, <1>i, <1>s, <1>o, <1>7, <1>8, <1>9

LEMMA SumCounts ==
  ASSUME NEW T, IsFiniteSet(T), NEW C, C \subseteq T, NEW f,
         \A x \in T : f[x] = IF x \in C THEN 1 ELSE 0
  PROVE  SumOver(f, T) = Cardinality(C)
<1>0. PICK A : A = {s \in SUBSET T : SumOver(f, s) = Cardinality(C \cap s)}
  OBVIOUS
<1>1. Numbers(f, T)
  BY DEF Numbers
<1>2. {} \in A
  <2>1. C \cap {} = {}
    OBVIOUS
  <2> QED
    BY <1>0, <2>1, SumEmpty, FS_EmptySet
<1>3. ASSUME NEW s \in SUBSET T, NEW x \in T \ s, s \in A PROVE s \cup {x} \in A
  <2>1. SumOver(f, s \cup {x}) = f[x] + SumOver(f, s)
    BY <1>1, SumInduction
  <2>2. IsFiniteSet(C \cap s) /\ Cardinality(C \cap s) \in Nat
    BY <1>0, FS_Subset, FS_CardinalityType
  <2>3. CASE x \in C
    <3>1. C \cap (s \cup {x}) = (C \cap s) \cup {x} /\ x \notin C \cap s
      BY <2>3
    <3>2. Cardinality(C \cap (s \cup {x})) = Cardinality(C \cap s) + 1
      BY <2>2, <3>1, FS_AddElement
    <3> QED
      BY <1>0, <1>3, <2>1, <2>2, <2>3, <3>2
  <2>4. CASE x \notin C
    <3>1. C \cap (s \cup {x}) = C \cap s
      BY <2>4
    <3>2. SumOver(f, s) = Cardinality(C \cap s) /\ s \cup {x} \in SUBSET T /\ f[x] = 0
      BY <1>0, <1>3, <2>4
    <3> QED
      BY <1>0, <2>1, <2>2, <3>1, <3>2
  <2> QED
    BY <2>3, <2>4
<1>4. T \in A
  BY <1>2, <1>3, FiniteSet
<1>5. C \cap T = C
  OBVIOUS
<1> QED
  BY <1>0, <1>4, <1>5

LEMMA SumOfNats ==
  ASSUME NEW T, IsFiniteSet(T), NEW f, \A x \in T : f[x] \in Nat
  PROVE  SumOver(f, T) \in Nat
<1>1. PICK g : g = [x \in T |-> 0]
  OBVIOUS
<1>2. Numbers(f, T) /\ Numbers(g, T) /\ \A x \in T : g[x] <= f[x]
  BY <1>1 DEF Numbers
<1>3. SumOver(g, T) = 0 * Cardinality(T)
  BY <1>1, SumConstant
<1>4. Cardinality(T) \in Nat
  BY FS_CardinalityType
<1>5. SumOver(g, T) <= SumOver(f, T) /\ SumOver(f, T) \in Int
  BY <1>2, SumAtMost, SumAdds
<1> QED
  BY <1>3, <1>4, <1>5

\* Sharing out loses nothing and invents nothing.
LEMMA SharesAddUp ==
  ASSUME NEW w, IsFiniteSet(DOMAIN w), DOMAIN w \subseteq Int, \A i \in DOMAIN w : w[i] \in Nat,
         NEW total \in Nat, total <= Total(w),
         NEW g, g = AllocateLargestRemainder(total, w)
  PROVE  /\ DOMAIN g = DOMAIN w /\ \A i \in DOMAIN w : g[i] \in Nat
         /\ Total(g) = total
<1>1. PICK L, v : L = DOMAIN w /\ v = [i \in L |-> Larger(0, w[i])]
  OBVIOUS
<1>2. PICK s, f, r : s = Total(v) /\ f = [i \in L |-> (v[i] * total) \div s]
                     /\ r = [i \in L |-> (v[i] * total) % s]
  OBVIOUS
<1>3. PICK P, low, q, left :
        /\ P = {i \in L : v[i] > 0}
        /\ low = [i \in P |-> {j \in P : r[j] > r[i] \/ (r[j] = r[i] /\ j < i)}]
        /\ q = [i \in P |-> Cardinality(low[i])]
        /\ left = total - Total(f)
  OBVIOUS
<1>4. \A i \in P : q[i] = Cardinality({j \in L : v[j] > 0 /\ (r[j] > r[i] \/ (r[j] = r[i] /\ j < i))})
  <2> TAKE i \in P
  <2>1. low[i] = {j \in L : v[j] > 0 /\ (r[j] > r[i] \/ (r[j] = r[i] /\ j < i))}
    BY <1>3
  <2> QED
    BY <1>3, <2>1
<1>5. g = IF s = 0 \/ total = 0 THEN [i \in L |-> 0]
          ELSE [i \in L |-> f[i] + IF v[i] > 0 /\ q[i] < left THEN 1 ELSE 0]
  <2>1. g = IF s = 0 \/ total = 0 THEN [i \in L |-> 0]
            ELSE [i \in L |-> f[i] + IF v[i] > 0 /\ Cardinality({j \in L : v[j] > 0 /\ (r[j] > r[i] \/ (r[j] = r[i] /\ j < i))}) < left
                                     THEN 1 ELSE 0]
    BY <1>1, <1>2, <1>3 DEF AllocateLargestRemainder
  <2>2. \A i \in L : v[i] > 0 => i \in P
    BY <1>3
  <2> QED
    BY <1>4, <2>1, <2>2
<1>6. /\ IsFiniteSet(L) /\ DOMAIN v = L /\ \A i \in L : v[i] = w[i] /\ v[i] \in Nat
      /\ s = SumOver(v, L) /\ s \in Nat /\ total <= s
  <2>1. IsFiniteSet(L) /\ DOMAIN v = L /\ \A i \in L : v[i] = w[i] /\ v[i] \in Nat
    BY <1>1 DEF Larger
  <2>2. s = SumOver(v, L) /\ Total(w) = SumOver(w, L)
    BY <1>1, <1>2, <2>1, TotalIs
  <2>3. SumOver(v, L) = SumOver(w, L)
    BY <2>1, SumSame DEF Numbers
  <2> QED
    BY <2>1, <2>2, <2>3, SumOfNats
<1>7. CASE s = 0 \/ total = 0
  <2>1. g = [i \in L |-> 0] /\ total = 0
    BY <1>5, <1>6, <1>7
  <2>2. SumOver(g, L) = 0 * Cardinality(L) /\ Total(g) = SumOver(g, L)
    BY <1>6, <2>1, SumConstant, TotalIs
  <2>3. Cardinality(L) \in Nat
    BY <1>6, FS_CardinalityType
  <2> QED
    BY <1>1, <2>1, <2>2, <2>3
<1>8. CASE s \in Nat \ {0} /\ total # 0
  <2>1. PICK m : m = [i \in L |-> v[i] * total]
    OBVIOUS
  <2>2. \A i \in L : m[i] \in Nat /\ m[i] = total * v[i]
    BY <1>6, <2>1
  <2>3. \A i \in L : f[i] \in Int /\ r[i] \in Int /\ 0 <= r[i] /\ r[i] < s /\ m[i] = s * f[i] + r[i]
    <3> TAKE i \in L
    <3>1. f[i] = m[i] \div s /\ r[i] = m[i] % s /\ m[i] \in Int
      BY <1>2, <2>1, <2>2
    <3> QED
      BY <1>8, <3>1, DivFacts
  <2>4. \A i \in L : f[i] \in Nat
    <3> TAKE i \in L
    <3>1. ~(f[i] < 0)
      <4> SUFFICES ASSUME f[i] <= -1 PROVE FALSE
        BY <2>3
      <4>1. s * (f[i] + 1) = s * f[i] + s /\ s * f[i] \in Int
        BY <1>8, <2>3
      <4>2. s * (f[i] + 1) <= 0
        BY <1>8, <2>3
      <4> QED
        BY <1>8, <2>2, <2>3, <4>1, <4>2
    <3> QED
      BY <2>3, <3>1
  <2>5. PICK a, F, R : a = [i \in L |-> s * f[i]] /\ F = SumOver(f, L) /\ R = SumOver(r, L)
    OBVIOUS
  <2>6. Numbers(f, L) /\ Numbers(r, L) /\ Numbers(v, L) /\ Numbers(m, L) /\ Numbers(a, L)
    BY <1>6, <1>8, <2>2, <2>3, <2>5 DEF Numbers
  <2>7. F \in Nat /\ R \in Nat
    BY <1>6, <2>3, <2>4, <2>5, SumOfNats
  <2>8. total * s = s * F + R
    <3>1. SumOver(m, L) = total * s
      BY <1>6, <2>2, <2>6, SumScale
    <3>2. SumOver(a, L) = s * F
      <4>1. s \in Int /\ \A i \in L : a[i] = s * f[i]
        BY <1>8, <2>5
      <4> QED
        BY <1>6, <2>5, <2>6, <4>1, SumScale
    <3>3. \A i \in L : m[i] = a[i] + r[i]
      BY <2>3, <2>5
    <3>4. SumOver(m, L) = SumOver(a, L) + R
      BY <1>6, <2>5, <2>6, <3>3, SumPlus
    <3> QED
      BY <3>1, <3>2, <3>4
  <2>9. left = total - F /\ left \in Int /\ s * left = R
    <3>1. Total(f) = F
      BY <1>2, <2>5, TotalIs
    <3>2. left = total - F /\ left \in Int
      BY <1>3, <2>7, <3>1
    <3>3. s * left = s * total - s * F
      BY <1>8, <2>7, <3>2
    <3> QED
      BY <1>8, <2>7, <2>8, <3>2, <3>3
  <2>10. PICK c : c = [i \in L |-> IF i \in P THEN 1 ELSE 0]
    OBVIOUS
  <2>11. P \subseteq L /\ IsFiniteSet(P) /\ SumOver(c, L) = Cardinality(P)
    BY <1>3, <1>6, <2>10, SumCounts, FS_Subset
  <2>12. Cardinality(P) \in Nat
    BY <2>11, FS_CardinalityType
  <2>13. 0 <= left /\ left <= Cardinality(P)
    <3>1. 0 <= left
      <4> SUFFICES ASSUME left <= -1 PROVE FALSE
        BY <2>9
      <4>1. s * left < 0
        BY <1>8, <2>9
      <4> QED
        BY <2>7, <2>9, <4>1
    <3>2. PICK e : e = [i \in L |-> s * c[i]]
      OBVIOUS
    <3>3. Numbers(c, L) /\ Numbers(e, L)
      BY <1>6, <2>10, <3>2 DEF Numbers
    <3>4. \A i \in L : r[i] <= e[i]
      <4> TAKE i \in L
      <4>1. CASE i \in P
        BY <1>8, <2>3, <2>10, <3>2, <4>1
      <4>2. CASE i \notin P
        <5>1. v[i] = 0 /\ m[i] = 0
          BY <1>3, <1>6, <2>1, <4>2
        <5>2. e[i] = 0
          BY <1>8, <2>10, <3>2, <4>2
        <5>3. s * f[i] >= 0
          BY <1>8, <2>4
        <5>4. s * f[i] \in Int
          BY <1>8, <2>4
        <5> QED
          BY <2>3, <5>1, <5>2, <5>3, <5>4
      <4> QED
        BY <4>1, <4>2
    <3>5. SumOver(e, L) = s * Cardinality(P)
      BY <1>6, <2>11, <3>2, <3>3, SumScale
    <3>6. s * left <= s * Cardinality(P)
      BY <1>6, <2>5, <2>6, <2>9, <3>3, <3>4, <3>5, SumAtMost
    <3>7. left <= Cardinality(P)
      <4> SUFFICES ASSUME left - Cardinality(P) >= 1 PROVE FALSE
        BY <2>9, <2>12
      <4>1. s * (left - Cardinality(P)) >= s
        BY <1>8, <2>9, <2>12
      <4>2. s * (left - Cardinality(P)) = s * left - s * Cardinality(P)
        BY <1>8, <2>9, <2>12
      <4>3. s * left \in Int /\ s * Cardinality(P) \in Int
        BY <1>8, <2>9, <2>12
      <4> QED
        BY <1>8, <3>6, <4>1, <4>2, <4>3
    <3> QED
      BY <3>1, <3>7
  <2>14. \A k \in Nat : k <= Cardinality(P) => Cardinality({i \in P : q[i] < k}) = k
    <3>1. P \subseteq Int /\ \A i \in P : r[i] \in Int
      BY <1>1, <2>3, <2>11
    <3>2. /\ low \in [P -> SUBSET P] /\ \A i \in P : q[i] = Cardinality(low[i])
          /\ \A i, j \in P : i \in low[j] <=> (r[i] > r[j] \/ (r[i] = r[j] /\ i < j))
      BY <1>3
    <3>3. /\ \A i \in P : i \notin low[i]
          /\ \A i, j \in P : i = j \/ i \in low[j] \/ j \in low[i]
      BY <3>1, <3>2
    <3>4. \A i, j, k \in P : i \in low[j] /\ j \in low[k] => i \in low[k]
      BY <3>1, <3>2
    <3> QED
      BY <2>11, <3>2, <3>3, <3>4, Places01
  <2>15. PICK C, x : C = {i \in P : q[i] < left} /\ x = [i \in L |-> IF i \in C THEN 1 ELSE 0]
    OBVIOUS
  <2>16. SumOver(x, L) = left
    <3>1. C \subseteq L /\ Cardinality(C) = left
      BY <2>9, <2>11, <2>13, <2>14, <2>15
    <3> QED
      BY <1>6, <2>15, <3>1, SumCounts
  <2>17. DOMAIN g = L /\ \A i \in L : g[i] = f[i] + x[i] /\ g[i] \in Nat
    <3>1. g = [i \in L |-> f[i] + IF v[i] > 0 /\ q[i] < left THEN 1 ELSE 0]
      BY <1>5, <1>8
    <3>2. \A i \in L : i \in C <=> v[i] > 0 /\ q[i] < left
      BY <1>3, <2>15
    <3> QED
      BY <2>4, <2>15, <3>1, <3>2
  <2>18. Total(g) = F + left
    <3>1. Numbers(x, L)
      BY <2>15 DEF Numbers
    <3>2. Total(g) = SumOver(g, L)
      BY <2>17, TotalIs
    <3> QED
      BY <1>6, <2>5, <2>6, <2>16, <2>17, <3>1, <3>2, SumPlus
  <2> QED
    BY <1>1, <2>7, <2>9, <2>17, <2>18
<1> QED
  BY <1>6, <1>7, <1>8

-----------------------------------------------------------------------------
(* The rates of a line.                                                     *)

LEMMA LenIs == ASSUME NEW N \in Nat, NEW D, NEW f \in [1 .. N -> D] PROVE f \in Seq(D) /\ Len(f) = N
<1>1. f \in Seq(D)
  BY IsASeq
<1> QED
  BY <1>1

StepsBy(h, N, base, G) ==
  \A n \in 0 .. N : h[n] = IF n = 0 THEN base ELSE G[<<n, h[n - 1]>>]

\* A function that is defined from one number to the next exists.
LEMMA Steps ==
  ASSUME NEW N \in Nat, NEW D, NEW base \in D,
         NEW G, \A n \in 1 .. N : \A y \in D : G[<<n, y>>] \in D
  PROVE  \E h \in [0 .. N -> D] : StepsBy(h, N, base, G)
<1>1. PICK B : B = {k \in Nat : k <= N =>
                      \E h \in [0 .. k -> D] :
                        \A n \in 0 .. k : h[n] = IF n = 0 THEN base ELSE G[<<n, h[n - 1]>>]}
  OBVIOUS
<1>2. 0 \in B
  <2>1. PICK h : h = [n \in 0 .. 0 |-> base]
    OBVIOUS
  <2>2. h \in [0 .. 0 -> D] /\ \A n \in 0 .. 0 : h[n] = IF n = 0 THEN base ELSE G[<<n, h[n - 1]>>]
    BY <2>1
  <2> QED
    BY <1>1, <2>2
<1>3. ASSUME NEW k \in Nat, k \in B PROVE k + 1 \in B
  <2> SUFFICES ASSUME k + 1 <= N
               PROVE  \E h \in [0 .. k + 1 -> D] :
                        \A n \in 0 .. k + 1 : h[n] = IF n = 0 THEN base ELSE G[<<n, h[n - 1]>>]
    BY <1>1
  <2>1. PICK h \in [0 .. k -> D] :
          \A n \in 0 .. k : h[n] = IF n = 0 THEN base ELSE G[<<n, h[n - 1]>>]
    BY <1>1, <1>3
  <2>2. PICK g : g = [n \in 0 .. k + 1 |-> IF n = k + 1 THEN G[<<k + 1, h[k]>>] ELSE h[n]]
    OBVIOUS
  <2>3. h[k] \in D /\ k + 1 \in 1 .. N
    BY <2>1
  <2>4. g \in [0 .. k + 1 -> D]
    BY <2>1, <2>2, <2>3
  <2>5. ASSUME NEW n \in 0 .. k + 1
        PROVE  g[n] = IF n = 0 THEN base ELSE G[<<n, g[n - 1]>>]
    <3>1. CASE n = k + 1
      <4>1. g[n - 1] = h[k]
        BY <2>2, <3>1
      <4> QED
        BY <2>2, <3>1, <4>1
    <3>2. CASE n \in 0 .. k
      <4>1. g[n] = h[n] /\ (n # 0 => g[n - 1] = h[n - 1])
        BY <2>2, <3>2
      <4> QED
        BY <2>1, <3>2, <4>1
    <3> QED
      BY <3>1, <3>2
  <2> QED
    BY <2>4, <2>5
<1>4. N \in B
  BY <1>2, <1>3, NatSet
<1> QED
  BY <1>1, <1>4 DEF StepsBy

Numbered(rates) ==
  /\ IsFiniteSet(rates) /\ \A r \in rates : r.id \in Int /\ r.bp \in Int
  /\ \A r, s \in rates : r.id = s.id => r = s

LEMMA InOrderFacts ==
  ASSUME NEW rates, Numbered(rates), NEW N, N = Cardinality(rates),
         NEW rows, rows = InOrder(rates)
  PROVE  /\ N \in Nat /\ (N = 0 <=> rates = {})
         /\ rows \in [1 .. N -> rates]
         /\ Len(rows) = N /\ IsFiniteSet(1 .. N)
<1>1. PICK low, q : /\ low = [r \in rates |-> {s \in rates : s.bp < r.bp \/ (s.bp = r.bp /\ s.id < r.id)}]
                    /\ q = [r \in rates |-> Cardinality(low[r])]
  OBVIOUS
<1>2. /\ low \in [rates -> SUBSET rates] /\ \A r \in rates : q[r] = Cardinality(low[r])
      /\ \A r, s \in rates : s \in low[r] <=> s.bp < r.bp \/ (s.bp = r.bp /\ s.id < r.id)
  BY <1>1
<1>3. /\ \A r \in rates : r \notin low[r]
      /\ \A r, s \in rates : r = s \/ r \in low[s] \/ s \in low[r]
  BY <1>2 DEF Numbered
<1>4. \A r, s, t \in rates : r \in low[s] /\ s \in low[t] => r \in low[t]
  BY <1>2 DEF Numbered
<1>5. \A k \in Nat : k < N => \E r \in rates : q[r] = k
  BY <1>2, <1>3, <1>4, Places01 DEF Numbered
<1>6. N \in Nat /\ (N = 0 <=> rates = {})
  BY FS_CardinalityType, FS_EmptySet DEF Numbered
<1>7. ASSUME NEW r \in rates
      PROVE  Cardinality({s \in rates : s.bp < r.bp \/ (s.bp = r.bp /\ s.id <= r.id)}) = q[r] + 1
  <2>1. {s \in rates : s.bp < r.bp \/ (s.bp = r.bp /\ s.id <= r.id)} = low[r] \cup {r}
    BY <1>2 DEF Numbered
  <2>2. IsFiniteSet(low[r]) /\ r \notin low[r]
    BY <1>2, <1>3, FS_Subset DEF Numbered
  <2>3. Cardinality(low[r] \cup {r}) = Cardinality(low[r]) + 1
    BY <2>2, FS_AddElement, Zenon
  <2> QED
    BY <1>2, <2>1, <2>3
<1>8. \A n \in 1 .. N : \E r \in rates :
        n = Cardinality({s \in rates : s.bp < r.bp \/ (s.bp = r.bp /\ s.id <= r.id)})
  <2> TAKE n \in 1 .. N
  <2>1. PICK r \in rates : q[r] = n - 1
    BY <1>5, <1>6
  <2> QED
    BY <1>7, <2>1
<1>9. rows = [n \in 1 .. N |-> CHOOSE r \in rates :
               n = Cardinality({s \in rates : s.bp < r.bp \/ (s.bp = r.bp /\ s.id <= r.id)})]
  BY DEF InOrder
<1>10. rows \in [1 .. N -> rates]
  BY <1>8, <1>9
<1>11. Len(rows) = N
  BY <1>6, <1>10, LenIs
<1>12. IsFiniteSet(1 .. N)
  BY <1>6, FS_Interval
<1> QED
  BY <1>6, <1>10, <1>11, <1>12

\* Sets are built up by the elements folds choose.
LEMMA ByOne ==
  ASSUME NEW T, IsFiniteSet(T), NEW A, {} \in A,
         \A s \in SUBSET T : s # {} /\ s \ {One(s)} \in A => s \in A
  PROVE  \A s \in SUBSET T : s \in A
<1>1. PICK B : B = {n \in Nat : \A s \in SUBSET T : Cardinality(s) = n => s \in A}
  OBVIOUS
<1>2. \A s \in SUBSET T : IsFiniteSet(s) /\ Cardinality(s) \in Nat /\ (Cardinality(s) = 0 <=> s = {})
  BY FS_Subset, FS_EmptySet, FS_CardinalityType
<1>3. \A s \in SUBSET T : s # {} => /\ One(s) \in T /\ s \ {One(s)} \in SUBSET T
                                    /\ Cardinality(s \ {One(s)}) = Cardinality(s) - 1
  BY <1>2, OneFacts, FS_RemoveElement
<1>4. 0 \in B
  BY <1>1, <1>2
<1>5. ASSUME NEW n \in Nat, n \in B PROVE n + 1 \in B
  <2> SUFFICES ASSUME NEW s \in SUBSET T, Cardinality(s) = n + 1 PROVE s \in A
    BY <1>1
  <2>1. s # {} /\ s \ {One(s)} \in SUBSET T /\ Cardinality(s \ {One(s)}) = n
    BY <1>2, <1>3
  <2> QED
    BY <1>1, <1>5, <2>1
<1>6. Nat \subseteq B
  BY <1>4, <1>5, NatSet
<1> QED
  BY <1>1, <1>2, <1>6

IsProduct(h, c, T) ==
  h = [s \in SUBSET T |-> IF s = {} THEN 1 ELSE h[s \ {One(s)}] * c[One(s)]]

LEMMA Products ==
  ASSUME NEW T, IsFiniteSet(T), NEW c, \A i \in T : c[i] \in Nat \ {0}
  PROVE  /\ \E h : IsProduct(h, c, T)
         /\ \A h : IsProduct(h, c, T) => h[T] \in Nat \ {0}
<1>1. PICK D : D = Nat \ {0}
  OBVIOUS
<1>2. 1 \in D /\ \A x, y \in D : x * y \in D
  BY <1>1
<1>3. \E h : IsProduct(h, c, T)
  <2>1. PICK G : G = [z \in T \X D |-> z[2] * c[z[1]]]
    OBVIOUS
  <2>2. G \in [T \X D -> D] /\ \A i \in T, y \in D : G[<<i, y>>] = y * c[i]
    BY <1>1, <1>2, <2>1
  <2>3. PICK h \in [SUBSET T -> D] : FoldsBy(h, G, 1, T)
    BY <1>2, <2>2, FoldExists
  <2>4. \A s \in SUBSET T : s # {} => One(s) \in T /\ h[s \ {One(s)}] \in D
    BY <2>3, OneFacts
  <2>5. \A s \in SUBSET T : h[s] = IF s = {} THEN 1 ELSE h[s \ {One(s)}] * c[One(s)]
    BY <2>2, <2>3, <2>4 DEF FoldsBy
  <2>6. h = [s \in SUBSET T |-> IF s = {} THEN 1 ELSE h[s \ {One(s)}] * c[One(s)]]
    BY <2>3, <2>5
  <2> QED
    BY <2>6 DEF IsProduct
<1>4. ASSUME NEW h, IsProduct(h, c, T) PROVE h[T] \in D
  <2>1. PICK A : A = {s \in SUBSET T : h[s] \in D}
    OBVIOUS
  <2>2. \A s \in SUBSET T : h[s] = IF s = {} THEN 1 ELSE h[s \ {One(s)}] * c[One(s)]
    BY <1>4 DEF IsProduct
  <2>3. {} \in A
    BY <1>2, <2>1, <2>2
  <2>4. \A s \in SUBSET T : s # {} /\ s \ {One(s)} \in A => s \in A
    <3> SUFFICES ASSUME NEW s \in SUBSET T, s # {}, s \ {One(s)} \in A PROVE h[s] \in D
      BY <2>1
    <3>1. One(s) \in T /\ c[One(s)] \in D /\ h[s \ {One(s)}] \in D
      BY <1>1, <2>1, OneFacts
    <3> QED
      BY <1>2, <2>2, <3>1
  <2> QED
    BY <2>1, <2>3, <2>4, ByOne
<1> QED
  BY <1>1, <1>3, <1>4

LEMMA RateFacts ==
  ASSUME NEW bp \in Int
  PROVE  /\ ClampRate(bp) \in Nat /\ Whole \in Nat \ {0}
         /\ Whole + ClampRate(bp) \in Nat \ {0}
BY WholePositive DEF ClampRate, Smaller, Larger

IsCompound(h, rows) ==
  h = [s \in SUBSET DOMAIN rows |->
         IF s = {} THEN 1 ELSE h[s \ {One(s)}] * (Whole + ClampRate(rows[One(s)].bp))]
IsPlain(h, rows) ==
  h = [s \in SUBSET DOMAIN rows |-> IF s = {} THEN 1 ELSE h[s \ {One(s)}] * Whole]

LEMMA ProductsUnfold ==
  \A rates : /\ Compound(rates) = (CHOOSE h : IsCompound(h, InOrder(rates)))[DOMAIN InOrder(rates)]
             /\ Plain(rates) = (CHOOSE h : IsPlain(h, InOrder(rates)))[DOMAIN InOrder(rates)]
BY DEF Compound, Plain, FoldFunction, FoldFunctionOnSet, MapThenFoldSet, IsCompound, IsPlain, One

LEMMA ProductTypes ==
  ASSUME NEW rates, Numbered(rates)
  PROVE  Compound(rates) \in Nat \ {0} /\ Plain(rates) \in Nat \ {0}
<1>1. PICK rows, T, c, d :
        /\ rows = InOrder(rates) /\ T = DOMAIN rows
        /\ c = [i \in T |-> Whole + ClampRate(rows[i].bp)] /\ d = [i \in T |-> Whole]
  OBVIOUS
<1>2. IsFiniteSet(T) /\ \A i \in T : rows[i].bp \in Int
  <2>1. PICK N : N = Cardinality(rates)
    OBVIOUS
  <2>2. rows \in [1 .. N -> rates] /\ IsFiniteSet(1 .. N)
    BY <1>1, <2>1, InOrderFacts
  <2> QED
    BY <1>1, <2>2 DEF Numbered
<1>3. \A i \in T : c[i] \in Nat \ {0} /\ d[i] \in Nat \ {0}
  BY <1>1, <1>2, RateFacts, WholePositive
<1>4. \A h : (IsProduct(h, c, T) <=> IsCompound(h, rows)) /\ (IsProduct(h, d, T) <=> IsPlain(h, rows))
  <2> TAKE h
  <2>1. \A s \in SUBSET T : s # {} => One(s) \in T
    BY OneFacts
  <2>2. [s \in SUBSET T |-> IF s = {} THEN 1 ELSE h[s \ {One(s)}] * c[One(s)]]
          = [s \in SUBSET DOMAIN rows |->
               IF s = {} THEN 1 ELSE h[s \ {One(s)}] * (Whole + ClampRate(rows[One(s)].bp))]
    BY <1>1, <2>1
  <2>3. [s \in SUBSET T |-> IF s = {} THEN 1 ELSE h[s \ {One(s)}] * d[One(s)]]
          = [s \in SUBSET DOMAIN rows |-> IF s = {} THEN 1 ELSE h[s \ {One(s)}] * Whole]
    BY <1>1, <2>1
  <2> QED
    BY <2>2, <2>3 DEF IsProduct, IsCompound, IsPlain
<1>5. PICK x, y : x = (CHOOSE h : IsCompound(h, rows)) /\ y = (CHOOSE h : IsPlain(h, rows))
  OBVIOUS
<1>6. (\E h : IsProduct(h, c, T)) /\ (\E h : IsProduct(h, d, T))
  BY <1>2, <1>3, Products
<1>7. IsProduct(x, c, T) /\ IsProduct(y, d, T)
  BY <1>4, <1>5, <1>6
<1>8. x[T] \in Nat \ {0} /\ y[T] \in Nat \ {0}
  BY <1>2, <1>3, <1>7, Products
<1>9. Compound(rates) = x[T] /\ Plain(rates) = y[T]
  BY <1>1, <1>5, ProductsUnfold
<1> QED
  BY <1>8, <1>9

PartsTax(parts) == Total([n \in DOMAIN parts |-> parts[n].tax])

IsRunning(h, rows, net) ==
  h = [n \in 0 .. Len(rows) |->
         IF n = 0 THEN net ELSE h[n - 1] + AddedTax(h[n - 1], rows[n].bp)]

LEMMA AddedTaxType ==
  ASSUME NEW x \in Int, NEW bp \in Int
  PROVE  AddedTax(x, bp) \in Int
<1>1. ClampRate(bp) \in Int /\ Whole \in Nat \ {0}
  BY RateFacts
<1>2. x * ClampRate(bp) \in Int
  BY <1>1
<1> QED
  BY <1>1, <1>2, SymmetricFacts DEF AddedTax

LEMMA RunningExists ==
  ASSUME NEW N \in Nat, NEW rows, Len(rows) = N, \A n \in 1 .. N : rows[n].bp \in Int,
         NEW net \in Int
  PROVE  /\ \E h : IsRunning(h, rows, net)
         /\ \A h : IsRunning(h, rows, net) => \A n \in 0 .. N : h[n] \in Int
<1>1. \E h : IsRunning(h, rows, net)
  <2>1. PICK G : G = [z \in (1 .. N) \X Int |-> z[2] + AddedTax(z[2], rows[z[1]].bp)]
    OBVIOUS
  <2>2. /\ G \in [(1 .. N) \X Int -> Int]
        /\ \A n \in 1 .. N, y \in Int : G[<<n, y>>] = y + AddedTax(y, rows[n].bp)
    <3>1. \A n \in 1 .. N, y \in Int : y + AddedTax(y, rows[n].bp) \in Int
      <4> TAKE n \in 1 .. N, y \in Int
      <4>1. AddedTax(y, rows[n].bp) \in Int
        BY AddedTaxType
      <4> QED
        BY <4>1
    <3> QED
      BY <2>1, <3>1
  <2>3. PICK h \in [0 .. N -> Int] : StepsBy(h, N, net, G)
    <3>1. \A n \in 1 .. N : \A y \in Int : G[<<n, y>>] \in Int
      BY <2>2
    <3> QED
      BY <3>1, Steps
  <2>4. \A n \in 0 .. N : n # 0 => n \in 1 .. N /\ h[n - 1] \in Int
    BY <2>3
  <2>5. \A n \in 0 .. N : h[n] = IF n = 0 THEN net ELSE h[n - 1] + AddedTax(h[n - 1], rows[n].bp)
    BY <2>2, <2>3, <2>4 DEF StepsBy
  <2>6. h = [n \in 0 .. N |->
               IF n = 0 THEN net ELSE h[n - 1] + AddedTax(h[n - 1], rows[n].bp)]
    BY <2>3, <2>5
  <2> QED
    BY <2>6 DEF IsRunning
<1>2. ASSUME NEW h, IsRunning(h, rows, net) PROVE \A n \in 0 .. N : h[n] \in Int
  <2>1. PICK A : A = {n \in Nat : n <= N => h[n] \in Int}
    OBVIOUS
  <2>2. \A n \in 0 .. N : h[n] = IF n = 0 THEN net ELSE h[n - 1] + AddedTax(h[n - 1], rows[n].bp)
    BY <1>2 DEF IsRunning
  <2>3. 0 \in A
    BY <2>1, <2>2
  <2>4. ASSUME NEW n \in Nat, n \in A PROVE n + 1 \in A
    <3> SUFFICES ASSUME n + 1 <= N PROVE h[n + 1] \in Int
      BY <2>1
    <3>1. h[n] \in Int /\ n + 1 \in 1 .. N /\ (n + 1) - 1 = n
      BY <2>1, <2>4
    <3>2. AddedTax(h[n], rows[n + 1].bp) \in Int
      BY <3>1, AddedTaxType
    <3>3. h[n + 1] = h[n] + AddedTax(h[n], rows[n + 1].bp)
      BY <2>2, <3>1
    <3> QED
      BY <3>1, <3>2, <3>3
  <2>5. Nat \subseteq A
    BY <2>3, <2>4, NatSet
  <2> QED
    BY <2>1, <2>5
<1> QED
  BY <1>1, <1>2

\* The parts of the rates are the tax of the line.
LEMMA TaxLineAddsUp ==
  ASSUME NEW rates, Numbered(rates), NEW base \in Int, NEW mode,
         NEW t, t = TaxLine(base, rates, mode)
  PROVE  /\ t.tax \in Int /\ Len(t.parts) \in Nat /\ DOMAIN t.parts = 1 .. Len(t.parts)
         /\ t.parts \in Seq({t.parts[n] : n \in DOMAIN t.parts})
         /\ \A n \in DOMAIN t.parts : t.parts[n].tax \in Int
         /\ PartsTax(t.parts) = t.tax
<1>1. PICK N, rows : N = Cardinality(rates) /\ rows = InOrder(rates)
  OBVIOUS
<1>2. PICK tax, net : /\ tax = RoundSymmetric(base * (Compound(rates) - Plain(rates)), Compound(rates))
                      /\ net = IF mode = Inclusive THEN base - tax ELSE base
  OBVIOUS
<1>3. PICK run : run = (CHOOSE h : IsRunning(h, rows, net))
  OBVIOUS
<1>4. PICK d : d = [n \in 1 .. Len(rows) |->
                      run[n] - run[n-1] + IF mode = Inclusive /\ n = Len(rows) THEN base - run[n] ELSE 0]
  OBVIOUS
<1>5. t = IF rates = {} \/ base = 0
          THEN [tax |-> 0, parts |-> <<>>]
          ELSE [tax   |-> IF mode = Inclusive THEN tax ELSE run[Len(rows)] - net,
                parts |-> [n \in 1 .. Len(rows) |->
                             [label |-> rows[n].label, bp |-> ClampRate(rows[n].bp),
                              tax |-> run[n] - run[n-1]
                                + IF mode = Inclusive /\ n = Len(rows) THEN base - run[n] ELSE 0]]]
  BY <1>1, <1>2, <1>3 DEF TaxLine, IsRunning
<1>6. /\ N \in Nat /\ (N = 0 <=> rates = {}) /\ rows \in [1 .. N -> rates]
      /\ Len(rows) = N /\ IsFiniteSet(1 .. N)
  BY <1>1, InOrderFacts
<1>7. \A n \in 1 .. N : rows[n].bp \in Int
  BY <1>6 DEF Numbered
<1>8. tax \in Int /\ net \in Int
  <2>1. Compound(rates) \in Nat \ {0} /\ Plain(rates) \in Nat \ {0}
    BY ProductTypes
  <2>2. base * (Compound(rates) - Plain(rates)) \in Int
    BY <2>1
  <2>3. tax \in Int
    BY <1>2, <2>1, <2>2, SymmetricFacts
  <2> QED
    BY <1>2, <2>3
<1>9. IsRunning(run, rows, net) /\ \A n \in 0 .. N : run[n] \in Int
  BY <1>3, <1>6, <1>7, <1>8, RunningExists
<1>10. CASE rates = {} \/ base = 0
  <2>1. t.tax = 0 /\ t.parts = <<>>
    BY <1>5, <1>10
  <2>2. DOMAIN t.parts = {} /\ Len(t.parts) = 0 /\ 1 .. 0 = {}
    BY <2>1
  <2>3. PartsTax(t.parts) = 0
    <3>1. PICK f : f = [n \in DOMAIN t.parts |-> t.parts[n].tax]
      OBVIOUS
    <3>2. DOMAIN f = {}
      BY <2>2, <3>1
    <3>3. Total(f) = SumOver(f, {})
      BY <3>2, TotalIs
    <3> QED
      BY <3>1, <3>3, SumEmpty DEF PartsTax
  <2> QED
    BY <2>1, <2>2, <2>3
<1>11. CASE ~(rates = {} \/ base = 0)
  <2>1. N \in Nat \ {0} /\ N \in 0 .. N /\ 0 \in 0 .. N
    BY <1>6, <1>11
  <2>2. t.tax = (IF mode = Inclusive THEN tax ELSE run[N] - net) /\ t.tax \in Int
    BY <1>5, <1>6, <1>8, <1>9, <1>11, <2>1
  <2>3. /\ DOMAIN t.parts = 1 .. N /\ \A n \in 1 .. N : t.parts[n].tax = d[n]
        /\ t.parts \in [1 .. N -> {t.parts[n] : n \in DOMAIN t.parts}]
    <3>1. PICK parts : parts = t.parts
      OBVIOUS
    <3>2. parts = [n \in 1 .. N |->
                     [label |-> rows[n].label, bp |-> ClampRate(rows[n].bp), tax |-> d[n]]]
      BY <1>4, <1>5, <1>6, <1>11, <3>1
    <3>3. DOMAIN parts = 1 .. N /\ \A n \in 1 .. N : parts[n].tax = d[n]
      BY <3>2
    <3>4. parts \in [1 .. N -> {parts[n] : n \in DOMAIN parts}]
      BY <3>2, <3>3
    <3> QED
      BY <3>1, <3>3, <3>4
  <2>4. Len(t.parts) = N /\ t.parts \in Seq({t.parts[n] : n \in DOMAIN t.parts})
    BY <2>1, <2>3, LenIs
  <2>5. \A n \in 1 .. N : n \in 0 .. N /\ n - 1 \in 0 .. N
    BY <1>6
  <2>6. \A n \in 1 .. N : d[n] = (run[n] - run[n - 1])
                                   + IF mode = Inclusive /\ n = N THEN base - run[n] ELSE 0
    BY <1>4, <1>6
  <2>7. \A n \in 1 .. N : d[n] \in Int
    BY <1>9, <2>5, <2>6
  <2>8. run[0] = net
    BY <1>6, <1>9, <2>1 DEF IsRunning
  <2>9. PICK a, b : /\ a = [n \in 1 .. N |-> run[n] - run[n - 1]]
                    /\ b = [n \in 1 .. N |-> IF n = N THEN base - run[N] ELSE 0]
    OBVIOUS
  <2>10. Numbers(a, 1 .. N) /\ Numbers(b, 1 .. N)
    BY <1>9, <2>1, <2>5, <2>9 DEF Numbers
  <2>11. SumOver(a, 1 .. N) = run[N] - net
    BY <1>6, <1>9, <2>8, <2>9, SumTelescopes
  <2>12. SumOver(b, 1 .. N) = base - run[N]
    <3>1. N \in 1 .. N
      BY <2>1
    <3>2. SumOver(b, 1 .. N) = b[N] + SumOver(b, (1 .. N) \ {N})
      BY <1>6, <2>10, <3>1, SumAdds
    <3>3. IsFiniteSet((1 .. N) \ {N}) /\ \A n \in (1 .. N) \ {N} : b[n] = 0
      BY <1>6, <2>9, FS_Subset
    <3>4. SumOver(b, (1 .. N) \ {N}) = 0 * Cardinality((1 .. N) \ {N})
      BY <3>3, SumConstant
    <3>5. Cardinality((1 .. N) \ {N}) \in Nat
      BY <3>3, FS_CardinalityType
    <3> QED
      BY <1>9, <2>1, <2>9, <3>1, <3>2, <3>4, <3>5
  <2>13. SumOver(d, 1 .. N) = t.tax
    <3>1. CASE mode = Inclusive
      <4>1. \A n \in 1 .. N : d[n] = a[n] + b[n]
        BY <1>9, <2>5, <2>6, <2>9, <3>1
      <4>2. SumOver(d, 1 .. N) = SumOver(a, 1 .. N) + SumOver(b, 1 .. N)
        BY <1>6, <2>10, <4>1, SumPlus
      <4>3. base - net = tax
        BY <1>2, <1>8, <3>1
      <4> QED
        BY <1>8, <1>9, <2>1, <2>2, <2>11, <2>12, <3>1, <4>2, <4>3
    <3>2. CASE mode # Inclusive
      <4>1. \A n \in 1 .. N : a[n] = d[n]
        BY <1>9, <2>5, <2>6, <2>9, <3>2
      <4>2. SumOver(a, 1 .. N) = SumOver(d, 1 .. N)
        BY <1>6, <2>10, <4>1, SumSame
      <4> QED
        BY <2>2, <2>11, <3>2, <4>2
    <3> QED
      BY <3>1, <3>2
  <2>14. PartsTax(t.parts) = t.tax
    <3>1. PICK f : f = [n \in DOMAIN t.parts |-> t.parts[n].tax]
      OBVIOUS
    <3>2. DOMAIN f = 1 .. N /\ \A n \in 1 .. N : d[n] = f[n]
      BY <2>3, <3>1
    <3>3. SumOver(d, 1 .. N) = SumOver(f, 1 .. N)
      BY <1>6, <2>7, <3>2, SumSame DEF Numbers
    <3>4. Total(f) = SumOver(f, 1 .. N)
      BY <3>2, TotalIs
    <3> QED
      BY <2>13, <3>1, <3>3, <3>4 DEF PartsTax
  <2> QED
    BY <2>1, <2>2, <2>3, <2>4, <2>7, <2>14
<1> QED
  BY <1>10, <1>11

LEMMA RatesAreOfTheShop ==
  \A ctx, data, line, destination, lines, taxed :
    /\ ResolveRates(ctx, data, line, destination) \subseteq data.rates
    /\ ShippingRates(ctx, data, lines, taxed, destination) \subseteq data.rates
<1>1. \A rates, class, country, place : MatchClassRates(rates, class, country, place) \subseteq rates
  BY DEF MatchClassRates
<1>2. \A ctx, rates : Visible(ctx, rates) \subseteq rates
  BY DEF Visible
<1>3. \A ctx, data, line, destination :
        ResolveRates(ctx, data, line, destination) \subseteq data.rates
  <2> TAKE ctx, data, line, destination
  <2>1. PICK class, country, place, default :
          ResolveRates(ctx, data, line, destination) =
            IF line.exempt \/ class = None \/ country = None THEN {}
            ELSE IF class.zero THEN {}
            ELSE IF MatchClassRates(Visible(ctx, data.rates), class.id, country, place) # {} \/ default = None
                 THEN MatchClassRates(Visible(ctx, data.rates), class.id, country, place)
                 ELSE MatchClassRates(Visible(ctx, data.rates), default.id, country, place)
    BY DEF ResolveRates
  <2> QED
    BY <1>1, <1>2, <2>1
<1>4. \A ctx, data, lines, taxed, place :
        ShippingRates(ctx, data, lines, taxed, place) \subseteq data.rates
  <2> TAKE ctx, data, lines, taxed, place
  <2>1. \/ ShippingRates(ctx, data, lines, taxed, place) = {}
        \/ \E class : ShippingRates(ctx, data, lines, taxed, place) =
             {r \in ResolveRates(ctx, data, [class |-> class, exempt |-> FALSE], place) : r.shipping}
    BY DEF ShippingRates
  <2> QED
    BY <1>3, <2>1
<1> QED
  BY <1>3, <1>4

LEMMA SomeNumbered ==
  \A rates, some : Numbered(rates) /\ some \subseteq rates => Numbered(some)
BY FS_Subset DEF Numbered

TaxedIn(U) == \A u \in U : u.tax \in Int

LEMMA PartsTaxIs ==
  ASSUME NEW U, TaxedIn(U), NEW p \in Seq(U), NEW f, \A n \in 1 .. Len(p) : f[n] = p[n].tax
  PROVE  /\ PartsTax(p) = SumOver(f, 1 .. Len(p)) /\ PartsTax(p) \in Int
         /\ Numbers(f, 1 .. Len(p)) /\ IsFiniteSet(1 .. Len(p)) /\ DOMAIN p = 1 .. Len(p)
<1>1. DOMAIN p = 1 .. Len(p) /\ Len(p) \in Nat /\ \A n \in 1 .. Len(p) : p[n] \in U
  OBVIOUS
<1>2. PICK g : g = [n \in DOMAIN p |-> p[n].tax]
  OBVIOUS
<1>3. DOMAIN g = 1 .. Len(p) /\ \A n \in 1 .. Len(p) : g[n] = f[n] /\ f[n] \in Int
  BY <1>1, <1>2 DEF TaxedIn
<1>4. IsFiniteSet(1 .. Len(p))
  BY <1>1, FS_Interval
<1>5. Numbers(f, 1 .. Len(p)) /\ Numbers(g, 1 .. Len(p))
  BY <1>3 DEF Numbers
<1>6. SumOver(g, 1 .. Len(p)) = SumOver(f, 1 .. Len(p)) /\ SumOver(f, 1 .. Len(p)) \in Int
  BY <1>3, <1>4, <1>5, SumSame, SumAdds
<1>7. Total(g) = SumOver(g, 1 .. Len(p))
  BY <1>3, TotalIs
<1> QED
  BY <1>1, <1>2, <1>4, <1>5, <1>6, <1>7 DEF PartsTax

LEMMA CatTax ==
  ASSUME NEW U, TaxedIn(U), NEW p \in Seq(U), NEW q \in Seq(U)
  PROVE  p \o q \in Seq(U) /\ PartsTax(p \o q) = PartsTax(p) + PartsTax(q)
<1>1. PICK c, m, n : c = p \o q /\ m = Len(p) /\ n = Len(q)
  OBVIOUS
<1>2. /\ m \in Nat /\ n \in Nat /\ c \in Seq(U) /\ Len(c) = m + n
      /\ \A k \in 1 .. m : c[k] = p[k]
      /\ \A k \in 1 .. n : c[m + k] = q[k]
  BY <1>1
<1>3. PICK f, g : f = [k \in 1 .. m + n |-> c[k].tax] /\ g = [k \in 1 .. n |-> q[k].tax]
  OBVIOUS
<1>4. \A k \in 1 .. m : k \in 1 .. m + n /\ f[k] = p[k].tax
  BY <1>2, <1>3
<1>5. /\ PartsTax(c) = SumOver(f, 1 .. m + n) /\ Numbers(f, 1 .. m + n) /\ IsFiniteSet(1 .. m + n)
      /\ PartsTax(p) = SumOver(f, 1 .. m) /\ PartsTax(p) \in Int
      /\ PartsTax(q) = SumOver(g, 1 .. n) /\ PartsTax(q) \in Int
      /\ Numbers(g, 1 .. n) /\ IsFiniteSet(1 .. n)
  <2>1. PartsTax(c) = SumOver(f, 1 .. m + n) /\ Numbers(f, 1 .. m + n) /\ IsFiniteSet(1 .. m + n)
    <3>1. c \in Seq(U) /\ \A k \in 1 .. Len(c) : f[k] = c[k].tax
      BY <1>2, <1>3
    <3>2. /\ PartsTax(c) = SumOver(f, 1 .. Len(c)) /\ Numbers(f, 1 .. Len(c))
          /\ IsFiniteSet(1 .. Len(c))
      BY <3>1, PartsTaxIs
    <3> QED
      BY <1>2, <3>2
  <2>2. PartsTax(p) = SumOver(f, 1 .. m) /\ PartsTax(p) \in Int
    <3>1. \A k \in 1 .. Len(p) : f[k] = p[k].tax
      BY <1>1, <1>4
    <3>2. PartsTax(p) = SumOver(f, 1 .. Len(p)) /\ PartsTax(p) \in Int
      BY <3>1, PartsTaxIs
    <3> QED
      BY <1>1, <3>2
  <2>3. /\ PartsTax(q) = SumOver(g, 1 .. n) /\ PartsTax(q) \in Int
        /\ Numbers(g, 1 .. n) /\ IsFiniteSet(1 .. n)
    <3>1. \A k \in 1 .. Len(q) : g[k] = q[k].tax
      BY <1>1, <1>3
    <3>2. /\ PartsTax(q) = SumOver(g, 1 .. Len(q)) /\ PartsTax(q) \in Int
          /\ Numbers(g, 1 .. Len(q)) /\ IsFiniteSet(1 .. Len(q))
      BY <3>1, PartsTaxIs
    <3> QED
      BY <1>1, <3>2
  <2> QED
    BY <2>1, <2>2, <2>3
<1>6. PICK A : A = {k \in Nat : k <= n => SumOver(f, 1 .. m + k) = SumOver(f, 1 .. m) + SumOver(g, 1 .. k)}
  OBVIOUS
<1>7. 0 \in A
  <2>1. SumOver(g, 1 .. 0) = 0
    <3>1. 1 .. 0 = {}
      OBVIOUS
    <3> QED
      BY <3>1, SumEmpty
  <2> QED
    BY <1>2, <1>5, <1>6, <2>1
<1>8. ASSUME NEW k \in Nat, k \in A PROVE k + 1 \in A
  <2> SUFFICES ASSUME k + 1 <= n
               PROVE  SumOver(f, 1 .. m + (k + 1)) = SumOver(f, 1 .. m) + SumOver(g, 1 .. k + 1)
    BY <1>6
  <2>1. /\ 1 .. m + (k + 1) = (1 .. m + k) \cup {m + (k + 1)} /\ m + (k + 1) \notin 1 .. m + k
        /\ 1 .. k + 1 = (1 .. k) \cup {k + 1} /\ k + 1 \notin 1 .. k
    BY <1>2
  <2>2. /\ 1 .. m + k \in SUBSET (1 .. m + n) /\ m + (k + 1) \in 1 .. m + n
        /\ 1 .. k \in SUBSET (1 .. n) /\ k + 1 \in 1 .. n
    BY <1>2
  <2>3. /\ SumOver(f, (1 .. m + k) \cup {m + (k + 1)}) = f[m + (k + 1)] + SumOver(f, 1 .. m + k)
        /\ SumOver(f, 1 .. m + k) \in Int
    <3>1. PICK T, s, x : T = 1 .. m + n /\ s = 1 .. m + k /\ x = m + (k + 1)
      OBVIOUS
    <3>2. IsFiniteSet(T) /\ Numbers(f, T) /\ s \in SUBSET T /\ x \in T \ s
      BY <1>5, <2>1, <2>2, <3>1
    <3>3. SumOver(f, s \cup {x}) = f[x] + SumOver(f, s) /\ SumOver(f, s) \in Int
      BY <3>2, SumInduction
    <3> QED
      BY <3>1, <3>3
  <2>4. /\ SumOver(g, (1 .. k) \cup {k + 1}) = g[k + 1] + SumOver(g, 1 .. k)
        /\ SumOver(g, 1 .. k) \in Int
    <3>1. PICK T, s, x : T = 1 .. n /\ s = 1 .. k /\ x = k + 1
      OBVIOUS
    <3>2. IsFiniteSet(T) /\ Numbers(g, T) /\ s \in SUBSET T /\ x \in T \ s
      BY <1>5, <2>1, <2>2, <3>1
    <3>3. SumOver(g, s \cup {x}) = g[x] + SumOver(g, s) /\ SumOver(g, s) \in Int
      BY <3>2, SumInduction
    <3> QED
      BY <3>1, <3>3
  <2>5. f[m + (k + 1)] = g[k + 1] /\ g[k + 1] \in Int
    BY <1>2, <1>3, <1>5, <2>2 DEF Numbers
  <2>6. SumOver(f, 1 .. m) \in Int
    BY <1>5
  <2>7. SumOver(f, 1 .. m + k) = SumOver(f, 1 .. m) + SumOver(g, 1 .. k)
    <3>1. k <= n
      BY <1>2
    <3> QED
      BY <1>6, <1>8, <3>1
  <2>8. PICK a, b, d, r :
          /\ a = SumOver(f, 1 .. m) /\ b = SumOver(g, 1 .. k) /\ r = SumOver(f, 1 .. m + k)
          /\ d = g[k + 1]
    OBVIOUS
  <2>9. SumOver(f, 1 .. m + (k + 1)) = d + r /\ SumOver(g, 1 .. k + 1) = d + b
    BY <2>1, <2>3, <2>4, <2>5, <2>8
  <2>10. a \in Int /\ b \in Int /\ d \in Int /\ r = a + b
    BY <2>4, <2>5, <2>6, <2>7, <2>8
  <2> QED
    BY <2>8, <2>9, <2>10
<1>9. n \in A
  BY <1>2, <1>7, <1>8, NatSet
<1> QED
  BY <1>1, <1>2, <1>5, <1>6, <1>9

IsCat(h, f, base) ==
  h = [s \in SUBSET DOMAIN f |-> IF s = {} THEN base ELSE f[One(s)] \o h[s \ {One(s)}]]

LEMMA CatUnfolds ==
  \A f, base : FoldFunction(\o, base, f) = (CHOOSE h : IsCat(h, f, base))[DOMAIN f]
BY DEF FoldFunction, FoldFunctionOnSet, MapThenFoldSet, IsCat, One

\* One list of the parts of all the lines.
LEMMA CatParts ==
  ASSUME NEW U, TaxedIn(U), NEW f, IsFiniteSet(DOMAIN f), \A i \in DOMAIN f : f[i] \in Seq(U),
         NEW base \in Seq(U), NEW e, \A i \in DOMAIN f : e[i] = PartsTax(f[i]),
         NEW h, h = (CHOOSE x : IsCat(x, f, base))
  PROVE  /\ h[DOMAIN f] \in Seq(U)
         /\ PartsTax(h[DOMAIN f]) = PartsTax(base) + SumOver(e, DOMAIN f)
<1>1. PICK T, D : T = DOMAIN f /\ D = Seq(U)
  OBVIOUS
<1>3. \A x, y \in D : x \o y \in D /\ PartsTax(x \o y) = PartsTax(x) + PartsTax(y) /\ PartsTax(x) \in Int
  <2> TAKE x, y \in D
  <2>1. x \in Seq(U) /\ y \in Seq(U)
    BY <1>1
  <2>2. x \o y \in Seq(U) /\ PartsTax(x \o y) = PartsTax(x) + PartsTax(y)
    BY <2>1, CatTax
  <2>3. PartsTax(x) \in Int
    <3>1. PICK g : g = [n \in 1 .. Len(x) |-> x[n].tax]
      OBVIOUS
    <3>2. \A n \in 1 .. Len(x) : g[n] = x[n].tax
      BY <3>1
    <3> QED
      BY <2>1, <3>2, PartsTaxIs
  <2> QED
    BY <1>1, <2>2, <2>3
<1>4. IsCat(h, f, base)
  <2>1. PICK G : G = [z \in T \X D |-> f[z[1]] \o z[2]]
    OBVIOUS
  <2>2. \A i \in T, y \in D : f[i] \o y \in D
    BY <1>1, <1>3
  <2>3. G \in [T \X D -> D] /\ \A i \in T, y \in D : G[<<i, y>>] = f[i] \o y
    BY <2>1, <2>2
  <2>4. base \in D /\ IsFiniteSet(T)
    BY <1>1
  <2>5. PICK x \in [SUBSET T -> D] : FoldsBy(x, G, base, T)
    BY <2>3, <2>4, FoldExists
  <2>6. \A s \in SUBSET T : s # {} => One(s) \in T /\ x[s \ {One(s)}] \in D
    BY <2>5, OneFacts
  <2>7. \A s \in SUBSET T : x[s] = IF s = {} THEN base ELSE f[One(s)] \o x[s \ {One(s)}]
    BY <2>3, <2>5, <2>6 DEF FoldsBy
  <2>8. x = [s \in SUBSET T |-> IF s = {} THEN base ELSE f[One(s)] \o x[s \ {One(s)}]]
    BY <2>5, <2>7
  <2>9. IsCat(x, f, base)
    BY <1>1, <2>8 DEF IsCat
  <2> QED
    BY <1>1, <2>9
<1>5. \A s \in SUBSET T : h[s] = IF s = {} THEN base ELSE f[One(s)] \o h[s \ {One(s)}]
  BY <1>1, <1>4 DEF IsCat
<1>6. Numbers(e, T)
  BY <1>1, <1>3 DEF Numbers
<1>7. PICK A : A = {s \in SUBSET T : h[s] \in D /\ PartsTax(h[s]) = PartsTax(base) + SumOver(e, s)}
  OBVIOUS
<1>8. {} \in A
  <2>1. h[{}] = base /\ base \in D
    BY <1>1, <1>5
  <2>2. PartsTax(base) \in Int /\ SumOver(e, {}) = 0 /\ {} \in SUBSET T
    BY <1>3, <2>1, SumEmpty
  <2> QED
    BY <1>7, <2>1, <2>2
<1>9. \A s \in SUBSET T : s # {} /\ s \ {One(s)} \in A => s \in A
  <2> SUFFICES ASSUME NEW s \in SUBSET T, s # {}, s \ {One(s)} \in A
               PROVE  h[s] \in D /\ PartsTax(h[s]) = PartsTax(base) + SumOver(e, s)
    BY <1>7
  <2>1. PICK x, r : x = One(s) /\ r = s \ {x}
    OBVIOUS
  <2>2. x \in s /\ x \in T /\ f[x] \in D /\ IsFiniteSet(s) /\ Numbers(e, s)
    BY <1>1, <1>6, <2>1, OneFacts, FS_Subset DEF Numbers
  <2>3. h[r] \in D /\ PartsTax(h[r]) = PartsTax(base) + SumOver(e, r)
    BY <1>7, <2>1
  <2>4. h[s] = f[x] \o h[r]
    BY <1>5, <2>1
  <2>5. h[s] \in D /\ PartsTax(h[s]) = e[x] + PartsTax(h[r])
    <3>1. f[x] \o h[r] \in D /\ PartsTax(f[x] \o h[r]) = PartsTax(f[x]) + PartsTax(h[r])
      BY <1>3, <2>2, <2>3
    <3>2. e[x] = PartsTax(f[x])
      BY <1>1, <2>2
    <3> QED
      BY <2>4, <3>1, <3>2
  <2>6. SumOver(e, s) = e[x] + SumOver(e, r) /\ SumOver(e, s) \in Int /\ e[x] \in Int
    BY <2>1, <2>2, SumAdds DEF Numbers
  <2>7. SumOver(e, r) \in Int
    <3>1. IsFiniteSet(r) /\ Numbers(e, r)
      BY <2>1, <2>2, FS_Subset DEF Numbers
    <3> QED
      BY <3>1, SumAdds
  <2>8. PartsTax(base) \in Int
    BY <1>1, <1>3
  <2>9. PICK a, b, d, y : /\ a = PartsTax(base) /\ b = SumOver(e, r)
                          /\ d = e[x] /\ y = PartsTax(h[r])
    OBVIOUS
  <2>10. a \in Int /\ b \in Int /\ d \in Int /\ y = a + b
    BY <2>3, <2>6, <2>7, <2>8, <2>9
  <2>11. PartsTax(h[s]) = d + y /\ SumOver(e, s) = d + b
    BY <2>5, <2>6, <2>9
  <2> QED
    BY <2>5, <2>9, <2>10, <2>11
<1>10. T \in A
  <2>1. IsFiniteSet(T) /\ T \in SUBSET T
    BY <1>1
  <2> QED
    BY <1>8, <1>9, <2>1, ByOne
<1>11. h[T] \in D /\ PartsTax(h[T]) = PartsTax(base) + SumOver(e, T)
  BY <1>7, <1>10
<1> QED
  BY <1>1, <1>11

TaxesOf(f, p, T) == \A n \in T : f[n] = p[n].tax

\* The breakdown is the tax of the parts.
LEMMA BreakdownAddsUp ==
  ASSUME NEW p, NEW T, T = DOMAIN p, IsFiniteSet(T),
         NEW f, Numbers(f, T), TaxesOf(f, p, T),
         NEW b, b = Breakdown(p)
  PROVE  /\ IsFiniteSet(DOMAIN b) /\ Numbers(b, DOMAIN b)
         /\ SumOver(b, DOMAIN b) = SumOver(f, T)
<1>1. PICK q, K, g : /\ q = [n \in T |-> <<p[n].label, p[n].bp>>]
                     /\ K = {<<p[n].label, p[n].bp>> : n \in T}
                     /\ g = [k \in K |-> {n \in T : q[n] = k}]
  OBVIOUS
<1>2. /\ q \in [T -> K] /\ g \in [K -> SUBSET T]
      /\ \A k \in K : \A n \in T : n \in g[k] <=> q[n] = k
      /\ \A k \in K : \E n \in T : q[n] = k
  BY <1>1
<1>3. b = [k \in K |-> Total([n \in {m \in T : <<p[m].label, p[m].bp>> = k} |-> p[n].tax])]
  BY <1>1 DEF Breakdown
<1>4. ASSUME NEW k \in K PROVE b[k] = SumOver(f, g[k])
  <2>1. PICK h : h = [n \in g[k] |-> p[n].tax]
    OBVIOUS
  <2>2. g[k] = {m \in T : <<p[m].label, p[m].bp>> = k} /\ g[k] \subseteq T
    BY <1>1
  <2>3. b[k] = Total(h)
    BY <1>3, <2>1, <2>2
  <2>4. IsFiniteSet(g[k]) /\ Numbers(f, g[k]) /\ \A n \in g[k] : f[n] = h[n]
    BY <2>1, <2>2, FS_Subset DEF Numbers, TaxesOf
  <2>5. SumOver(f, g[k]) = SumOver(h, g[k]) /\ Total(h) = SumOver(h, g[k])
    BY <2>1, <2>4, SumSame, TotalIs
  <2> QED
    BY <2>3, <2>5
<1>5. DOMAIN b = K
  BY <1>3
<1>6. IsFiniteSet(K) /\ Numbers(b, K) /\ SumOver(b, K) = SumOver(f, T)
  BY <1>2, <1>4, SumByKey
<1> QED
  BY <1>5, <1>6

\* What TaxLineAddsUp says of the tax of a line.
IsTaxed(t) ==
  /\ t.tax \in Int /\ Len(t.parts) \in Nat /\ DOMAIN t.parts = 1 .. Len(t.parts)
  /\ t.parts \in Seq({t.parts[n] : n \in DOMAIN t.parts})
  /\ \A n \in DOMAIN t.parts : t.parts[n].tax \in Int
  /\ PartsTax(t.parts) = t.tax

LEMMA TaxLineTaxes ==
  ASSUME NEW rates, Numbered(rates), NEW base \in Int, NEW mode
  PROVE  IsTaxed(TaxLine(base, rates, mode))
<1>1. PICK t : t = TaxLine(base, rates, mode)
  OBVIOUS
<1>2. IsTaxed(t)
  BY <1>1, TaxLineAddsUp DEF IsTaxed
<1> QED
  BY <1>1, <1>2

PartsOf(taxed) == [i \in DOMAIN taxed |-> taxed[i].taxed.parts]

LEMMA AllPartsAre ==
  \A taxed, carried :
    AllParts(taxed, carried)
      = (CHOOSE h : IsCat(h, PartsOf(taxed), carried.parts))[DOMAIN PartsOf(taxed)]
BY CatUnfolds DEF AllParts, PartsOf

GrossOf(mode, taxed) ==
  [i \in DOMAIN taxed |-> taxed[i].base + IF mode = Exclusive THEN taxed[i].taxed.tax ELSE 0]
TaxesFrom(taxed) == [i \in DOMAIN taxed |-> taxed[i].taxed.tax]

Result(unit, mode, taxed, shipping, carried, rate) ==
  [items |-> [i \in DOMAIN taxed |->
               [rate |-> taxed[i].rate, tax |-> taxed[i].taxed.tax * unit,
                share |-> taxed[i].share * unit, gross |-> GrossOf(mode, taxed)[i] * unit]],
   shippingTax |-> carried.tax * unit, shippingRate |-> rate,
   lines |-> [k \in DOMAIN Breakdown(AllParts(taxed, carried)) |->
               Breakdown(AllParts(taxed, carried))[k] * unit],
   taxes |-> (Total(TaxesFrom(taxed)) + carried.tax) * unit,
   total |-> (Total(GrossOf(mode, taxed)) + shipping
                + IF mode = Exclusive THEN carried.tax ELSE 0) * unit,
   mode |-> mode]

LEMMA ResultIs ==
  ASSUME NEW unit, NEW mode, NEW taxed, NEW shipping, NEW carried, NEW rate
  PROVE  TaxResult(unit, mode, taxed, shipping, carried, rate)
           = Result(unit, mode, taxed, shipping, carried, rate)
<1>1. PICK b, g, f : /\ b = Breakdown(AllParts(taxed, carried)) /\ g = GrossOf(mode, taxed)
                     /\ f = TaxesFrom(taxed)
  OBVIOUS
<1>2. /\ g = [i \in DOMAIN taxed |->
                taxed[i].base + IF mode = Exclusive THEN taxed[i].taxed.tax ELSE 0]
      /\ f = [i \in DOMAIN taxed |-> taxed[i].taxed.tax]
  BY <1>1 DEF GrossOf, TaxesFrom
<1>3. PICK y : y = [items |-> [i \in DOMAIN taxed |->
                       [rate |-> taxed[i].rate, tax |-> taxed[i].taxed.tax * unit,
                        share |-> taxed[i].share * unit, gross |-> g[i] * unit]],
                    shippingTax |-> carried.tax * unit, shippingRate |-> rate,
                    lines |-> [k \in DOMAIN b |-> b[k] * unit],
                    taxes |-> (Total(f) + carried.tax) * unit,
                    total |-> (Total(g) + shipping + IF mode = Exclusive THEN carried.tax ELSE 0) * unit,
                    mode |-> mode]
  OBVIOUS
<1>4. TaxResult(unit, mode, taxed, shipping, carried, rate) = y
  BY <1>1, <1>2, <1>3 DEF TaxResult, ToMajor
<1>5. Result(unit, mode, taxed, shipping, carried, rate) = y
  BY <1>1, <1>3 DEF Result
<1> QED
  BY <1>4, <1>5

\* The lines taxed, their shares s, amounts a and taxes e.
Laid(taxed, N, s, a, e) ==
  /\ DOMAIN taxed = 1 .. N
  /\ \A i \in 1 .. N : /\ IsTaxed(taxed[i].taxed)
                       /\ s[i] = taxed[i].share /\ s[i] \in Int
                       /\ a[i] = taxed[i].base /\ a[i] \in Int
                       /\ e[i] = taxed[i].taxed.tax

LEMMA PartsTogether ==
  ASSUME NEW N \in Nat, NEW taxed, NEW s, NEW a, NEW e, Laid(taxed, N, s, a, e),
         NEW carried, IsTaxed(carried),
         NEW b, b = Breakdown(AllParts(taxed, carried))
  PROVE  /\ IsFiniteSet(DOMAIN b) /\ Numbers(b, DOMAIN b)
         /\ SumOver(b, DOMAIN b) = SumOver(e, 1 .. N) + carried.tax
<1>1. PICK f, base, h, c : /\ f = PartsOf(taxed) /\ base = carried.parts
                           /\ h = (CHOOSE x : IsCat(x, f, base)) /\ c = AllParts(taxed, carried)
  OBVIOUS
<1>2. c = h[DOMAIN f]
  BY <1>1, AllPartsAre
<1>3. DOMAIN f = 1 .. N /\ \A i \in 1 .. N : f[i] = taxed[i].taxed.parts
  BY <1>1 DEF PartsOf, Laid
<1>4. PICK U : U = (UNION {{f[i][n] : n \in DOMAIN f[i]} : i \in 1 .. N}) \cup {base[n] : n \in DOMAIN base}
  OBVIOUS
<1>5. ASSUME NEW p, NEW t, IsTaxed(t), p = t.parts, \A n \in DOMAIN p : p[n] \in U
      PROVE  p \in Seq(U) /\ PartsTax(p) = t.tax /\ t.tax \in Int /\ \A n \in DOMAIN p : p[n].tax \in Int
  <2>1. Len(p) \in Nat /\ DOMAIN p = 1 .. Len(p) /\ p \in Seq({p[n] : n \in DOMAIN p})
    BY <1>5 DEF IsTaxed
  <2>2. p \in [1 .. Len(p) -> U]
    BY <1>5, <2>1
  <2>3. p \in Seq(U)
    BY <2>1, <2>2, LenIs
  <2> QED
    BY <1>5, <2>3 DEF IsTaxed
<1>6. ASSUME NEW i \in 1 .. N
      PROVE  f[i] \in Seq(U) /\ e[i] = PartsTax(f[i]) /\ \A n \in DOMAIN f[i] : f[i][n].tax \in Int
  <2>1. PICK t, p : t = taxed[i].taxed /\ p = f[i]
    OBVIOUS
  <2>2. IsTaxed(t) /\ p = t.parts /\ e[i] = t.tax
    BY <1>3, <2>1 DEF Laid
  <2>3. \A n \in DOMAIN p : p[n] \in U
    BY <1>4, <2>1
  <2> QED
    BY <1>5, <2>1, <2>2, <2>3
<1>7. base \in Seq(U) /\ PartsTax(base) = carried.tax /\ \A n \in DOMAIN base : base[n].tax \in Int
  <2>1. \A n \in DOMAIN base : base[n] \in U
    BY <1>4
  <2> QED
    BY <1>1, <1>5, <2>1
<1>8. TaxedIn(U)
  BY <1>4, <1>6, <1>7 DEF TaxedIn
<1>9. IsFiniteSet(1 .. N)
  BY FS_Interval
<1>10. c \in Seq(U) /\ PartsTax(c) = PartsTax(base) + SumOver(e, 1 .. N)
  <2>1. /\ IsFiniteSet(DOMAIN f) /\ \A i \in DOMAIN f : f[i] \in Seq(U)
        /\ \A i \in DOMAIN f : e[i] = PartsTax(f[i])
    BY <1>3, <1>6, <1>9
  <2>2. h = (CHOOSE x : IsCat(x, f, base)) /\ base \in Seq(U)
    BY <1>1, <1>7
  <2>3. h[DOMAIN f] \in Seq(U) /\ PartsTax(h[DOMAIN f]) = PartsTax(base) + SumOver(e, DOMAIN f)
    BY <1>8, <2>1, <2>2, CatParts
  <2> QED
    BY <1>2, <1>3, <2>3
<1>11. PICK g, T : T = 1 .. Len(c) /\ g = [n \in T |-> c[n].tax]
  OBVIOUS
<1>12. TaxesOf(g, c, T)
  BY <1>11 DEF TaxesOf
<1>13. \A n \in 1 .. Len(c) : g[n] = c[n].tax
  BY <1>11
<1>14. /\ PartsTax(c) = SumOver(g, T) /\ Numbers(g, T) /\ IsFiniteSet(T) /\ T = DOMAIN c
       /\ PartsTax(c) \in Int
  BY <1>8, <1>10, <1>11, <1>13, PartsTaxIs
<1>15. IsFiniteSet(DOMAIN b) /\ Numbers(b, DOMAIN b) /\ SumOver(b, DOMAIN b) = SumOver(g, T)
  BY <1>1, <1>12, <1>14, BreakdownAddsUp
<1>16. \A i \in 1 .. N : e[i] \in Int
  BY DEF IsTaxed, Laid
<1>17. SumOver(e, 1 .. N) \in Int /\ carried.tax \in Int
  BY <1>9, <1>16, SumAdds DEF Numbers, IsTaxed
<1> QED
  BY <1>7, <1>10, <1>14, <1>15, <1>17

-----------------------------------------------------------------------------
(* The taxes of a basket.                                                   *)

\* The figures of a result, from the lines they are computed of.
Told(r, N, t, u) ==
  \A i \in 1 .. N : t[i] = r.items[i].tax /\ u[i] = r.items[i].share

LEMMA ResultAddsUp ==
  ASSUME NEW N \in Nat, NEW taxed, NEW s, NEW a, NEW e, Laid(taxed, N, s, a, e),
         NEW carried, IsTaxed(carried),
         NEW unit \in Nat, NEW mode, NEW shipping \in Int, NEW rate,
         NEW r, r = TaxResult(unit, mode, taxed, shipping, carried, rate),
         NEW t, NEW u, Told(r, N, t, u)
  PROVE  /\ Total(r.lines) = r.taxes /\ r.taxes \in Int
         /\ SumOver(t, 1 .. N) + r.shippingTax = r.taxes
         /\ SumOver(u, 1 .. N) = unit * SumOver(s, 1 .. N)
         /\ r.total = unit * (SumOver(a, 1 .. N) + shipping)
                        + IF mode = Exclusive THEN r.taxes ELSE 0
         /\ r.mode = mode
<1>1. PICK b, g, f, S1, l, items :
        /\ b = Breakdown(AllParts(taxed, carried)) /\ g = GrossOf(mode, taxed)
        /\ f = TaxesFrom(taxed) /\ S1 = SumOver(e, 1 .. N)
        /\ l = [k \in DOMAIN b |-> b[k] * unit]
        /\ items = [i \in DOMAIN taxed |->
                      [rate |-> taxed[i].rate, tax |-> taxed[i].taxed.tax * unit,
                       share |-> taxed[i].share * unit, gross |-> g[i] * unit]]
  OBVIOUS
<1>2. /\ r.items = items /\ r.shippingTax = carried.tax * unit /\ r.lines = l
      /\ r.taxes = (Total(f) + carried.tax) * unit
      /\ r.total = (Total(g) + shipping + IF mode = Exclusive THEN carried.tax ELSE 0) * unit
      /\ r.mode = mode
  <2>1. r = Result(unit, mode, taxed, shipping, carried, rate)
    BY ResultIs
  <2> QED
    BY <1>1, <2>1 DEF Result
<1>3. IsFiniteSet(1 .. N) /\ unit \in Int
  BY FS_Interval
<1>4. /\ \A i \in 1 .. N : e[i] \in Int /\ e[i] = taxed[i].taxed.tax
      /\ carried.tax \in Int
      /\ \A i \in 1 .. N : s[i] \in Int /\ a[i] \in Int
  BY DEF IsTaxed, Laid
<1>5. Numbers(e, 1 .. N) /\ Numbers(s, 1 .. N) /\ Numbers(a, 1 .. N)
  BY <1>4 DEF Numbers
<1>6. S1 \in Int /\ SumOver(s, 1 .. N) \in Int /\ SumOver(a, 1 .. N) \in Int
  BY <1>1, <1>3, <1>5, SumAdds
<1>7. r.taxes = unit * (S1 + carried.tax) /\ r.taxes \in Int
  <2>1. DOMAIN f = 1 .. N /\ \A i \in 1 .. N : e[i] = f[i]
    BY <1>1 DEF TaxesFrom, Laid
  <2>2. SumOver(e, 1 .. N) = SumOver(f, 1 .. N)
    BY <1>3, <1>5, <2>1, SumSame
  <2>3. Total(f) = S1
    BY <1>1, <2>1, <2>2, TotalIs
  <2>4. r.taxes = (S1 + carried.tax) * unit
    BY <1>2, <2>3
  <2> QED
    BY <1>3, <1>4, <1>6, <2>4
<1>8. Total(r.lines) = r.taxes
  <2>1. /\ IsFiniteSet(DOMAIN b) /\ Numbers(b, DOMAIN b)
        /\ SumOver(b, DOMAIN b) = S1 + carried.tax
    BY <1>1, PartsTogether
  <2>2. DOMAIN l = DOMAIN b /\ \A k \in DOMAIN b : l[k] = unit * b[k]
    BY <1>1, <1>3, <2>1 DEF Numbers
  <2>3. SumOver(l, DOMAIN b) = unit * SumOver(b, DOMAIN b)
    BY <1>3, <2>1, <2>2, SumScale
  <2>4. Total(l) = SumOver(l, DOMAIN b)
    BY <2>2, TotalIs
  <2> QED
    BY <1>2, <1>7, <2>1, <2>3, <2>4
<1>9. SumOver(t, 1 .. N) = unit * S1
  <2>1. \A i \in 1 .. N : t[i] = items[i].tax /\ items[i].tax = e[i] * unit
    BY <1>1, <1>2 DEF Told, Laid
  <2>2. \A i \in 1 .. N : t[i] = unit * e[i]
    BY <1>3, <1>4, <2>1
  <2> QED
    BY <1>1, <1>3, <1>5, <2>2, SumScale
<1>10. SumOver(u, 1 .. N) = unit * SumOver(s, 1 .. N)
  <2>1. \A i \in 1 .. N : u[i] = items[i].share /\ items[i].share = s[i] * unit
    BY <1>1, <1>2 DEF Told, Laid
  <2>2. \A i \in 1 .. N : u[i] = unit * s[i]
    BY <1>3, <1>4, <2>1
  <2> QED
    BY <1>3, <1>5, <2>2, SumScale
<1>11. r.shippingTax = unit * carried.tax /\ r.mode = mode
  BY <1>2, <1>3, <1>4
<1>12. SumOver(t, 1 .. N) + r.shippingTax = r.taxes
  BY <1>3, <1>4, <1>6, <1>7, <1>9, <1>11
<1>13. r.total = unit * (SumOver(a, 1 .. N) + shipping) + IF mode = Exclusive THEN r.taxes ELSE 0
  <2>1. DOMAIN g = 1 .. N /\ Total(g) = SumOver(g, 1 .. N)
    BY <1>1, TotalIs DEF GrossOf, Laid
  <2>2. CASE mode = Exclusive
    <3>1. \A i \in 1 .. N : g[i] = a[i] + e[i]
      BY <1>1, <2>2 DEF GrossOf, Laid
    <3>2. Total(g) = SumOver(a, 1 .. N) + S1
      <4>1. SumOver(g, 1 .. N) = SumOver(a, 1 .. N) + SumOver(e, 1 .. N)
        BY <1>3, <1>5, <3>1, SumPlus
      <4> QED
        BY <1>1, <2>1, <4>1
    <3>3. r.total = (Total(g) + shipping + carried.tax) * unit
      BY <1>2, <2>2
    <3>4. PICK A1 : A1 = SumOver(a, 1 .. N)
      OBVIOUS
    <3>5. r.total = (A1 + S1 + shipping + carried.tax) * unit
      BY <3>2, <3>3, <3>4
    <3>6. (A1 + S1 + shipping + carried.tax) * unit = unit * (A1 + shipping) + unit * (S1 + carried.tax)
      BY <1>3, <1>4, <1>6, <3>4
    <3> QED
      BY <1>7, <2>2, <3>4, <3>5, <3>6
  <2>3. CASE mode # Exclusive
    <3>1. \A i \in 1 .. N : a[i] = g[i]
      BY <1>1, <2>3 DEF GrossOf, Laid
    <3>2. SumOver(a, 1 .. N) = SumOver(g, 1 .. N)
      BY <1>3, <1>5, <3>1, SumSame
    <3>3. r.total = (Total(g) + shipping + 0) * unit
      BY <1>2, <2>3
    <3> QED
      BY <1>3, <1>6, <2>1, <2>3, <3>2, <3>3
  <2> QED
    BY <2>2, <2>3
<1> QED
  BY <1>7, <1>8, <1>10, <1>11, <1>12, <1>13

\* The amounts of the lines in minor units.
InMinor(w, lines, unit, N) ==
  /\ DOMAIN lines = 1 .. N
  /\ \A i \in 1 .. N : w[i] = Round(lines[i].amount, unit) /\ w[i] \in Nat

\* The result r explains itself, with taxes t and shares u of its lines.
Explained(r, N, t, u, w, unit, given, cost, mode) ==
  /\ Total(r.lines) = r.taxes /\ r.taxes \in Int
  /\ SumOver(t, 1 .. N) + r.shippingTax = r.taxes
  /\ SumOver(u, 1 .. N) = unit * given
  /\ r.total = unit * (SumOver(w, 1 .. N) - given + Round(cost, unit))
                 + IF mode = Exclusive THEN r.taxes ELSE 0
  /\ r.mode = mode

\* What computeTaxes returns for amounts in hundredths.
LEMMA TaxesAddUp ==
  ASSUME NEW ctx, NEW data, Numbered(data.rates), NEW unit \in Nat \ {0},
         NEW N \in Nat, NEW lines, NEW w, InMinor(w, lines, unit, N),
         NEW cost \in Int, NEW discount, Round(discount, unit) \in Nat, NEW destination,
         NEW r, r = ComputeTaxes(ctx, data, unit, lines, cost, discount, destination),
         NEW t, NEW u, Told(r, N, t, u),
         NEW given, given = Smaller(Round(discount, unit), SumOver(w, 1 .. N))
  PROVE  Explained(r, N, t, u, w, unit, given, cost, ctx.mode)
<1>1. PICK place, shipping, minor :
        /\ place = DestinationFor(ctx, destination) /\ shipping = Round(cost, unit)
        /\ minor = [i \in DOMAIN lines |-> ToMinor(lines[i].amount, unit)]
  OBVIOUS
<1>2. /\ DOMAIN lines = 1 .. N /\ DOMAIN minor = 1 .. N /\ \A i \in 1 .. N : minor[i] = w[i] /\ minor[i] \in Nat
      /\ IsFiniteSet(1 .. N) /\ shipping \in Int
  <2>1. IsFiniteSet(1 .. N)
    BY FS_Interval
  <2>2. shipping \in Int
    BY <1>1, RoundFacts
  <2> QED
    BY <1>1, <2>1, <2>2 DEF ToMinor, InMinor
<1>3. SumOver(minor, 1 .. N) = SumOver(w, 1 .. N) /\ Total(minor) = SumOver(w, 1 .. N)
      /\ SumOver(w, 1 .. N) \in Nat
  <2>1. Numbers(minor, 1 .. N) /\ \A i \in 1 .. N : w[i] \in Nat
    BY <1>2 DEF Numbers
  <2>2. SumOver(minor, 1 .. N) = SumOver(w, 1 .. N)
    BY <1>2, <2>1, SumSame
  <2> QED
    BY <1>2, <2>1, <2>2, TotalIs, SumOfNats
<1>4. given \in Nat /\ given <= Total(minor)
  BY <1>3 DEF Smaller
<1>5. PICK shares : shares = AllocateLargestRemainder(given, minor)
  OBVIOUS
<1>6. /\ DOMAIN shares = 1 .. N /\ \A i \in 1 .. N : shares[i] \in Nat
      /\ Total(shares) = given
  <2>1. 1 .. N \subseteq Int
    OBVIOUS
  <2> QED
    BY <1>2, <1>4, <1>5, <2>1, SharesAddUp
<1>7. PICK taxed :
        taxed = [i \in DOMAIN lines |->
                   LineTax(minor[i], shares[i], ResolveRates(ctx, data, lines[i], place), ctx.mode)]
  OBVIOUS
<1>8. PICK rates, carried :
        /\ rates = ShippingRates(ctx, data, lines, taxed, place)
        /\ carried = TaxLine(shipping, rates, ctx.mode)
  OBVIOUS
<1>9. r = TaxResult(unit, ctx.mode, taxed, shipping, carried, EffectiveRate(rates))
  <2>1. taxed = TaxedLines(ctx, data, lines, minor, Round(discount, unit), place)
    BY <1>3, <1>5, <1>7 DEF TaxedLines
  <2>2. r = ComputeTaxesAt(ctx, data, unit, lines, shipping, Round(discount, unit), place)
    BY <1>1 DEF ComputeTaxes, ToMinor
  <2>3. r = WithShipping(ctx, data, unit, lines, taxed, shipping, place)
    BY <1>1, <2>1, <2>2 DEF ComputeTaxesAt
  <2> QED
    BY <1>8, <2>3 DEF WithShipping
<1>10. PICK a : a = [i \in 1 .. N |-> minor[i] - shares[i]]
  OBVIOUS
<1>11. /\ DOMAIN taxed = 1 .. N
       /\ \A i \in 1 .. N : /\ taxed[i].share = shares[i] /\ taxed[i].base = a[i]
                            /\ a[i] \in Int /\ shares[i] \in Int
  BY <1>2, <1>6, <1>7, <1>10 DEF LineTax
<1>12. \A i \in 1 .. N : IsTaxed(taxed[i].taxed)
  <2> TAKE i \in 1 .. N
  <2>1. PICK x : x = ResolveRates(ctx, data, lines[i], place)
    OBVIOUS
  <2>2. Numbered(x)
    BY <2>1, RatesAreOfTheShop, SomeNumbered
  <2>3. taxed[i].taxed = TaxLine(a[i], x, ctx.mode)
    BY <1>2, <1>7, <1>10, <2>1 DEF LineTax
  <2> QED
    BY <1>11, <2>2, <2>3, TaxLineTaxes
<1>13. IsTaxed(carried)
  <2>1. Numbered(rates)
    BY <1>8, RatesAreOfTheShop, SomeNumbered
  <2> QED
    BY <1>2, <1>8, <2>1, TaxLineTaxes
<1>14. /\ Total(r.lines) = r.taxes /\ r.taxes \in Int
       /\ SumOver(t, 1 .. N) + r.shippingTax = r.taxes
       /\ SumOver(u, 1 .. N) = unit * SumOver(shares, 1 .. N)
       /\ r.total = unit * (SumOver(a, 1 .. N) + shipping)
                      + IF ctx.mode = Exclusive THEN r.taxes ELSE 0
       /\ r.mode = ctx.mode
  <2>1. PICK e : e = [i \in 1 .. N |-> taxed[i].taxed.tax]
    OBVIOUS
  <2>2. Laid(taxed, N, shares, a, e)
    BY <1>11, <1>12, <2>1 DEF Laid
  <2>3. unit \in Nat
    OBVIOUS
  <2> QED
    BY <1>2, <1>9, <1>13, <2>2, <2>3, ResultAddsUp
<1>15. SumOver(shares, 1 .. N) = given
  BY <1>6, TotalIs
<1>16. SumOver(a, 1 .. N) = SumOver(w, 1 .. N) - given
  <2>1. Numbers(a, 1 .. N) /\ Numbers(shares, 1 .. N)
    BY <1>11 DEF Numbers
  <2>2. \A i \in 1 .. N : minor[i] = a[i] + shares[i]
    BY <1>2, <1>6, <1>10
  <2>3. SumOver(minor, 1 .. N) = SumOver(a, 1 .. N) + SumOver(shares, 1 .. N)
    BY <1>2, <2>1, <2>2, SumPlus
  <2>4. SumOver(a, 1 .. N) \in Int
    BY <1>2, <2>1, SumAdds
  <2> QED
    BY <1>3, <1>4, <1>15, <2>3, <2>4
<1> QED
  BY <1>1, <1>14, <1>15, <1>16 DEF Explained

-----------------------------------------------------------------------------
(* Rounding, and picking from a list.                                       *)

LEMMA RoundOfNat ==
  ASSUME NEW a \in Nat, NEW b \in Nat \ {0}
  PROVE  Round(a, b) \in Nat
<1>1. PICK x : x = Round(a, b)
  OBVIOUS
<1>2. x \in Int /\ 2 * a + b < 2 * (b * x) + 2 * b
  BY <1>1, RoundFacts
<1>3. ~(x < 0)
  <2> SUFFICES ASSUME x + 1 <= 0 PROVE FALSE
    BY <1>2
  <2>1. b * (x + 1) <= 0 /\ b * (x + 1) = b * x + b /\ b * x \in Int
    BY <1>2
  <2> QED
    BY <1>2, <2>1
<1> QED
  BY <1>1, <1>2, <1>3

\* A rounded amount is off by half a unit at most, and by nothing in hundredths.
Slack(unit) == IF unit = 1 THEN 0 ELSE unit

LEMMA RoundClose ==
  ASSUME NEW a \in Int, NEW unit \in Nat \ {0}
  PROVE  /\ unit * Round(a, unit) \in Int
         /\ 2 * (unit * Round(a, unit)) <= 2 * a + Slack(unit)
         /\ 2 * a <= 2 * (unit * Round(a, unit)) + Slack(unit)
<1>1. PICK x, y : x = Round(a, unit) /\ y = unit * x
  OBVIOUS
<1>2. x \in Int /\ y \in Int /\ 2 * y <= 2 * a + unit /\ 2 * a + unit < 2 * y + 2 * unit
  <2>1. /\ Round(a, unit) \in Int /\ 2 * (unit * Round(a, unit)) <= 2 * a + unit
        /\ 2 * a + unit < 2 * (unit * Round(a, unit)) + 2 * unit
    BY RoundFacts
  <2> QED
    BY <1>1, <2>1
<1>3. CASE unit = 1
  <2>1. x = a
    BY <1>1, <1>3, RoundWhole
  <2> QED
    BY <1>1, <1>2, <1>3, <2>1 DEF Slack
<1>4. CASE unit # 1
  BY <1>1, <1>2, <1>4 DEF Slack
<1> QED
  BY <1>3, <1>4

LEMMA HasLargest ==
  ASSUME NEW X, IsFiniteSet(X), X \subseteq Int, X # {}
  PROVE  \E x \in X : \A y \in X : x >= y
<1> DEFINE A == {s \in SUBSET X : s # {} => \E x \in s : \A y \in s : x >= y}
<1>1. {} \in A
  OBVIOUS
<1>2. ASSUME NEW s \in SUBSET X, NEW z \in X \ s, s \in A PROVE s \cup {z} \in A
  <2>1. CASE s = {}
    BY <2>1
  <2>2. CASE s # {}
    <3>1. PICK x \in s : \A y \in s : x >= y
      BY <1>2, <2>2
    <3>2. CASE z >= x
      <4>1. \A y \in s \cup {z} : z >= y
        BY <3>1, <3>2
      <4> QED
        BY <4>1
    <3>3. CASE ~(z >= x)
      <4>1. \A y \in s \cup {z} : x >= y
        BY <3>1, <3>3
      <4> QED
        BY <3>1, <4>1
    <3> QED
      BY <3>2, <3>3
  <2> QED
    BY <2>1, <2>2
<1>3. X \in A
  <2> HIDE DEF A
  <2> QED
    BY <1>1, <1>2, FiniteSet
<1> QED
  BY <1>3

\* A sequence, and its elements.
IsList(q) == Len(q) \in Nat /\ DOMAIN q = 1 .. Len(q) /\ q \in Seq({q[n] : n \in DOMAIN q})

LEMMA ListOf ==
  ASSUME NEW N \in Nat, NEW q, NEW D, q \in [1 .. N -> D]
  PROVE  IsList(q) /\ Len(q) = N
<1>1. DOMAIN q = 1 .. N /\ q \in [1 .. N -> {q[n] : n \in DOMAIN q}]
  OBVIOUS
<1>2. Len(q) = N /\ q \in Seq({q[n] : n \in DOMAIN q})
  BY <1>1, LenIs
<1> QED
  BY <1>1, <1>2 DEF IsList

LEMMA ListNotEmpty ==
  ASSUME NEW q, IsList(q), q # <<>>
  PROVE  1 \in DOMAIN q
<1>1. Len(q) # 0
  BY EmptySeq DEF IsList
<1> QED
  BY <1>1 DEF IsList

Indices(P) == P \subseteq Nat

LEMMA PickedFacts ==
  ASSUME NEW s, NEW P, IsFiniteSet(P), Indices(P),
         NEW q, q = S!Picked(s, P)
  PROVE  IsList(q) /\ \A k \in DOMAIN q : \E n \in P : q[k] = s[n]
<1>1. PICK low, f, N : /\ low = [i \in P |-> {j \in P : j < i}]
                       /\ f = [i \in P |-> Cardinality(low[i])] /\ N = Cardinality(P)
  OBVIOUS
<1>2. N \in Nat /\ \A k \in Nat : k < N => \E i \in P : f[i] = k
  <2>1. low \in [P -> SUBSET P] /\ \A i \in P : i \notin low[i]
    BY <1>1 DEF Indices
  <2>2. \A i, j \in P : i = j \/ i \in low[j] \/ j \in low[i]
    BY <1>1 DEF Indices
  <2>3. \A i, j, k \in P : i \in low[j] /\ j \in low[k] => i \in low[k]
    BY <1>1 DEF Indices
  <2>4. \A i \in P : f[i] = Cardinality(low[i])
    BY <1>1
  <2>5. N = Cardinality(P)
    BY <1>1
  <2>6. N \in Nat
    BY <2>5, FS_CardinalityType
  <2>7. \A k \in Nat : k < N => \E i \in P : f[i] = k
    BY <2>1, <2>2, <2>3, <2>4, <2>5, Places01
  <2> QED
    BY <2>6, <2>7
<1>3. ASSUME NEW k \in 1 .. N PROVE \E n \in P : Cardinality({m \in P : m <= n}) = k
  <2>1. k - 1 \in Nat /\ k - 1 < N
    BY <1>2
  <2>2. PICK n \in P : f[n] = k - 1
    BY <1>2, <2>1
  <2>3. PICK b : b = low[n]
    OBVIOUS
  <2>4. Cardinality(b) = k - 1 /\ IsFiniteSet(b) /\ n \notin b
    BY <1>1, <2>2, <2>3, FS_Subset DEF Indices
  <2>5. {m \in P : m <= n} = b \cup {n}
    <3>1. b \subseteq P /\ \A m \in P : m <= n <=> (m \in b \/ m = n)
      BY <1>1, <2>3 DEF Indices
    <3> QED
      BY <3>1
  <2>6. Cardinality(b \cup {n}) = Cardinality(b) + 1
    BY <2>4, FS_AddElement, Zenon
  <2>7. Cardinality({m \in P : m <= n}) = k
    <3>1. Cardinality(b \cup {n}) = k
      BY <1>2, <2>4, <2>6
    <3> QED
      BY <2>5, <3>1
  <2> QED
    BY <2>7
<1>4. q = [k \in 1 .. N |-> s[CHOOSE n \in P : Cardinality({m \in P : m <= n}) = k]]
  <2>1. q = [k \in 1 .. Cardinality(P) |->
               s[CHOOSE n \in P : Cardinality({m \in P : m <= n}) = k]]
    BY DEF S!Picked, S!Cardinality, Cardinality
  <2> QED
    BY <1>1, <2>1
<1>5. ASSUME NEW k \in 1 .. N PROVE \E n \in P : q[k] = s[n]
  <2>1. PICK i : i = (CHOOSE n \in P : Cardinality({m \in P : m <= n}) = k)
    OBVIOUS
  <2>2. i \in P
    BY <1>3, <2>1
  <2>3. q[k] = s[i]
    BY <1>4, <2>1
  <2> QED
    BY <2>2, <2>3
<1>6. DOMAIN q = 1 .. N /\ q \in [1 .. N -> {q[n] : n \in 1 .. N}]
  BY <1>4
<1>7. IsList(q)
  BY <1>2, <1>6, ListOf
<1> QED
  BY <1>5, <1>6, <1>7

\* Where something is found it is an element of the sequence.
LEMMA FirstIsHit ==
  ASSUME NEW hits, hits \subseteq Nat, hits # {}
  PROVE  (CHOOSE n \in hits : \A m \in hits : n <= m) \in hits
BY HasLeast

LEMMA ImageIsFinite ==
  ASSUME NEW T, IsFiniteSet(T), NEW f, DOMAIN f = T
  PROVE  IsFiniteSet({f[x] : x \in T})
<1>1. PICK g, I : I = {f[x] : x \in T} /\ g = [x \in T |-> f[x]]
  OBVIOUS
<1>2. g \in Surjection(T, I)
  BY <1>1 DEF Surjection
<1> QED
  BY <1>1, <1>2, FS_Surjection

-----------------------------------------------------------------------------
(* Shipping: quotes, their methods and the one that is taken.               *)

IsMethod(m) == "cost" \in DOMAIN m /\ m.cost \in Nat
Offers(q) == IsList(q) /\ \A n \in DOMAIN q : IsMethod(q[n])

LEMMA QuotedIsMethod ==
  ASSUME NEW m, m.base \in Nat, m.perItem \in Nat, NEW count \in Nat,
         NEW id, NEW name, NEW pickup, NEW subtotal
  PROVE  IsMethod(S!Quoted(m, id, name, pickup, count, subtotal))
<1>1. m.perItem * count \in Nat
  OBVIOUS
<1>2. S!PriceFor(m, count, subtotal) \in Nat
  BY <1>1 DEF S!PriceFor
<1> QED
  BY <1>2 DEF IsMethod, S!Quoted

LEMMA ZoneOffers ==
  ASSUME NEW zone, PricedZone(zone), NEW count \in Nat, NEW subtotal
  PROVE  Offers(S!QuoteZone(zone, count, subtotal))
<1>1. PICK q, ms : q = S!QuoteZone(zone, count, subtotal) /\ ms = zone.methods
  OBVIOUS
<1>2. CASE ms = <<>>
  <2>1. PICK m : m = S!Quoted(zone, zone.id, FallbackMethod, FALSE, count, subtotal)
    OBVIOUS
  <2>2. q = <<m>>
    BY <1>1, <1>2, <2>1 DEF S!QuoteZone
  <2>3. zone.base \in Nat /\ zone.perItem \in Nat
    BY DEF PricedZone
  <2>4. IsMethod(m)
    BY <2>1, <2>3, QuotedIsMethod
  <2>5. q = [n \in 1 .. 1 |-> m] /\ q \in [1 .. 1 -> {m}]
    BY <2>2
  <2>6. IsList(q)
    BY <2>5, ListOf
  <2> QED
    BY <1>1, <2>4, <2>5, <2>6 DEF Offers
<1>3. CASE ms # <<>>
  <2>1. PICK P, a : P = {n \in 1 .. Len(ms) : ms[n].active} /\ a = S!Picked(ms, P)
    OBVIOUS
  <2>2. /\ Len(ms) \in Nat
        /\ \A n \in 1 .. Len(ms) : ms[n].base \in Nat /\ ms[n].perItem \in Nat
    BY <1>1 DEF PricedZone
  <2>3. IsFiniteSet(P) /\ Indices(P) /\ P \subseteq 1 .. Len(ms)
    <3>1. IsFiniteSet(1 .. Len(ms))
      BY <2>2, FS_Interval
    <3>2. P \subseteq 1 .. Len(ms)
      BY <2>1
    <3>3. IsFiniteSet(P)
      BY <3>1, <3>2, FS_Subset
    <3> QED
      BY <3>2, <3>3 DEF Indices
  <2>4. IsList(a) /\ \A k \in DOMAIN a : \E n \in P : a[k] = ms[n]
    <3>1. a = S!Picked(ms, P) /\ IsFiniteSet(P) /\ Indices(P)
      BY <2>1, <2>3
    <3> QED
      BY <3>1, PickedFacts
  <2>5. q = [n \in 1 .. Len(a) |->
               S!Quoted(a[n], a[n].id, a[n].name, a[n].pickup, count, subtotal)]
    BY <1>1, <1>3, <2>1 DEF S!QuoteZone
  <2>6. \A n \in 1 .. Len(a) : IsMethod(q[n])
    <3> TAKE n \in 1 .. Len(a)
    <3>1. PICK m : m = a[n]
      OBVIOUS
    <3>2. m.base \in Nat /\ m.perItem \in Nat
      BY <2>2, <2>3, <2>4, <3>1 DEF IsList
    <3>3. IsMethod(S!Quoted(m, m.id, m.name, m.pickup, count, subtotal))
      BY <3>2, QuotedIsMethod
    <3> QED
      BY <2>5, <3>1, <3>3
  <2>7. Len(a) \in Nat /\ q \in [1 .. Len(a) -> {q[n] : n \in 1 .. Len(a)}]
    BY <2>4, <2>5 DEF IsList
  <2>8. IsList(q) /\ Len(q) = Len(a)
    BY <2>7, ListOf
  <2> QED
    BY <1>1, <2>6, <2>8 DEF Offers, IsList
<1> QED
  BY <1>2, <1>3

\* What find returns: null, or an element of the sequence.
Hit(x, s, hits) ==
  x = IF hits = {} THEN None ELSE s[CHOOSE n \in hits : \A m \in hits : n <= m]

LEMMA FoundAt ==
  ASSUME NEW s, NEW hits, Indices(hits), NEW x, Hit(x, s, hits)
  PROVE  IF hits = {} THEN x = None ELSE \E n \in hits : x = s[n]
<1>1. CASE hits # {}
  <2>1. hits \subseteq Nat
    BY DEF Indices
  <2>2. (CHOOSE n \in hits : \A m \in hits : n <= m) \in hits
    BY <1>1, <2>1, FirstIsHit
  <2> QED
    BY <1>1, <2>2 DEF Hit
<1> QED
  BY <1>1 DEF Hit

LEMMA ZoneFound ==
  ASSUME NEW zones, Len(zones) \in Nat, NEW country,
         S!FindZone(zones, country) # None
  PROVE  \E n \in 1 .. Len(zones) : S!FindZone(zones, country) = zones[n]
<1>1. PICK hits, x : /\ hits = {n \in 1 .. Len(zones) : country \in zones[n].countries}
                     /\ x = S!FindZone(zones, country)
  OBVIOUS
<1>2. Hit(x, zones, hits)
  BY <1>1 DEF Hit, S!FindZone, S!FirstWhere
<1>3. hits \subseteq 1 .. Len(zones) /\ Indices(hits)
  BY <1>1 DEF Indices
<1>4. IF hits = {} THEN x = None ELSE \E n \in hits : x = zones[n]
  <2>1. Indices(hits)
    BY <1>3
  <2> QED
    BY <1>2, <2>1, FoundAt
<1> QED
  BY <1>1, <1>3, <1>4

LEMMA NamedFound ==
  ASSUME NEW q, Offers(q), NEW name, S!Named(q, name) # None
  PROVE  IsMethod(S!Named(q, name))
<1>1. PICK hits, x : hits = {n \in 1 .. Len(q) : q[n].name = name} /\ x = S!Named(q, name)
  OBVIOUS
<1>2. Hit(x, q, hits)
  BY <1>1 DEF Hit, S!Named, S!FirstWhere
<1>3. /\ hits \subseteq 1 .. Len(q) /\ Len(q) \in Nat /\ DOMAIN q = 1 .. Len(q)
      /\ Indices(hits)
  BY <1>1 DEF Offers, IsList, Indices
<1>4. IF hits = {} THEN x = None ELSE \E n \in hits : x = q[n]
  <2>1. Indices(hits)
    BY <1>3
  <2> QED
    BY <1>2, <2>1, FoundAt
<1> QED
  BY <1>1, <1>3, <1>4 DEF Offers

Asked(q, wanted) == S!FirstWhere(q, LAMBDA m : m.id = wanted)

LEMMA AskedFound ==
  ASSUME NEW q, Offers(q), NEW wanted, NEW x, x = Asked(q, wanted), x # None
  PROVE  IsMethod(x)
<1>1. PICK hits : hits = {n \in 1 .. Len(q) : q[n].id = wanted}
  OBVIOUS
<1>2. Hit(x, q, hits)
  BY <1>1 DEF Hit, Asked, S!FirstWhere
<1>3. /\ hits \subseteq 1 .. Len(q) /\ Len(q) \in Nat /\ DOMAIN q = 1 .. Len(q)
      /\ Indices(hits)
  BY <1>1 DEF Offers, IsList, Indices
<1>4. IF hits = {} THEN x = None ELSE \E n \in hits : x = q[n]
  <2>1. Indices(hits)
    BY <1>3
  <2> QED
    BY <1>2, <2>1, FoundAt
<1> QED
  BY <1>3, <1>4 DEF Offers

\* The cheapest of some methods is one of them, and there is one.
LEMMA CheapestFound ==
  ASSUME NEW q, Offers(q)
  PROVE  IF q = <<>> THEN S!CheapestOf(q) = None ELSE IsMethod(S!CheapestOf(q))
<1>1. PICK hits, x : /\ hits = {n \in 1 .. Len(q) : \A k \in 1 .. Len(q) : q[n].cost <= q[k].cost}
                     /\ x = S!CheapestOf(q)
  OBVIOUS
<1>2. Hit(x, q, hits)
  BY <1>1 DEF Hit, S!CheapestOf, S!FirstWhere
<1>3. /\ hits \subseteq 1 .. Len(q) /\ Len(q) \in Nat /\ DOMAIN q = 1 .. Len(q)
      /\ Indices(hits)
  BY <1>1 DEF Offers, IsList, Indices
<1>4. IF hits = {} THEN x = None ELSE \E n \in hits : x = q[n]
  <2>1. Indices(hits)
    BY <1>3
  <2> QED
    BY <1>2, <2>1, FoundAt
<1>5. CASE q = <<>>
  <2>1. 1 .. Len(q) = {}
    BY <1>5
  <2> QED
    BY <1>1, <1>3, <1>4, <1>5, <2>1
<1>6. CASE q # <<>>
  <2>1. 1 \in DOMAIN q
    BY <1>6, ListNotEmpty DEF Offers
  <2>2. PICK X : X = {q[n].cost : n \in 1 .. Len(q)}
    OBVIOUS
  <2>3. \A n \in 1 .. Len(q) : q[n].cost \in Nat
    BY <1>3 DEF Offers, IsMethod
  <2>4. X \subseteq Nat /\ X # {}
    BY <1>3, <2>1, <2>2, <2>3
  <2>5. PICK y \in X : \A z \in X : y <= z
    BY <2>4, HasLeast
  <2>6. PICK n \in 1 .. Len(q) : y = q[n].cost
    BY <2>2, <2>5
  <2>7. n \in hits
    BY <1>1, <2>2, <2>5, <2>6
  <2> QED
    BY <1>1, <1>3, <1>4, <1>6, <2>7 DEF Offers
<1> QED
  BY <1>5, <1>6

LEMMA MergedIsMethod ==
  ASSUME NEW lead, IsMethod(lead), NEW matches, IsFiniteSet(matches), matches # {},
         \A m \in matches : IsMethod(m)
  PROVE  IsMethod(S!Merged(lead, matches))
<1>1. PICK c, X : c = [m \in matches |-> m.cost] /\ X = {c[m] : m \in matches}
  OBVIOUS
<1>2. DOMAIN c = matches /\ \A m \in matches : c[m] \in Nat /\ c[m] = m.cost
  BY <1>1 DEF IsMethod
<1>3. IsFiniteSet(X)
  BY <1>1, <1>2, ImageIsFinite
<1>4. X \subseteq Nat /\ X # {} /\ X = {m.cost : m \in matches}
  BY <1>1, <1>2
<1>5. PICK top : top = S!MaxOf(X)
  OBVIOUS
<1>6. top \in X
  <2>1. \E x \in X : \A y \in X : x >= y
    <3>1. X \subseteq Int
      BY <1>4
    <3> QED
      BY <1>3, <1>4, <3>1, HasLargest
  <2> QED
    BY <1>5, <2>1 DEF S!MaxOf
<1>7. PICK days : days = <<S!MinOf({m.days[1] : m \in matches}), S!MaxOf({m.days[2] : m \in matches})>>
  OBVIOUS
<1>8. S!Merged(lead, matches) = [lead EXCEPT !.cost = top, !.days = days]
  BY <1>4, <1>5, <1>7 DEF S!Merged
<1> QED
  BY <1>4, <1>6, <1>8 DEF IsMethod

\* The quotes of the fulfillers.
Quotes(qs, K) == DOMAIN qs = 1 .. K /\ \A p \in 1 .. K : Offers(qs[p]) /\ qs[p] # <<>>

LEMMA MergeOffers ==
  ASSUME NEW K \in Nat, NEW qs, IsList(qs), Len(qs) = K, Quotes(qs, K)
  PROVE  Offers(S!MergeProfileQuotes(qs))
<1>1. PICK lead, common, cheapest, q :
        /\ lead = qs[1] /\ q = S!MergeProfileQuotes(qs)
        /\ common = S!Picked(lead, {n \in 1 .. Len(lead) : \A p \in 1 .. Len(qs) :
                                      S!Named(qs[p], lead[n].name) # None})
        /\ cheapest = [p \in 1 .. Len(qs) |-> S!CheapestOf(qs[p])]
  OBVIOUS
<1>2. q = CASE qs = <<>> -> <<>>
            [] Len(qs) = 1 -> lead
            [] Len(qs) > 1 /\ common # <<>> ->
                 [n \in 1 .. Len(common) |->
                    S!Merged(common[n], {common[n]} \cup
                       {S!Named(qs[p], common[n].name) : p \in 2 .. Len(qs)})]
            [] OTHER -> <<S!Merged(cheapest[1], {cheapest[p] : p \in 1 .. Len(qs)})>>
  BY <1>1 DEF S!MergeProfileQuotes
<1>3. \A p \in 1 .. K : Offers(qs[p]) /\ qs[p] # <<>>
  BY DEF Quotes
<1>4. CASE qs = <<>>
  <2>1. q = <<>> /\ q \in [1 .. 0 -> {q[n] : n \in 1 .. 0}]
    BY <1>2, <1>4
  <2>2. IsList(q) /\ Len(q) = 0
    BY <2>1, ListOf
  <2>3. DOMAIN q = {}
    BY <2>2 DEF IsList
  <2> QED
    BY <1>1, <2>2, <2>3 DEF Offers
<1>5. CASE qs # <<>> /\ K = 1
  BY <1>1, <1>2, <1>3, <1>5
<1>6. CASE qs # <<>> /\ K > 1 /\ common # <<>>
  <2>1. PICK P : P = {n \in 1 .. Len(lead) : \A p \in 1 .. K : S!Named(qs[p], lead[n].name) # None}
    OBVIOUS
  <2>2. Offers(lead)
    BY <1>1, <1>3, <1>6
  <2>3. Len(lead) \in Nat /\ DOMAIN lead = 1 .. Len(lead)
    BY <2>2 DEF Offers, IsList
  <2>4. IsFiniteSet(P) /\ Indices(P) /\ P \subseteq 1 .. Len(lead)
    <3>1. IsFiniteSet(1 .. Len(lead))
      BY <2>3, FS_Interval
    <3>2. P \subseteq 1 .. Len(lead)
      BY <2>1
    <3>3. IsFiniteSet(P)
      BY <3>1, <3>2, FS_Subset
    <3> QED
      BY <3>2, <3>3 DEF Indices
  <2>5. IsList(common) /\ \A k \in DOMAIN common : \E n \in P : common[k] = lead[n]
    <3>1. common = S!Picked(lead, P)
      BY <1>1, <2>1
    <3>2. IsFiniteSet(P) /\ Indices(P)
      BY <2>4
    <3> QED
      BY <3>1, <3>2, PickedFacts
  <2>6. q = [n \in 1 .. Len(common) |->
               S!Merged(common[n], {common[n]} \cup
                 {S!Named(qs[p], common[n].name) : p \in 2 .. K})]
    BY <1>2, <1>6
  <2>7. ASSUME NEW n \in 1 .. Len(common) PROVE IsMethod(q[n])
    <3>1. PICK m, f : m = common[n] /\ f = [p \in 2 .. K |-> S!Named(qs[p], m.name)]
      OBVIOUS
    <3>2. PICK k \in P : m = lead[k]
      BY <2>5, <3>1 DEF IsList
    <3>3. IsMethod(m)
      BY <2>2, <2>3, <2>4, <3>2 DEF Offers
    <3>4. PICK R : R = {f[p] : p \in 2 .. K}
      OBVIOUS
    <3>5. \A r \in R : IsMethod(r)
      <4> SUFFICES ASSUME NEW p \in 2 .. K PROVE IsMethod(f[p])
        BY <3>4
      <4>1. p \in 1 .. K /\ S!Named(qs[p], m.name) # None
        BY <2>1, <3>2
      <4>2. Offers(qs[p])
        BY <1>3, <4>1
      <4> QED
        BY <3>1, <4>1, <4>2, NamedFound
    <3>6. IsFiniteSet(R)
      <4>1. IsFiniteSet(2 .. K)
        BY FS_Interval
      <4> QED
        BY <3>1, <3>4, <4>1, ImageIsFinite
    <3>7. PICK M : M = {m} \cup R
      OBVIOUS
    <3>8. IsFiniteSet(M) /\ M # {} /\ \A r \in M : IsMethod(r)
      <4>1. IsFiniteSet(R \cup {m})
        BY <3>6, FS_AddElement, Zenon
      <4> QED
        BY <3>3, <3>5, <3>7, <4>1
    <3>9. IsMethod(S!Merged(m, M))
      BY <3>3, <3>8, MergedIsMethod
    <3>10. q[n] = S!Merged(m, M)
      BY <2>6, <3>1, <3>4, <3>7
    <3> QED
      BY <3>9, <3>10
  <2>8. Len(common) \in Nat /\ q \in [1 .. Len(common) -> {q[n] : n \in 1 .. Len(common)}]
    BY <2>5, <2>6 DEF IsList
  <2>9. IsList(q) /\ Len(q) = Len(common)
    BY <2>8, ListOf
  <2> QED
    BY <1>1, <2>7, <2>9 DEF Offers, IsList
<1>7. CASE qs # <<>> /\ K # 1 /\ ~(K > 1 /\ common # <<>>)
  <2>1. PICK M, m : M = {cheapest[p] : p \in 1 .. K} /\ m = S!Merged(cheapest[1], M)
    OBVIOUS
  <2>2. q = <<m>>
    BY <1>2, <1>7, <2>1
  <2>3. \A p \in 1 .. K : IsMethod(cheapest[p])
    BY <1>1, <1>3, CheapestFound
  <2>4. K # 0
    BY <1>7, ListNotEmpty DEF IsList
  <2>5. IsFiniteSet(M)
    <3>1. IsFiniteSet(1 .. K)
      BY FS_Interval
    <3>2. DOMAIN cheapest = 1 .. K
      BY <1>1
    <3> QED
      BY <2>1, <3>1, <3>2, ImageIsFinite
  <2>6. 1 \in 1 .. K
    BY <2>4
  <2>7. IsMethod(m)
    <3>1. M # {} /\ \A r \in M : IsMethod(r)
      BY <2>1, <2>3, <2>6
    <3> QED
      BY <2>1, <2>3, <2>5, <2>6, <3>1, MergedIsMethod
  <2>8. q = [n \in 1 .. 1 |-> m] /\ q \in [1 .. 1 -> {m}]
    BY <2>2
  <2>9. IsList(q)
    BY <2>8, ListOf
  <2> QED
    BY <1>1, <2>7, <2>8, <2>9 DEF Offers
<1> QED
  BY <1>4, <1>5, <1>6, <1>7

\* The goods of a list ship under profiles of the shop.
Shippable(items, sh) ==
  /\ IsList(items) /\ \A n \in DOMAIN items : OwnProfile(sh, S!ProfileOf(items[n], sh.defaults))

LEMMA ProfilesResolved ==
  ASSUME NEW sh, NEW items, Shippable(items, sh),
         NEW ids, ids = S!ResolveProfileIds(items, sh.defaults)
  PROVE  IsList(ids) /\ \A k \in DOMAIN ids : ids[k] \in DOMAIN sh.profiles
<1>1. PICK all, P : /\ all = [n \in 1 .. Len(items) |-> S!ProfileOf(items[n], sh.defaults)]
                    /\ P = {n \in 1 .. Len(items) :
                              all[n] # None /\ \A m \in 1 .. (n - 1) : all[m] # all[n]}
  OBVIOUS
<1>2. Len(items) \in Nat /\ DOMAIN items = 1 .. Len(items)
  BY DEF Shippable, IsList
<1>3. IsFiniteSet(P) /\ Indices(P) /\ P \subseteq 1 .. Len(items)
  <2>1. IsFiniteSet(1 .. Len(items))
    BY <1>2, FS_Interval
  <2>2. P \subseteq 1 .. Len(items)
    BY <1>1
  <2>3. IsFiniteSet(P)
    BY <2>1, <2>2, FS_Subset
  <2> QED
    BY <2>2, <2>3 DEF Indices
<1>4. IsList(ids) /\ \A k \in DOMAIN ids : \E n \in P : ids[k] = all[n]
  <2>1. ids = S!Picked(all, P)
    BY <1>1 DEF S!ResolveProfileIds
  <2>2. IsFiniteSet(P) /\ Indices(P)
    BY <1>3
  <2> QED
    BY <2>1, <2>2, PickedFacts
<1>5. \A n \in P : all[n] \in DOMAIN sh.profiles
  <2> TAKE n \in P
  <2>1. all[n] # None /\ all[n] = S!ProfileOf(items[n], sh.defaults) /\ n \in DOMAIN items
    BY <1>1, <1>2, <1>3
  <2> QED
    BY <2>1 DEF Shippable, OwnProfile
<1> QED
  BY <1>4, <1>5

LEMMA QuoteOffers ==
  ASSUME NEW sh, Priced(sh), NEW items, Shippable(items, sh), NEW country,
         NEW count \in Nat, NEW subtotal,
         NEW quote, quote = S!QuoteForItems(items, sh.profiles, sh.defaults, country,
                                            count, subtotal),
         quote.available
  PROVE  Offers(quote.methods)
<1>1. PICK ids, zones, qs :
        /\ ids = S!ResolveProfileIds(items, sh.defaults)
        /\ zones = [n \in 1 .. Len(ids) |-> S!FindZone(sh.profiles[ids[n]], country)]
        /\ qs = [n \in 1 .. Len(ids) |-> S!QuoteZone(zones[n], count, subtotal)]
  OBVIOUS
<1>2. quote = IF ids = <<>> THEN [available |-> TRUE, methods |-> <<>>]
              ELSE IF \E n \in 1 .. Len(ids) : IF zones[n] = None THEN TRUE ELSE qs[n] = <<>>
              THEN S!Unavailable
              ELSE [available |-> TRUE, methods |-> S!MergeProfileQuotes(qs)]
  <2>1. S!QuoteForItems(items, sh.profiles, sh.defaults, country, count, subtotal)
          = IF ids = <<>> THEN [available |-> TRUE, methods |-> <<>>]
            ELSE IF \E n \in 1 .. Len(ids) :
                      IF zones[n] = None THEN TRUE
                      ELSE S!QuoteZone(zones[n], count, subtotal) = <<>>
            THEN S!Unavailable
            ELSE [available |-> TRUE,
                  methods |-> S!MergeProfileQuotes(
                    [n \in 1 .. Len(ids) |-> S!QuoteZone(zones[n], count, subtotal)])]
    BY <1>1 DEF S!QuoteForItems
  <2> QED
    BY <1>1, <2>1
<1>3. IsList(ids) /\ \A k \in DOMAIN ids : ids[k] \in DOMAIN sh.profiles
  BY <1>1, ProfilesResolved
<1>4. CASE ids = <<>>
  <2>1. quote.methods = <<>> /\ <<>> \in [1 .. 0 -> {<<>>[n] : n \in 1 .. 0}]
    BY <1>2, <1>4
  <2>2. IsList(<<>>) /\ Len(<<>>) = 0
    BY <2>1, ListOf
  <2>3. DOMAIN <<>> = {}
    BY <2>2 DEF IsList
  <2> QED
    BY <2>1, <2>2, <2>3 DEF Offers
<1>5. CASE ids # <<>>
  <2>1. ~ \E n \in 1 .. Len(ids) : IF zones[n] = None THEN TRUE ELSE qs[n] = <<>>
    BY <1>2, <1>5 DEF S!Unavailable
  <2>2. quote.methods = S!MergeProfileQuotes(qs)
    BY <1>2, <1>5, <2>1
  <2>3. ASSUME NEW n \in 1 .. Len(ids) PROVE Offers(qs[n]) /\ qs[n] # <<>>
    <3>1. PICK z, p : z = zones[n] /\ p = ids[n]
      OBVIOUS
    <3>2. z # None /\ qs[n] # <<>>
      BY <2>1, <3>1
    <3>3. p \in DOMAIN sh.profiles
      BY <1>3, <3>1 DEF IsList
    <3>4. /\ Len(sh.profiles[p]) \in Nat
          /\ \A k \in 1 .. Len(sh.profiles[p]) : PricedZone(sh.profiles[p][k])
      BY <3>3 DEF Priced
    <3>5. z = S!FindZone(sh.profiles[p], country)
      BY <1>1, <3>1
    <3>6. PICK k \in 1 .. Len(sh.profiles[p]) : z = sh.profiles[p][k]
      BY <3>2, <3>4, <3>5, ZoneFound
    <3>7. PricedZone(z)
      BY <3>4, <3>6
    <3>8. Offers(S!QuoteZone(z, count, subtotal))
      BY <3>7, ZoneOffers
    <3> QED
      BY <1>1, <3>1, <3>2, <3>8
  <2>4. DOMAIN qs = 1 .. Len(ids) /\ qs \in [1 .. Len(ids) -> {qs[n] : n \in 1 .. Len(ids)}]
    BY <1>1
  <2>5. Len(ids) \in Nat /\ IsList(qs) /\ Len(qs) = Len(ids)
    BY <1>3, <2>4, ListOf DEF IsList
  <2>6. Quotes(qs, Len(ids))
    BY <2>3, <2>4 DEF Quotes
  <2> QED
    BY <2>2, <2>5, <2>6, MergeOffers
<1> QED
  BY <1>4, <1>5

\* The method that is taken, if one is, costs a number.
LEMMA MethodCosts ==
  ASSUME NEW methods, Offers(methods), NEW wanted, NEW strict,
         NEW m, m = MethodFor(methods, wanted, strict), m.ok
  PROVE  m.is = None \/ IsMethod(m.is)
<1>1. PICK asked, best : asked = Asked(methods, wanted) /\ best = S!CheapestOf(methods)
  OBVIOUS
<1>2. m = IF wanted # None /\ asked = None /\ strict THEN Failed("method")
          ELSE [ok |-> TRUE, is |-> IF wanted # None /\ asked # None THEN asked ELSE best]
  BY <1>1 DEF MethodFor, Asked
<1>3. m.is = IF wanted # None /\ asked # None THEN asked ELSE best
  BY <1>2 DEF Failed
<1>4. asked # None => IsMethod(asked)
  BY <1>1, AskedFound
<1>5. best = None \/ IsMethod(best)
  BY <1>1, CheapestFound
<1> QED
  BY <1>3, <1>4, <1>5

-----------------------------------------------------------------------------
(* The goods.                                                               *)

LEMMA BundleIsPriced ==
  ASSUME NEW unit \in Nat, NEW offer, offer.quantity \in Int, offer.value \in Nat,
         NEW b, b = BundlePricing(unit, offer)
  PROVE  b.total \in Nat /\ b.paid \in Nat \ {0}
<1>1. PICK q, d : q = offer.quantity /\ d = offer.value
  OBVIOUS
<1>2. b = CASE q <= 0 -> [total |-> unit, pieces |-> 1, paid |-> 1]
            [] q > 0 /\ offer.type = "PERCENTAGE" ->
                 [total |-> unit * q * (100 - Smaller(100, Larger(0, d))),
                  pieces |-> q, paid |-> 100 * q]
            [] q > 0 /\ offer.type = "FIXED" ->
                 [total |-> Larger(0, unit * q - d), pieces |-> q, paid |-> q]
            [] OTHER -> [total |-> unit * q, pieces |-> q + d, paid |-> q + d]
  BY <1>1 DEF BundlePricing
<1>3. CASE q <= 0
  <2>1. b = [total |-> unit, pieces |-> 1, paid |-> 1]
    <3>1. q \in Int /\ ~(q > 0)
      BY <1>1, <1>3
    <3> QED
      BY <1>2, <1>3, <3>1
  <2> QED
    BY <2>1
<1>4. CASE q > 0
  <2>1. PICK c : c = 100 - Smaller(100, Larger(0, d))
    OBVIOUS
  <2>2. c \in Nat /\ q \in Nat
    BY <1>1, <1>4, <2>1 DEF Smaller, Larger
  <2>3. unit * q \in Nat
    BY <2>2
  <2>4. unit * q * c \in Nat
    BY <2>2, <2>3
  <2>5. CASE offer.type = "PERCENTAGE"
    <3>1. b.total = unit * q * c /\ b.paid = 100 * q
      BY <1>2, <1>4, <2>1, <2>5
    <3> QED
      BY <1>4, <2>2, <2>4, <3>1
  <2>6. CASE offer.type = "FIXED"
    <3>1. b.total = Larger(0, unit * q - d) /\ b.paid = q
      BY <1>2, <1>4, <2>6
    <3> QED
      BY <1>1, <1>4, <2>2, <2>3, <3>1 DEF Larger
  <2>7. CASE offer.type # "PERCENTAGE" /\ offer.type # "FIXED"
    <3>1. b = [total |-> unit * q, pieces |-> q + d, paid |-> q + d]
      <4>1. q \in Int /\ ~(q <= 0)
        BY <1>1, <1>4
      <4> QED
        BY <1>2, <1>4, <2>7, <4>1
    <3> QED
      BY <1>1, <1>4, <2>2, <2>3, <3>1
  <2> QED
    BY <2>5, <2>6, <2>7
<1> QED
  BY <1>1, <1>3, <1>4

\* What a line costs, and what of it its provider is owed.
LEMMA LineIsPriced ==
  ASSUME NEW sh, NEW line, OrderedLine(line), PricedItem(sh.items[line.item], sh),
         Priceable(line, sh)
  PROVE  /\ LineTotal(line, sh) \in Nat /\ LineBase(line, sh) \in Nat
         /\ LineBase(line, sh) <= LineTotal(line, sh)
         /\ sh.store.independent => LineBase(line, sh) = 0
<1>1. PICK item, unit, base, q, p :
        /\ item = sh.items[line.item] /\ unit = UnitPrice(item) /\ base = ProviderBase(item)
        /\ q = line.quantity /\ p = LinePrice(line, sh)
  OBVIOUS
<1>2. unit \in Nat /\ base \in Nat /\ q \in Nat
  BY <1>1 DEF PricedItem, OrderedLine
<1>3. p \in Nat
  <2>1. CASE line.offer = None
    BY <1>1, <1>2, <2>1 DEF LinePrice
  <2>2. CASE line.offer # None
    <3>1. PICK b : b = BundlePricing(unit, line.offer)
      OBVIOUS
    <3>2. line.offer.quantity \in Int /\ line.offer.value \in Nat
      BY <2>2 DEF OrderedLine
    <3>3. b.total \in Nat /\ b.paid \in Nat \ {0}
      BY <1>2, <3>1, <3>2, BundleIsPriced
    <3>4. p = Round(b.total, b.paid)
      BY <1>1, <2>2, <3>1 DEF LinePrice
    <3> QED
      BY <3>3, <3>4, RoundOfNat
  <2> QED
    BY <2>1, <2>2
<1>4. PICK x : x = Smaller(base, p)
  OBVIOUS
<1>5. x \in Nat /\ x <= p
  BY <1>2, <1>3, <1>4 DEF Smaller
<1>6. LineTotal(line, sh) = p * q /\ LineBase(line, sh) = x * q
  BY <1>1, <1>4 DEF LineTotal, LineBase
<1>7. p * q \in Nat /\ x * q \in Nat /\ x * q <= p * q
  <2>1. p * q \in Nat /\ x * q \in Nat /\ (p - x) * q \in Nat
    BY <1>2, <1>3, <1>5
  <2>2. (p - x) * q = p * q - x * q
    BY <1>2, <1>3, <1>5
  <2> QED
    BY <2>1, <2>2
<1>8. ASSUME sh.store.independent PROVE x * q = 0
  <2>1. item.provider = None
    BY <1>1, <1>8 DEF Priceable, SoldBy
  <2>2. base = 0
    BY <1>1, <2>1 DEF ProviderBase
  <2>3. x = 0
    BY <1>3, <1>4, <2>2 DEF Smaller
  <2> QED
    BY <1>2, <2>3
<1> QED
  BY <1>6, <1>7, <1>8

LEMMA DiscountIsNat ==
  ASSUME NEW coupon, coupon.value \in Nat, NEW subtotal \in Nat
  PROVE  Discount(coupon, subtotal) \in Nat
<1>1. PICK x : x = subtotal * coupon.value
  OBVIOUS
<1>2. x \in Nat /\ Round(x, 100) \in Nat
  <2>1. x \in Nat
    BY <1>1
  <2>2. 100 \in Nat \ {0}
    OBVIOUS
  <2> QED
    BY <2>1, <2>2, RoundOfNat
<1>3. CASE coupon.type = "PERCENTAGE"
  BY <1>1, <1>2, <1>3 DEF Discount
<1>4. CASE coupon.type = "FIXED_AMOUNT"
  BY <1>4 DEF Discount
<1>5. CASE coupon.type \notin {"PERCENTAGE", "FIXED_AMOUNT"}
  BY <1>5 DEF Discount
<1> QED
  BY <1>3, <1>4, <1>5

-----------------------------------------------------------------------------
(* The figures of a basket.                                                 *)

\* The rows of an order and what they come to, in hundredths: N lines that cost
\* c[1], c[2], ..., with the coupon's discount off.
Near(C, W, unit, N) ==
  /\ C \in Nat /\ W \in Nat /\ Slack(unit) * N \in Nat /\ unit * W \in Nat
  /\ 2 * (unit * W) <= 2 * C + Slack(unit) * N
  /\ 2 * C <= 2 * (unit * W) + Slack(unit) * N

LEMMA RoundedSum ==
  ASSUME NEW N \in Nat, NEW c, \A n \in 1 .. N : c[n] \in Nat,
         NEW unit \in Nat \ {0}, NEW slack, slack = Slack(unit),
         NEW w, \A n \in 1 .. N : w[n] = Round(c[n], unit),
         NEW C, C = SumOver(c, 1 .. N), NEW W, W = SumOver(w, 1 .. N)
  PROVE  Near(C, W, unit, N)
<1>1. PICK T, x, y, z, v, k :
        /\ T = 1 .. N /\ k = [n \in T |-> slack]
        /\ x = [n \in T |-> 2 * (unit * w[n])] /\ y = [n \in T |-> 2 * c[n]]
        /\ z = [n \in T |-> 2 * c[n] + slack] /\ v = [n \in T |-> 2 * (unit * w[n]) + slack]
  OBVIOUS
<1>2. slack \in Nat /\ 2 * unit \in Int /\ IsFiniteSet(T) /\ Cardinality(T) = N
  <2>1. IsFiniteSet(1 .. N) /\ Cardinality(1 .. N) = IF 1 > N THEN 0 ELSE N - 1 + 1
    BY FS_Interval
  <2> QED
    BY <1>1, <2>1 DEF Slack
<1>3. ASSUME NEW n \in T
      PROVE  /\ w[n] \in Nat /\ c[n] \in Nat /\ x[n] \in Int /\ y[n] \in Int
             /\ x[n] = (2 * unit) * w[n] /\ x[n] <= z[n] /\ y[n] <= v[n]
             /\ z[n] = y[n] + k[n] /\ v[n] = x[n] + k[n] /\ k[n] = slack
  <2>1. PICK a, r : a = c[n] /\ r = w[n]
    OBVIOUS
  <2>2. a \in Nat /\ r = Round(a, unit)
    BY <1>1, <2>1
  <2>3. r \in Nat
    BY <2>2, RoundOfNat
  <2>4. /\ unit * r \in Int
        /\ 2 * (unit * r) <= 2 * a + slack /\ 2 * a <= 2 * (unit * r) + slack
    <3>1. /\ unit * Round(a, unit) \in Int
          /\ 2 * (unit * Round(a, unit)) <= 2 * a + Slack(unit)
          /\ 2 * a <= 2 * (unit * Round(a, unit)) + Slack(unit)
      BY <2>2, RoundClose
    <3> QED
      BY <2>2, <3>1
  <2>5. 2 * (unit * r) = (2 * unit) * r
    BY <2>3
  <2>6. PICK t : t = unit * r
    OBVIOUS
  <2>7. /\ x[n] = 2 * t /\ y[n] = 2 * a /\ z[n] = 2 * a + slack
        /\ v[n] = 2 * t + slack /\ k[n] = slack
    BY <1>1, <2>1, <2>6
  <2>8. t \in Int /\ 2 * t <= 2 * a + slack /\ 2 * a <= 2 * t + slack
    BY <2>4, <2>6
  <2>9. x[n] = (2 * unit) * r
    BY <2>5, <2>6, <2>7
  <2>10. x[n] \in Int /\ y[n] \in Int /\ x[n] <= z[n] /\ y[n] <= v[n]
         /\ z[n] = y[n] + k[n] /\ v[n] = x[n] + k[n]
    BY <1>2, <2>2, <2>7, <2>8
  <2> QED
    BY <2>1, <2>2, <2>3, <2>7, <2>9, <2>10
<1>4. /\ Numbers(w, T) /\ Numbers(c, T) /\ Numbers(x, T) /\ Numbers(y, T)
      /\ Numbers(k, T) /\ Numbers(z, T) /\ Numbers(v, T)
  BY <1>2, <1>3 DEF Numbers
<1>5. C \in Nat /\ W \in Nat
  <2>1. \A n \in T : c[n] \in Nat /\ w[n] \in Nat
    BY <1>3
  <2> QED
    BY <1>1, <1>2, <2>1, SumOfNats
<1>6. SumOver(x, T) = (2 * unit) * W
  <2>1. \A n \in T : x[n] = (2 * unit) * w[n]
    BY <1>3
  <2>2. PICK t : t = 2 * unit
    OBVIOUS
  <2>3. SumOver(x, T) = t * SumOver(w, T)
    <3>1. t \in Int /\ \A n \in T : x[n] = t * w[n]
      BY <1>2, <2>1, <2>2
    <3> QED
      BY <1>2, <1>4, <3>1, SumScale
  <2> QED
    BY <1>1, <2>2, <2>3
<1>7. SumOver(y, T) = 2 * C
  <2>1. \A n \in T : y[n] = 2 * c[n]
    BY <1>1
  <2>2. 2 \in Int
    OBVIOUS
  <2> QED
    BY <1>1, <1>2, <1>4, <2>1, <2>2, SumScale
<1>8. SumOver(k, T) = slack * N
  <2>1. \A n \in T : k[n] = slack
    BY <1>1
  <2>2. slack \in Int
    BY <1>2
  <2> QED
    BY <1>2, <2>1, <2>2, SumConstant
<1>9. SumOver(z, T) = SumOver(y, T) + SumOver(k, T)
  BY <1>2, <1>3, <1>4, SumPlus
<1>10. SumOver(v, T) = SumOver(x, T) + SumOver(k, T)
  BY <1>2, <1>3, <1>4, SumPlus
<1>11. SumOver(x, T) <= SumOver(z, T)
  BY <1>2, <1>3, <1>4, SumAtMost
<1>12. SumOver(y, T) <= SumOver(v, T)
  BY <1>2, <1>3, <1>4, SumAtMost
<1>13. unit * W \in Nat /\ slack * N \in Nat /\ (2 * unit) * W = 2 * (unit * W)
  BY <1>2, <1>5
<1> QED
  BY <1>5, <1>6, <1>7, <1>8, <1>9, <1>10, <1>11, <1>12, <1>13 DEF Near

\* The figures that are compared: goods of C, rounded to uw, a discount d and a
\* cost, rounded to ur and us, and what is given of the discount.
Compared(N, slack, sn, C, d, cost, uw, ur, us, g) ==
  /\ N \in Nat /\ slack \in Nat /\ sn \in Nat /\ C \in Nat /\ d \in Nat /\ cost \in Nat
  /\ uw \in Nat /\ ur \in Int /\ us \in Int /\ g \in Nat
  /\ d <= C /\ 2 * uw <= 2 * C + sn /\ 2 * C <= 2 * uw + sn
  /\ 2 * ur <= 2 * d + slack /\ 2 * d <= 2 * ur + slack
  /\ 2 * us <= 2 * cost + slack /\ 2 * cost <= 2 * us + slack
  /\ N = 0 => d = 0 /\ g = 0 /\ uw = 0 /\ C = 0
  /\ N # 0 => slack <= sn
  /\ g = ur \/ (g = uw /\ uw <= ur)

LEMMA LinearSlack ==
  ASSUME NEW N, NEW slack, NEW sn, NEW C, NEW d, NEW cost, NEW uw, NEW ur, NEW us, NEW g,
         Compared(N, slack, sn, C, d, cost, uw, ur, us, g)
  PROVE  /\ 2 * Distance(g, d) <= sn
         /\ 2 * Distance(uw - g + us, C + cost - d) <= sn + 2 * slack
<1>1. 2 * Distance(g, d) <= sn
  <2>1. 2 * g - 2 * d <= sn /\ 2 * d - 2 * g <= sn /\ g \in Int /\ d \in Int
    BY DEF Compared
  <2> QED
    BY <2>1 DEF Distance
<1>2. 2 * Distance(uw - g + us, C + cost - d) <= sn + 2 * slack
  <2>1. PICK x, y : x = uw - g + us /\ y = C + cost - d
    OBVIOUS
  <2>2. 2 * x - 2 * y <= sn + 2 * slack /\ 2 * y - 2 * x <= sn + 2 * slack
    BY <2>1 DEF Compared
  <2>3. x \in Int /\ y \in Int
    BY <2>1 DEF Compared
  <2>4. 2 * Distance(x, y) <= sn + 2 * slack
    BY <2>2, <2>3 DEF Distance
  <2> QED
    BY <2>1, <2>4
<1> QED
  BY <1>1, <1>2

\* The discount, as it is shared out, and the total, as it is rounded.
LEMMA WithinSlack ==
  ASSUME NEW N \in Nat, NEW unit \in Nat \ {0}, NEW C, NEW W, Near(C, W, unit, N),
         N = 0 => C = 0 /\ W = 0, NEW d \in Nat, d <= C, NEW cost \in Nat,
         NEW r, r = Round(d, unit), NEW s, s = Round(cost, unit),
         NEW given, given = Smaller(r, W)
  PROVE  /\ 2 * Distance(unit * given, d) <= Slack(unit) * N
         /\ 2 * Distance(unit * (W - given + s), C + cost - d) <= Slack(unit) * (N + 2)
<1>1. PICK slack, ur, us, uw, g, sn :
        /\ slack = Slack(unit) /\ ur = unit * r /\ us = unit * s /\ uw = unit * W
        /\ g = unit * given /\ sn = slack * N
  OBVIOUS
<1>2. r \in Nat /\ s \in Nat /\ C \in Nat /\ W \in Nat
  BY RoundOfNat DEF Near
<1>3. slack \in Nat /\ sn \in Nat /\ uw \in Nat /\ 2 * uw <= 2 * C + sn /\ 2 * C <= 2 * uw + sn
  BY <1>1 DEF Near, Slack
<1>4. ur \in Int /\ 2 * ur <= 2 * d + slack /\ 2 * d <= 2 * ur + slack
  <2>1. /\ unit * Round(d, unit) \in Int
        /\ 2 * (unit * Round(d, unit)) <= 2 * d + Slack(unit)
        /\ 2 * d <= 2 * (unit * Round(d, unit)) + Slack(unit)
    <3>1. d \in Int
      OBVIOUS
    <3> QED
      BY <3>1, RoundClose
  <2> QED
    BY <1>1, <2>1
<1>5. us \in Int /\ 2 * us <= 2 * cost + slack /\ 2 * cost <= 2 * us + slack
  <2>1. /\ unit * Round(cost, unit) \in Int
        /\ 2 * (unit * Round(cost, unit)) <= 2 * cost + Slack(unit)
        /\ 2 * cost <= 2 * (unit * Round(cost, unit)) + Slack(unit)
    <3>1. cost \in Int
      OBVIOUS
    <3> QED
      BY <3>1, RoundClose
  <2> QED
    BY <1>1, <2>1
<1>6. given \in Nat /\ given = IF r < W THEN r ELSE W
  BY <1>2 DEF Smaller
<1>7. g \in Nat
  BY <1>1, <1>6
<1>8. slack * (N + 2) = sn + 2 * slack
  BY <1>1, <1>3
<1>9. unit * (W - given + s) = uw - g + us
  BY <1>1, <1>2, <1>6
<1>10. N = 0 => d = 0 /\ g = 0 /\ uw = 0 /\ C = 0
  <2> SUFFICES ASSUME N = 0 PROVE d = 0 /\ g = 0 /\ uw = 0 /\ C = 0
    OBVIOUS
  <2>1. C = 0 /\ W = 0 /\ d = 0
    OBVIOUS
  <2>2. given = 0
    BY <1>2, <1>6, <2>1
  <2> QED
    BY <1>1, <2>1, <2>2
<1>11. N # 0 => slack <= sn
  <2> SUFFICES ASSUME N # 0 PROVE slack <= sn
    OBVIOUS
  <2>1. slack * (N - 1) \in Nat
    BY <1>3
  <2>2. slack * (N - 1) = sn - slack
    BY <1>1, <1>3
  <2> QED
    BY <1>3, <2>1, <2>2
<1>12. g = ur \/ (g = uw /\ uw <= ur)
  <2>1. CASE r < W
    BY <1>1, <1>6, <2>1
  <2>2. CASE ~(r < W)
    <3>1. unit * (r - W) \in Nat /\ unit * (r - W) = ur - uw
      BY <1>1, <1>2, <2>2
    <3>2. g = uw
      BY <1>1, <1>6, <2>2
    <3> QED
      BY <1>3, <1>4, <3>1, <3>2
  <2> QED
    BY <2>1, <2>2
<1>13. /\ 2 * Distance(g, d) <= sn
       /\ 2 * Distance(uw - g + us, C + cost - d) <= sn + 2 * slack
  <2>1. Compared(N, slack, sn, C, d, cost, uw, ur, us, g)
    BY <1>2, <1>3, <1>4, <1>5, <1>7, <1>10, <1>11, <1>12 DEF Compared
  <2> QED
    BY <2>1, LinearSlack
<1> QED
  BY <1>1, <1>8, <1>9, <1>13

LEMMA SumOfNothing ==
  ASSUME NEW N \in Nat, N = 0, NEW f
  PROVE  SumOver(f, 1 .. N) = 0
<1>1. 1 .. N = {}
  OBVIOUS
<1> QED
  BY <1>1, SumEmpty

\* The goods of a basket of N lines, priced, with what is owed of them.
Goods(lines, sh, goods, owed, N) ==
  /\ N \in Nat /\ DOMAIN lines = 1 .. N /\ DOMAIN goods = 1 .. N
  /\ \A n \in 1 .. N : goods[n] \in Nat
  /\ Total(goods) \in Nat /\ owed \in Nat /\ owed <= Total(goods)
  /\ sh.store.independent => owed = 0

LEMMA FiguresAddUp ==
  ASSUME NEW sh, Priced(sh), NEW N, NEW lines, NEW goods, NEW owed,
         Goods(lines, sh, goods, owed, N),
         NEW C, C = Total(goods), NEW cost \in Nat, NEW discount \in Nat, discount <= C,
         NEW method, NEW methods, NEW place,
         NEW tax, tax = TaxOf(lines, sh, goods, cost, discount, place),
         NEW r, r = Figures(lines, sh, goods, owed, cost, discount, method, methods, tax)
  PROVE  AddsUp(r)
<1>0. /\ N \in Nat /\ DOMAIN lines = 1 .. N /\ DOMAIN goods = 1 .. N
      /\ \A n \in 1 .. N : goods[n] \in Nat
  BY DEF Goods
<1>1. PICK unit, ctx, data, taxed :
        /\ unit = CurrencyOf(sh) /\ ctx = BuildTaxContext(sh.store, sh.platform)
        /\ data = sh.tax
        /\ taxed = [n \in DOMAIN lines |-> [amount |-> goods[n],
                      class |-> sh.items[lines[n].item].class,
                      exempt |-> sh.items[lines[n].item].exempt]]
  OBVIOUS
<1>2. tax = ComputeTaxes(ctx, data, unit, taxed, cost, discount, place)
  BY <1>1 DEF TaxOf
<1>3. PICK t, u, w, W, given :
        /\ t = [n \in 1 .. N |-> tax.items[n].tax] /\ u = [n \in 1 .. N |-> tax.items[n].share]
        /\ w = [n \in 1 .. N |-> Round(goods[n], unit)] /\ W = SumOver(w, 1 .. N)
        /\ given = Smaller(Round(discount, unit), W)
  OBVIOUS
<1>4. unit \in Nat \ {0} /\ Numbered(data.rates)
  BY <1>1 DEF Priced, Numbered
<1>5. Told(tax, N, t, u)
  BY <1>3 DEF Told
<1>6. InMinor(w, taxed, unit, N)
  <2>1. \A n \in 1 .. N : Round(goods[n], unit) \in Nat
    BY <1>0, <1>4, RoundOfNat
  <2> QED
    BY <1>0, <1>1, <1>3, <2>1 DEF InMinor
<1>7. Round(discount, unit) \in Nat
  BY <1>4, RoundOfNat
<1>8. /\ Total(tax.lines) = tax.taxes /\ tax.taxes \in Int
      /\ SumOver(t, 1 .. N) + tax.shippingTax = tax.taxes
      /\ SumOver(u, 1 .. N) = unit * given
      /\ tax.total = unit * (W - given + Round(cost, unit))
                       + IF ctx.mode = Exclusive THEN tax.taxes ELSE 0
      /\ tax.mode = ctx.mode
  <2>1. cost \in Int
    OBVIOUS
  <2>2. given = Smaller(Round(discount, unit), SumOver(w, 1 .. N))
    BY <1>3
  <2>3. W = SumOver(w, 1 .. N)
    BY <1>3
  <2> QED
    <3>1. Explained(tax, N, t, u, w, unit, given, cost, ctx.mode)
      BY <1>0, <1>2, <1>4, <1>5, <1>6, <1>7, <2>1, <2>2, TaxesAddUp
    <3> QED
      BY <2>3, <3>1 DEF Explained
<1>9. C = SumOver(goods, 1 .. N)
  BY <1>0, TotalIs
<1>10. Near(C, W, unit, N)
  <2>1. \A n \in 1 .. N : w[n] = Round(goods[n], unit)
    BY <1>3
  <2> QED
    BY <1>0, <1>3, <1>4, <1>9, <2>1, RoundedSum
<1>11. N = 0 => C = 0 /\ W = 0
  BY <1>0, <1>3, <1>9, SumOfNothing
<1>12. /\ 2 * Distance(unit * given, discount) <= Slack(unit) * N
       /\ 2 * Distance(unit * (W - given + Round(cost, unit)), C + cost - discount)
            <= Slack(unit) * (N + 2)
  BY <1>0, <1>3, <1>4, <1>10, <1>11, WithinSlack
<1>13. PICK items : items = [n \in DOMAIN lines |->
                [quantity |-> lines[n].quantity, total |-> goods[n],
                 unitPrice |-> LinePrice(lines[n], sh),
                 rate |-> tax.items[n].rate, tax |-> tax.items[n].tax,
                 share |-> tax.items[n].share]]
  OBVIOUS
<1>14. /\ r.unit = unit /\ r.subtotal = C /\ r.discount = discount /\ r.shippingCost = cost
       /\ r.shippingTax = tax.shippingTax /\ r.total = tax.total /\ r.taxes = tax.taxes
       /\ r.taxLines = tax.lines /\ r.mode = tax.mode /\ r.items = items
  BY <1>1, <1>13 DEF Figures
<1>15. /\ DOMAIN items = 1 .. N /\ Len(items) = N
       /\ [n \in DOMAIN items |-> items[n].share] = u
       /\ [n \in DOMAIN items |-> items[n].tax] = t
  <2>1. DOMAIN items = 1 .. N /\ items \in [1 .. N -> {items[n] : n \in 1 .. N}]
    BY <1>0, <1>13
  <2>2. Len(items) = N
    BY <1>0, <2>1, LenIs
  <2>3. \A n \in 1 .. N : items[n].share = u[n] /\ items[n].tax = t[n]
    BY <1>0, <1>3, <1>13
  <2>4. u = [n \in 1 .. N |-> u[n]] /\ t = [n \in 1 .. N |-> t[n]]
    BY <1>3
  <2> QED
    BY <2>1, <2>2, <2>3, <2>4
<1>16. Total(u) = unit * given /\ Total(t) + tax.shippingTax = tax.taxes
  <2>1. DOMAIN u = 1 .. N /\ DOMAIN t = 1 .. N
    BY <1>3
  <2> QED
    BY <1>8, <2>1, TotalIs
<1>17. PICK top : top = IF tax.mode = Exclusive THEN tax.taxes ELSE 0
  OBVIOUS
<1>18. PICK net, plain : /\ net = unit * (W - given + Round(cost, unit))
                         /\ plain = C + cost - discount
  OBVIOUS
<1>19. net \in Int /\ plain \in Int /\ C \in Nat
  <2>1. W \in Nat /\ C \in Nat
    BY <1>10 DEF Near
  <2>2. given \in Int /\ Round(cost, unit) \in Int
    <3>1. Round(cost, unit) \in Nat
      BY <1>4, RoundOfNat
    <3> QED
      BY <1>3, <1>7, <2>1, <3>1 DEF Smaller
  <2>3. W - given + Round(cost, unit) \in Int
    BY <2>1, <2>2
  <2> QED
    BY <1>4, <1>18, <2>1, <2>3
<1>20. tax.total = net + top /\ C + cost - discount + top = plain + top /\ top \in Int
  BY <1>8, <1>17, <1>18
<1>21. Distance(net + top, plain + top) = Distance(net, plain)
  BY <1>19, <1>20 DEF Distance
<1>22. AddsUp(r)
  <2>1. Total([n \in DOMAIN r.items |-> r.items[n].share]) = unit * given
    BY <1>14, <1>15, <1>16
  <2>2. Total([n \in DOMAIN r.items |-> r.items[n].tax]) + r.shippingTax = r.taxes
    BY <1>14, <1>15, <1>16
  <2>3. Total(r.taxLines) = r.taxes
    BY <1>8, <1>14
  <2>4. r.subtotal + r.shippingCost - r.discount + (IF r.mode = Exclusive THEN r.taxes ELSE 0)
          = plain + top
    BY <1>14, <1>17, <1>20
  <2>5. Len(r.items) = N /\ (IF r.unit = 1 THEN 0 ELSE r.unit) = Slack(unit)
    BY <1>14, <1>15 DEF Slack
  <2>6. 2 * Distance(r.total, plain + top) <= Slack(unit) * (N + 2)
    BY <1>12, <1>14, <1>18, <1>20, <1>21
  <2>7. 2 * Distance(unit * given, r.discount) <= Slack(unit) * N
    BY <1>12, <1>14
  <2> QED
    BY <2>1, <2>2, <2>3, <2>4, <2>5, <2>6, <2>7 DEF AddsUp
<1> QED
  BY <1>22

\* What a priced basket is known to satisfy: its figures add up, and what its
\* providers are owed is covered by what the coupon leaves.
Owes(p) ==
  /\ p.owed \in Nat /\ p.discount \in Nat /\ p.subtotal \in Nat
  /\ p.owed + p.discount <= p.subtotal
Sound(p) == AddsUp(p) /\ Owes(p)

LEMMA FailedIsNotOk == \A reason : Failed(reason).ok = FALSE
BY DEF Failed

LEMMA TotalsAreSound ==
  ASSUME NEW sh, Priced(sh), NEW lines, NEW goods, NEW owed, NEW N,
         Goods(lines, sh, goods, owed, N), NEW count, NEW place, NEW methods,
         NEW method, method = None \/ IsMethod(method),
         NEW p, p = Totals(lines, sh, place, goods, owed, count, methods, method), p.ok
  PROVE  Sound(p)
<1>1. PICK coupon, C, free, cost, discount, tax :
        /\ coupon = sh.coupon /\ C = Total(goods)
        /\ free = (coupon # None /\ coupon.type = "FREE_SHIPPING")
        /\ cost = IF method = None \/ free THEN 0 ELSE method.cost
        /\ discount = IF coupon = None THEN 0 ELSE Smaller(C, Discount(coupon, C))
        /\ tax = TaxOf(lines, sh, goods, cost, discount, place)
  OBVIOUS
<1>2. p = IF coupon # None /\ ~CouponHolds(coupon, lines, sh, C, count)
          THEN Failed("coupon")
          ELSE IF coupon # None /\ ~sh.store.independent /\ C - discount < owed
          THEN Failed("below cost")
          ELSE Figures(lines, sh, goods, owed, cost, discount, method, methods, tax)
  BY <1>1 DEF Totals
<1>3. /\ ~(coupon # None /\ ~sh.store.independent /\ C - discount < owed)
      /\ p = Figures(lines, sh, goods, owed, cost, discount, method, methods, tax)
  <2>1. CASE coupon # None /\ ~CouponHolds(coupon, lines, sh, C, count)
    <3>1. p = Failed("coupon")
      BY <1>2, <2>1
    <3> QED
      BY <3>1, FailedIsNotOk
  <2>2. CASE /\ ~(coupon # None /\ ~CouponHolds(coupon, lines, sh, C, count))
             /\ coupon # None /\ ~sh.store.independent /\ C - discount < owed
    <3>1. PICK reason : reason = "below cost"
      OBVIOUS
    <3>2. p = Failed(reason)
      BY <1>2, <2>2, <3>1
    <3> QED
      BY <3>2, FailedIsNotOk
  <2>3. CASE /\ ~(coupon # None /\ ~CouponHolds(coupon, lines, sh, C, count))
             /\ ~(coupon # None /\ ~sh.store.independent /\ C - discount < owed)
    BY <1>2, <2>3
  <2> QED
    BY <2>1, <2>2, <2>3
<1>4. /\ N \in Nat /\ DOMAIN lines = 1 .. N /\ DOMAIN goods = 1 .. N
      /\ \A n \in 1 .. N : goods[n] \in Nat
      /\ C \in Nat /\ owed \in Nat /\ owed <= C /\ (sh.store.independent => owed = 0)
  BY <1>1 DEF Goods
<1>5. cost \in Nat
  BY <1>1 DEF IsMethod
<1>6. discount \in Nat /\ discount <= C
  <2>1. CASE coupon = None
    BY <1>1, <1>4, <2>1
  <2>2. CASE coupon # None
    <3>1. coupon.value \in Nat
      BY <1>1, <2>2 DEF Priced
    <3>2. Discount(coupon, C) \in Nat
      BY <1>4, <3>1, DiscountIsNat
    <3> QED
      BY <1>1, <1>4, <2>2, <3>2 DEF Smaller
  <2> QED
    BY <2>1, <2>2
<1>7. AddsUp(p)
  BY <1>1, <1>3, <1>5, <1>6, FiguresAddUp
<1>8. owed + discount <= C
  BY <1>1, <1>3, <1>4, <1>6
<1>9. Owes(p)
  <2>1. p.owed = owed /\ p.discount = discount /\ p.subtotal = C
    BY <1>1, <1>3, SMTT(40) DEF Figures
  <2> QED
    BY <1>4, <1>6, <1>8, <2>1 DEF Owes
<1> QED
  BY <1>7, <1>9 DEF Sound

LEMMA SumOfZeros ==
  ASSUME NEW T, IsFiniteSet(T), NEW f, \A x \in T : f[x] = 0
  PROVE  SumOver(f, T) = 0
<1>1. SumOver(f, T) = 0 * Cardinality(T)
  BY SumConstant
<1>2. Cardinality(T) \in Nat
  BY FS_CardinalityType
<1> QED
  BY <1>1, <1>2

\* The goods of a basket whose lines can be priced.
LEMMA GoodsOf ==
  ASSUME NEW sh, Priced(sh), NEW lines \in Baskets,
         \A n \in DOMAIN lines : Priceable(lines[n], sh),
         NEW goods, goods = [n \in DOMAIN lines |-> LineTotal(lines[n], sh)],
         NEW bases, bases = [n \in DOMAIN lines |-> LineBase(lines[n], sh)]
  PROVE  Goods(lines, sh, goods, Total(bases), Len(lines))
<1>1. PICK N : N = Len(lines)
  OBVIOUS
<1>2. N \in Nat /\ DOMAIN lines = 1 .. N /\ \A n \in 1 .. N : OrderedLine(lines[n])
  BY <1>1, BasketsOrdered
<1>3. IsFiniteSet(1 .. N)
  BY <1>2, FS_Interval
<1>4. ASSUME NEW n \in 1 .. N
      PROVE  /\ goods[n] \in Nat /\ bases[n] \in Nat /\ bases[n] <= goods[n]
             /\ sh.store.independent => bases[n] = 0
  <2>1. PICK line : line = lines[n]
    OBVIOUS
  <2>2. line.item \in Ordered
    BY <1>2, <2>1 DEF Ordered
  <2>3. PricedItem(sh.items[line.item], sh)
    BY <2>2 DEF Priced
  <2>4. OrderedLine(line) /\ Priceable(line, sh)
    BY <1>2, <2>1
  <2>5. /\ LineTotal(line, sh) \in Nat /\ LineBase(line, sh) \in Nat
        /\ LineBase(line, sh) <= LineTotal(line, sh)
        /\ sh.store.independent => LineBase(line, sh) = 0
    BY <2>3, <2>4, LineIsPriced
  <2> QED
    BY <1>2, <2>1, <2>5
<1>5. Numbers(goods, 1 .. N) /\ Numbers(bases, 1 .. N)
  BY <1>4 DEF Numbers
<1>6. SumOver(goods, 1 .. N) \in Nat /\ SumOver(bases, 1 .. N) \in Nat
  BY <1>3, <1>4, SumOfNats
<1>7. SumOver(bases, 1 .. N) <= SumOver(goods, 1 .. N)
  BY <1>3, <1>4, <1>5, SumAtMost
<1>8. ASSUME sh.store.independent PROVE SumOver(bases, 1 .. N) = 0
  <2>1. \A n \in 1 .. N : bases[n] = 0
    BY <1>4, <1>8
  <2> QED
    BY <1>3, <2>1, SumOfZeros
<1>9. Total(goods) = SumOver(goods, 1 .. N) /\ Total(bases) = SumOver(bases, 1 .. N)
  <2>1. DOMAIN goods = 1 .. N /\ DOMAIN bases = 1 .. N
    BY <1>2
  <2> QED
    BY <2>1, TotalIs
<1> QED
  BY <1>1, <1>2, <1>4, <1>6, <1>7, <1>8, <1>9 DEF Goods

\* Every basket that is priced is priced soundly.
LEMMA PriceIsSound ==
  ASSUME NEW sh, Priced(sh), NEW lines \in Baskets, NEW place, NEW wanted, NEW strict,
         NEW p, p = Price(lines, sh, place, wanted, strict), p.ok
  PROVE  Sound(p)
<1>1. PICK goods, bases, counts, owed, count, N :
        /\ goods = [n \in DOMAIN lines |-> LineTotal(lines[n], sh)]
        /\ bases = [n \in DOMAIN lines |-> LineBase(lines[n], sh)]
        /\ counts = [n \in DOMAIN lines |-> lines[n].quantity]
        /\ owed = Total(bases) /\ count = Total(counts) /\ N = Len(lines)
  OBVIOUS
<1>2. /\ \A n \in DOMAIN lines : Priceable(lines[n], sh)
      /\ p = PriceGoods(lines, sh, place, wanted, strict, goods, owed, count)
  BY <1>1 DEF Price, Failed
<1>3. Goods(lines, sh, goods, owed, N)
  BY <1>1, <1>2, GoodsOf
<1>4. /\ N \in Nat /\ DOMAIN lines = 1 .. N /\ IsFiniteSet(1 .. N)
      /\ \A n \in 1 .. N : OrderedLine(lines[n]) /\ lines[n].item \in Ordered
  <2>1. N \in Nat /\ DOMAIN lines = 1 .. N /\ \A n \in 1 .. N : OrderedLine(lines[n])
    BY <1>1, BasketsOrdered
  <2>2. IsFiniteSet(1 .. N)
    BY <2>1, FS_Interval
  <2> QED
    BY <2>1, <2>2 DEF Ordered
<1>5. count \in Nat
  <2>1. \A n \in 1 .. N : counts[n] \in Nat
    BY <1>1, <1>4 DEF OrderedLine
  <2>2. SumOver(counts, 1 .. N) \in Nat
    BY <1>4, <2>1, SumOfNats
  <2>3. DOMAIN counts = 1 .. N
    BY <1>1, <1>4
  <2> QED
    BY <1>1, <2>2, <2>3, TotalIs
<1>6. CASE place.country = None
  <2>1. p = Totals(lines, sh, place, goods, owed, count, <<>>, None)
    BY <1>2, <1>6 DEF PriceGoods
  <2> QED
    BY <1>3, <2>1, TotalsAreSound
<1>7. CASE place.country # None
  <2>1. PICK items, quote, m :
          /\ items = [n \in DOMAIN lines |-> sh.items[lines[n].item]]
          /\ quote = S!QuoteForItems(items, sh.profiles, sh.defaults, place.country,
                                     count, Total(goods))
          /\ m = MethodFor(quote.methods, wanted, strict)
    OBVIOUS
  <2>2. p = WithQuote(lines, sh, place, wanted, strict, goods, owed, count, quote)
    BY <1>2, <1>7, <2>1 DEF PriceGoods
  <2>3. /\ quote.available /\ m.ok
        /\ p = Totals(lines, sh, place, goods, owed, count, quote.methods, m.is)
    <3>1. quote.available
      <4>1. CASE ~quote.available
        <5>1. p = Failed("shipping")
          BY <2>2, <4>1 DEF WithQuote
        <5> QED
          BY <5>1, FailedIsNotOk
      <4> QED
        BY <4>1
    <3>2. p = WithMethod(lines, sh, place, goods, owed, count, quote.methods, m)
      BY <2>1, <2>2, <3>1 DEF WithQuote
    <3>3. m.ok
      <4>1. CASE ~m.ok
        <5>1. p = Failed("method")
          BY <3>2, <4>1 DEF WithMethod
        <5> QED
          BY <5>1, FailedIsNotOk
      <4> QED
        BY <4>1
    <3> QED
      BY <3>1, <3>2, <3>3 DEF WithMethod
  <2>4. Shippable(items, sh)
    <3>1. IsList(items) /\ DOMAIN items = 1 .. N
      <4>1. items \in [1 .. N -> {items[n] : n \in 1 .. N}]
        BY <1>4, <2>1
      <4> QED
        BY <1>4, <4>1, ListOf
    <3>2. \A n \in 1 .. N : OwnProfile(sh, S!ProfileOf(items[n], sh.defaults))
      <4> TAKE n \in 1 .. N
      <4>1. PICK i : i = lines[n].item
        OBVIOUS
      <4>2. items[n] = sh.items[i] /\ i \in Ordered
        BY <1>4, <2>1, <4>1
      <4>3. PricedItem(sh.items[i], sh)
        BY <4>2 DEF Priced
      <4> QED
        BY <4>2, <4>3 DEF PricedItem
    <3> QED
      BY <3>1, <3>2 DEF Shippable
  <2>5. Offers(quote.methods)
    BY <1>5, <2>1, <2>3, <2>4, QuoteOffers
  <2>6. m.is = None \/ IsMethod(m.is)
    BY <2>1, <2>3, <2>5, MethodCosts
  <2> QED
    BY <1>3, <2>3, <2>6, TotalsAreSound
<1> QED
  BY <1>6, <1>7

-----------------------------------------------------------------------------
(* The commission.                                                          *)

LEMMA FloorIsOwed ==
  ASSUME NEW owed \in Nat, NEW percent \in 0 .. 100,
         NEW f, f = ProviderFloor(owed, percent)
  PROVE  f \in Nat /\ f <= owed
<1>1. PICK x : x = owed * (100 - percent)
  OBVIOUS
<1>2. x \in Nat /\ x <= 100 * owed
  <2>1. owed * percent \in Nat /\ owed * (100 - percent) \in Nat
    OBVIOUS
  <2>2. owed * (100 - percent) = 100 * owed - owed * percent
    OBVIOUS
  <2> QED
    BY <1>1, <2>1, <2>2
<1>3. f = Round(x, 100)
  BY <1>1 DEF ProviderFloor
<1>4. f \in Nat /\ 2 * (100 * f) <= 2 * x + 100
  <2>1. 100 \in Nat \ {0} /\ x \in Int
    BY <1>2
  <2>2. Round(x, 100) \in Nat
    BY <1>2, <2>1, RoundOfNat
  <2>3. 2 * (100 * Round(x, 100)) <= 2 * x + 100
    BY <2>1, RoundFacts
  <2> QED
    BY <1>3, <2>2, <2>3
<1> QED
  BY <1>2, <1>4

\* The split of what the goods brought in: all of it, and the floor is paid.
GivesAll(s, subtotal, discount, owed, percent) ==
  /\ s.platform + s.provider + s.creator = subtotal - discount
  /\ s.provider >= ProviderFloor(owed, percent)

LEMMA MarketplaceSplitIsWhole ==
  ASSUME NEW subtotal \in Nat, NEW discount \in Nat, NEW owed \in Nat,
         owed + discount <= subtotal, NEW percent \in 0 .. 100,
         NEW s, s = MarketplaceSplit(subtotal, discount, owed, percent)
  PROVE  GivesAll(s, subtotal, discount, owed, percent)
<1>1. PICK revenue, floor, cut, platform, pool, share :
        /\ revenue = subtotal - discount /\ floor = ProviderFloor(owed, percent)
        /\ cut = Round(revenue * percent, 100)
        /\ platform = IF cut > revenue - floor THEN Larger(0, revenue - floor) ELSE cut
        /\ pool = revenue - platform /\ share = Round(pool * owed, subtotal)
  OBVIOUS
<1>2. s = [platform |-> platform,
           provider |-> IF subtotal = 0 \/ pool <= 0 THEN 0
                        ELSE Smaller(pool, Larger(floor, share)),
           creator  |-> IF subtotal = 0 \/ pool <= 0 THEN 0
                        ELSE pool - (IF subtotal = 0 \/ pool <= 0 THEN 0
                                     ELSE Smaller(pool, Larger(floor, share)))]
  BY <1>1 DEF MarketplaceSplit
<1>3. floor \in Nat /\ floor <= owed
  BY <1>1, FloorIsOwed
<1>4. revenue \in Nat /\ owed <= revenue
  BY <1>1
<1>5. cut \in Nat
  <2>1. revenue * percent \in Nat /\ 100 \in Nat \ {0}
    BY <1>4
  <2> QED
    BY <1>1, <2>1, RoundOfNat
<1>6. platform \in Nat /\ platform <= revenue - floor
  BY <1>1, <1>3, <1>4, <1>5 DEF Larger
<1>7. pool \in Nat /\ floor <= pool /\ platform + pool = revenue
  BY <1>1, <1>3, <1>4, <1>6
<1>8. CASE subtotal = 0 \/ pool <= 0
  <2>1. s.platform = platform /\ s.provider = 0 /\ s.creator = 0
    BY <1>2, <1>8
  <2>2. pool = 0 /\ floor = 0
    BY <1>1, <1>3, <1>4, <1>6, <1>7, <1>8
  <2> QED
    BY <1>1, <1>6, <1>7, <2>1, <2>2 DEF GivesAll
<1>9. CASE ~(subtotal = 0 \/ pool <= 0)
  <2>1. PICK x : x = Smaller(pool, Larger(floor, share))
    OBVIOUS
  <2>2. s.platform = platform /\ s.provider = x /\ s.creator = pool - x
    BY <1>2, <1>9, <2>1
  <2>3. share \in Int
    <3>1. pool * owed \in Int /\ subtotal \in Nat \ {0}
      BY <1>7, <1>9
    <3> QED
      BY <1>1, <3>1, RoundFacts
  <2>4. x \in Int /\ x >= floor
    BY <1>3, <1>7, <2>1, <2>3 DEF Smaller, Larger
  <2> QED
    BY <1>1, <1>6, <1>7, <2>2, <2>4 DEF GivesAll
<1> QED
  BY <1>8, <1>9

LEMMA SplitIsSound ==
  ASSUME NEW sh, Priced(sh), NEW o, Owes(o), NEW s, s = Split(o, sh)
  PROVE  SplitsAll(s, o)
<1>1. CASE sh.store.independent
  <2>1. s = [platform |-> 0, provider |-> 0, creator |-> o.total, by |-> "store"]
    BY <1>1 DEF Split
  <2> QED
    BY <2>1 DEF SplitsAll
<1>2. CASE ~sh.store.independent
  <2>1. PICK m : m = MarketplaceSplit(o.subtotal, o.discount, o.owed, sh.percent)
    OBVIOUS
  <2>2. s = [platform |-> m.platform, provider |-> m.provider, creator |-> m.creator,
             by |-> "platform", percent |-> sh.percent]
    BY <1>2, <2>1 DEF Split
  <2>3. /\ s.platform = m.platform /\ s.provider = m.provider /\ s.creator = m.creator
        /\ s.by = "platform" /\ s.percent = sh.percent
    BY <2>2
  <2>5. PICK S0, d, w, percent : /\ S0 = o.subtotal /\ d = o.discount /\ w = o.owed
                                 /\ percent = sh.percent
    OBVIOUS
  <2>6. S0 \in Nat /\ d \in Nat /\ w \in Nat /\ w + d <= S0 /\ percent \in 0 .. 100
    BY <2>5 DEF Owes, Priced
  <2>7. GivesAll(m, S0, d, w, percent)
    BY <2>1, <2>5, <2>6, MarketplaceSplitIsWhole
  <2> QED
    BY <2>3, <2>5, <2>7 DEF SplitsAll, GivesAll
<1> QED
  BY <1>1, <1>2

-----------------------------------------------------------------------------
(* The behaviours of Pricing.                                               *)

\* The order row is the row of a priced basket.
OrderIsRow == order # None =>
  \E p, method, status : order = Row(p, method, status) /\ Sound(p)

BillInv ==
  /\ Priced(shop) /\ basket \in Baskets
  /\ OrderIsRow
  /\ SplitIsWhole

LEMMA RowIsSound ==
  ASSUME NEW p, NEW method, NEW status, Sound(p), NEW o, o = Row(p, method, status)
  PROVE  AddsUp(o) /\ Owes(o) /\ o.status = status
<1>1. /\ o.unit = p.unit /\ o.subtotal = p.subtotal /\ o.owed = p.owed
      /\ o.discount = p.discount /\ o.shippingCost = p.shippingCost
      /\ o.shippingTax = p.shippingTax /\ o.total = p.total /\ o.taxes = p.taxes
      /\ o.taxLines = p.taxLines /\ o.mode = p.mode /\ o.items = p.items
      /\ o.status = status
  BY DEF Row
<1>2. AddsUp(o)
  BY <1>1 DEF Sound, AddsUp
<1> QED
  BY <1>1, <1>2 DEF Sound, Owes

\* Another status is another row of the same figures.
LEMMA RowWithStatus ==
  ASSUME NEW p, NEW method, NEW status, NEW o, o = Row(p, method, status), NEW x
  PROVE  [o EXCEPT !.status = x] = Row(p, method, x)
BY DEF Row

LEMMA BillInit ==
  ASSUME Init, \A sh \in Shops : Priced(sh)
  PROVE  BillInv
BY DEF Init, BillInv, OrderIsRow, SplitIsWhole

LEMMA CreateKeeps ==
  ASSUME BillInv, NEW place, NEW wanted, NEW strict, NEW p, NEW method, NEW status,
         p = Price(basket, shop, place, wanted, strict), Create(p, method, status)
  PROVE  OrderIsRow' /\ SplitIsWhole'
<1>1. Priced(shop) /\ basket \in Baskets /\ p.ok /\ order' = Row(p, method, status)
  BY DEF BillInv, Create
<1>2. Sound(p)
  BY <1>1, PriceIsSound
<1>3. PICK o : o = Row(p, method, status)
  OBVIOUS
<1>4. Owes(o)
  BY <1>2, <1>3, RowIsSound
<1>5. OrderIsRow'
  BY <1>1, <1>2 DEF OrderIsRow
<1>6. split' \in {None, Split(o, shop)}
  BY <1>3 DEF Create
<1>7. SplitIsWhole'
  <2>1. SplitsAll(Split(o, shop), o)
    BY <1>1, <1>4, SplitIsSound
  <2> QED
    BY <1>1, <1>3, <1>6, <2>1 DEF SplitIsWhole
<1> QED
  BY <1>5, <1>7

LEMMA StatusKeeps ==
  ASSUME BillInv, NEW x, order # None, order' = [order EXCEPT !.status = x],
         UNCHANGED split
  PROVE  OrderIsRow' /\ SplitIsWhole'
<1>1. PICK p, method, status : order = Row(p, method, status) /\ Sound(p)
  BY DEF BillInv, OrderIsRow
<1>2. order' = Row(p, method, x)
  BY <1>1, RowWithStatus
<1>3. OrderIsRow'
  BY <1>1, <1>2 DEF OrderIsRow
<1>4. /\ order'.subtotal = order.subtotal /\ order'.discount = order.discount
      /\ order'.owed = order.owed /\ order'.total = order.total
  BY <1>1, <1>2 DEF Row
<1>5. SplitIsWhole'
  BY <1>4 DEF BillInv, SplitIsWhole, SplitsAll
<1> QED
  BY <1>3, <1>5

LEMMA BillStep ==
  ASSUME BillInv, [Next]_vars, \A sh : Priced(sh) => \A to \in Changes(sh) : Priced(to)
  PROVE  BillInv'
<1>1. /\ Priced(shop) /\ basket \in Baskets /\ OrderIsRow /\ SplitIsWhole
  BY DEF BillInv
<1>2. ASSUME NEW place, NEW p, PriceSession(place, p) PROVE BillInv'
  BY <1>1, <1>2 DEF PriceSession, BillInv, OrderIsRow, SplitIsWhole
<1>3. CASE UNCHANGED <<shop, basket, order, split>>
  BY <1>1, <1>3 DEF BillInv, OrderIsRow, SplitIsWhole
<1>4. ASSUME NEW place, NEW m, NEW method, PlaceClassic(place, m, method) PROVE BillInv'
  <2>1. PICK status : status = IF method = "COD" THEN "pending" ELSE "awaiting_payment"
    OBVIOUS
  <2>2. PICK p : p = Price(basket, shop, place, m, TRUE)
    OBVIOUS
  <2>3. Create(p, method, status) /\ UNCHANGED <<shop, basket>>
    BY <1>4, <2>1, <2>2 DEF PlaceClassic
  <2>4. OrderIsRow' /\ SplitIsWhole'
    BY <2>2, <2>3, CreateKeeps
  <2> QED
    BY <1>1, <2>3, <2>4 DEF BillInv
<1>5. CASE PlaceForSession
  <2>1. PICK p : p = Price(basket, shop, session.place, checked.method, TRUE)
    OBVIOUS
  <2>2. Create(p, "KUSTOM", "unlinked") /\ UNCHANGED <<shop, basket>>
    BY <1>5, <2>1 DEF PlaceForSession
  <2>3. OrderIsRow' /\ SplitIsWhole'
    BY <2>1, <2>2, CreateKeeps
  <2> QED
    BY <1>1, <2>2, <2>3 DEF BillInv
<1>6. CASE Validate
  BY <1>3, <1>6 DEF Validate, CheckAmount
<1>7. CASE RejectedByCreate
  BY <1>3, <1>7 DEF RejectedByCreate
<1>8. CASE LinkOrder
  <2>1. CASE Matches(order)
    <3>1. /\ order # None /\ order' = [order EXCEPT !.status = "awaiting_payment"]
          /\ UNCHANGED split /\ UNCHANGED <<shop, basket>>
      BY <1>8, <2>1 DEF LinkOrder
    <3>2. OrderIsRow' /\ SplitIsWhole'
      BY <3>1, StatusKeeps
    <3> QED
      BY <1>1, <3>1, <3>2 DEF BillInv
  <2>2. CASE ~Matches(order)
    <3>1. order' = None /\ split' = None /\ UNCHANGED <<shop, basket>>
      BY <1>8, <2>2 DEF LinkOrder
    <3> QED
      BY <1>1, <3>1 DEF BillInv, OrderIsRow, SplitIsWhole
  <2> QED
    BY <2>1, <2>2
<1>9. CASE RecomputeCommission
  <2>1. order # None /\ split' = Split(order, shop) /\ UNCHANGED <<shop, basket, order>>
    BY <1>9 DEF RecomputeCommission
  <2>2. PICK p, method, status : order = Row(p, method, status) /\ Sound(p)
    BY <1>1, <2>1 DEF OrderIsRow
  <2>3. Owes(order)
    BY <2>2, RowIsSound
  <2>4. SplitsAll(Split(order, shop), order)
    BY <1>1, <2>3, SplitIsSound
  <2>5. SplitIsWhole'
    BY <2>1, <2>4 DEF SplitIsWhole
  <2>6. OrderIsRow'
    BY <1>1, <2>1 DEF OrderIsRow
  <2> QED
    BY <1>1, <2>1, <2>5, <2>6 DEF BillInv
<1>10. CASE Pay
  <2>1. /\ order # None /\ order' = [order EXCEPT !.status = "paid"]
        /\ UNCHANGED split /\ UNCHANGED <<shop, basket>>
    BY <1>10 DEF Pay
  <2>2. OrderIsRow' /\ SplitIsWhole'
    BY <2>1, StatusKeeps
  <2> QED
    BY <1>1, <2>1, <2>2 DEF BillInv
<1>11. CASE EditShop
  <2>1. /\ \E to \in Changes(shop) : shop' = to
        /\ UNCHANGED <<basket, order, split>>
    BY <1>11 DEF EditShop
  <2>2. Priced(shop')
    BY <1>1, <2>1
  <2>3. Priced(shop)'
    BY <2>2
  <2> QED
    BY <1>1, <2>1, <2>3 DEF BillInv, OrderIsRow, SplitIsWhole
<1>12. CASE UNCHANGED vars
  BY <1>3, <1>12 DEF vars
<1> QED
  BY <1>2, <1>4, <1>5, <1>6, <1>7, <1>8, <1>9, <1>10, <1>11, <1>12 DEF Next

LEMMA BillIsRight ==
  ASSUME BillInv
  PROVE  PricedRight
<1>1. ASSUME order # None PROVE AddsUp(order)
  <2>1. PICK p, method, status : order = Row(p, method, status) /\ Sound(p)
    BY <1>1 DEF BillInv, OrderIsRow
  <2> QED
    BY <2>1, RowIsSound
<1> QED
  BY <1>1 DEF BillInv, PricedRight, OrderAddsUp

\* Whatever is in the shop and in the basket, and whatever is edited between
\* the quote, the session and the order: the order row explains itself, and its
\* commission gives away what the goods brought in and pays the provider's floor
\* (computeTotals, computeTaxes, computeMarketplaceCommission).
THEOREM BillsAddUp ==
  ASSUME \A sh : Priced(sh) => \A to \in Changes(sh) : Priced(to)
  PROVE  Spec => []PricedRight
<1>1. Init => BillInv
  BY ShopsPriced, BillInit
<1>2. BillInv /\ [Next]_vars => BillInv'
  BY BillStep
<1>3. BillInv => PricedRight
  BY BillIsRight
<1> QED
  BY <1>1, <1>2, <1>3, PTL DEF Spec

-----------------------------------------------------------------------------
(* What Kustom authorizes.                                                  *)

HeldInv ==
  /\ order # None => \E p, method, status : order = Row(p, method, status)
  /\ AuthorizedIsOrdered

LEMMA HeldInit == Init => HeldInv
BY DEF Init, HeldInv, AuthorizedIsOrdered

LEMMA HeldStep ==
  ASSUME HeldInv, [Next]_vars
  PROVE  HeldInv'
<1>1. CASE order' = None
  BY <1>1 DEF HeldInv, AuthorizedIsOrdered
<1>2. ASSUME NEW x, order # None, order' = [order EXCEPT !.status = x], UNCHANGED session,
             session # None => ExpectedKustomAmount(order) = session.amount
      PROVE  HeldInv'
  <2>1. PICK p, method, status : order = Row(p, method, status)
    BY <1>2 DEF HeldInv
  <2>2. order' = Row(p, method, x)
    BY <1>2, <2>1, RowWithStatus
  <2>3. order'.total = order.total /\ order'.unit = order.unit
    BY <2>1, <2>2 DEF Row
  <2>4. ExpectedKustomAmount(order)' = ExpectedKustomAmount(order)
    BY <2>3 DEF ExpectedKustomAmount
  <2> QED
    BY <1>2, <2>2, <2>4 DEF HeldInv, AuthorizedIsOrdered
<1>3. CASE UNCHANGED <<order, session>>
  BY <1>3 DEF HeldInv, AuthorizedIsOrdered, ExpectedKustomAmount
<1>4. ASSUME NEW place, NEW p, PriceSession(place, p) PROVE HeldInv'
  BY <1>1, <1>4 DEF PriceSession
<1>5. ASSUME NEW place, NEW m, NEW method, PlaceClassic(place, m, method) PROVE HeldInv'
  <2>1. session' = None /\ \E p, status : order' = Row(p, method, status)
    BY <1>5 DEF PlaceClassic, Create
  <2> QED
    BY <2>1 DEF HeldInv, AuthorizedIsOrdered
<1>6. CASE PlaceForSession
  <2>1. PICK p : order' = Row(p, "KUSTOM", "unlinked")
    BY <1>6 DEF PlaceForSession, Create
  <2>2. order'.status = "unlinked"
    BY <2>1 DEF Row
  <2> QED
    BY <2>1, <2>2 DEF HeldInv, AuthorizedIsOrdered
<1>7. CASE Validate
  BY <1>3, <1>7 DEF Validate, CheckAmount
<1>8. CASE RejectedByCreate
  BY <1>3, <1>8 DEF RejectedByCreate
<1>9. CASE LinkOrder
  <2>1. CASE Matches(order)
    <3>1. /\ order # None /\ order' = [order EXCEPT !.status = "awaiting_payment"]
          /\ UNCHANGED session /\ ExpectedKustomAmount(order) = session.amount
      BY <1>9, <2>1 DEF LinkOrder, Matches
    <3> QED
      BY <1>2, <3>1
  <2>2. CASE ~Matches(order)
    BY <1>1, <1>9, <2>2 DEF LinkOrder
  <2> QED
    BY <2>1, <2>2
<1>10. CASE RecomputeCommission
  BY <1>3, <1>10 DEF RecomputeCommission
<1>11. CASE Pay
  <2>1. /\ order # None /\ order.status = "awaiting_payment"
        /\ order' = [order EXCEPT !.status = "paid"] /\ UNCHANGED session
    BY <1>11 DEF Pay
  <2>2. session # None => ExpectedKustomAmount(order) = session.amount
    BY <2>1 DEF HeldInv, AuthorizedIsOrdered
  <2> QED
    BY <1>2, <2>1, <2>2
<1>12. CASE EditShop
  BY <1>3, <1>12 DEF EditShop
<1>13. CASE UNCHANGED vars
  BY <1>3, <1>13 DEF vars
<1> QED
  BY <1>4, <1>5, <1>6, <1>7, <1>8, <1>9, <1>10, <1>11, <1>12, <1>13 DEF Next

\* An order that is linked to a Kustom session, and one that is paid, comes to
\* the amount Kustom holds, whatever is edited meanwhile (handleValidation).
THEOREM WhatIsAuthorizedIsOrdered == Spec => []AuthorizedIsOrdered
<1>1. HeldInv /\ [Next]_vars => HeldInv'
  BY HeldStep
<1>2. HeldInv => AuthorizedIsOrdered
  BY DEF HeldInv
<1> QED
  BY HeldInit, <1>1, <1>2, PTL DEF Spec

-----------------------------------------------------------------------------
(* What cart and storefront show (Shown).                                   *)

W == INSTANCE Shown

LEMMA RoundExact ==
  ASSUME NEW k \in Int, NEW b \in Nat \ {0}, NEW a, a = b * k
  PROVE  W!Round(a, b) = k
<1>1. a \in Int /\ W!Round(a, b) = Round(a, b)
  BY DEF W!Round, Round
<1>2. PICK x : x = Round(a, b)
  OBVIOUS
<1>3. x \in Int /\ 2 * (b * x) <= 2 * a + b /\ 2 * a + b < 2 * (b * x) + 2 * b
  BY <1>1, <1>2, RoundFacts
<1>4. PICK d : d = k - x
  OBVIOUS
<1>5. d \in Int /\ b * d \in Int /\ b * d = a - b * x
  BY <1>3, <1>4
<1>6. 2 * (b * d) + b >= 0 /\ 2 * (b * d) < b
  BY <1>3, <1>5
<1>7. ~(d >= 1) /\ ~(d <= -1)
  <2>1. d >= 1 => b * d >= b
    BY <1>5
  <2>2. d <= -1 => b * d <= -b
    BY <1>5
  <2> QED
    BY <1>5, <1>6, <2>1, <2>2
<1>8. d = 0
  BY <1>5, <1>7
<1> QED
  BY <1>1, <1>2, <1>3, <1>4, <1>8

\* A piece whose price need not be rounded: neither is that of q pieces.
LEMMA EvenPieces ==
  ASSUME NEW total \in Int, NEW paid \in Nat \ {0}, NEW u \in Nat \ {0}, NEW q \in Nat,
         total % (paid * u) = 0
  PROVE  u * W!Round(total * q, paid * u) = W!Round(total, paid) * q
<1>1. PICK m : m = paid * u
  OBVIOUS
<1>2. m \in Nat \ {0}
  BY <1>1
<1>3. PICK k : k = total \div m
  OBVIOUS
<1>4. k \in Int /\ total = m * k
  <2>1. total % m = 0
    BY <1>1
  <2>2. total \div m \in Int /\ total = m * (total \div m) + (total % m)
    BY <1>2, DivFacts
  <2> QED
    BY <1>2, <1>3, <2>1, <2>2
<1>5. total * q = m * (k * q) /\ k * q \in Int
  BY <1>2, <1>4
<1>6. W!Round(total * q, m) = k * q
  BY <1>2, <1>5, RoundExact
<1>7. total = paid * (u * k) /\ u * k \in Int
  BY <1>1, <1>4
<1>8. W!Round(total, paid) = u * k
  BY <1>7, RoundExact
<1> QED
  BY <1>1, <1>4, <1>6, <1>8

LEMMA UnitsAgree ==
  ASSUME NEW item, W!Shelf(item)
  PROVE  W!CartUnit(item) = W!UnitPrice(item)
<1>1. CASE item.kind = "product"
  <2>1. item.base + 0 = item.base
    BY DEF W!Shelf
  <2> QED
    BY <1>1, <2>1 DEF W!Shelf, W!CartUnit, W!UnitPrice
<1>2. CASE item.kind = "variant"
  BY <1>2 DEF W!CartUnit, W!UnitPrice
<1>3. CASE item.kind = "custom"
  BY <1>3 DEF W!Shelf, W!CartUnit, W!UnitPrice
<1> QED
  BY <1>1, <1>2, <1>3 DEF W!Shelf

LEMMA BundleIsWhole ==
  ASSUME NEW unit \in Int, NEW offer, offer.quantity \in Int, offer.value \in Nat,
         NEW b, b = W!BundlePricing(unit, offer)
  PROVE  b.total \in Int /\ b.paid \in Nat \ {0}
<1> DEFINE q == offer.quantity
           d == offer.value
           off == 100 - W!Smaller(100, W!Larger(0, d))
<1>1. CASE q <= 0
  BY <1>1 DEF W!BundlePricing
<1>2. CASE q > 0 /\ offer.type = "PERCENTAGE"
  <2>1. off \in Int
    BY DEF W!Smaller, W!Larger
  <2>2. unit * q * off \in Int
    BY <2>1
  <2>3. b = [total |-> unit * q * off, pieces |-> q, paid |-> 100 * q]
    BY <1>2 DEF W!BundlePricing
  <2> QED
    BY <1>2, <2>2, <2>3
<1>3. CASE q > 0 /\ offer.type = "FIXED"
  BY <1>3 DEF W!BundlePricing, W!Larger
<1>4. CASE q > 0 /\ offer.type \notin {"PERCENTAGE", "FIXED"}
  BY <1>4 DEF W!BundlePricing
<1> QED
  BY <1>1, <1>2, <1>3, <1>4

\* A line that can be ordered: the cart prices its pieces as the order does.
LEMMA LinesAgree ==
  ASSUME NEW sh, NEW to, to.items = sh.items, to.store = sh.store,
         NEW line, OrderedLine(line), W!Shelf(sh.items[line.item]), W!Priceable(line, to),
         NEW c, c = W!CartPricing(line, sh)
  PROVE  /\ c.total \in Int /\ c.paid \in Nat \ {0}
         /\ W!Round(c.total, c.paid) = W!LinePrice(line, to)
         /\ sh.items[line.item].creator = sh.store.creator
<1>1. PICK unit : unit = W!UnitPrice(sh.items[line.item])
  OBVIOUS
<1>2. unit \in Int /\ W!CartUnit(sh.items[line.item]) = unit
  BY <1>1, UnitsAgree DEF W!Shelf
<1>3. sh.items[line.item].creator = sh.store.creator
  BY DEF W!Priceable, W!SoldBy
<1>4. CASE line.offer = None
  <2>1. c = [total |-> unit, pieces |-> 1, paid |-> 1] /\ W!LinePrice(line, to) = unit
    BY <1>1, <1>2, <1>4 DEF W!CartPricing, W!LinePrice
  <2>2. W!Round(unit, 1) = unit
    <3>1. unit = 1 * unit
      BY <1>2
    <3> QED
      BY <1>2, <3>1, RoundExact
  <2> QED
    BY <1>2, <1>3, <2>1, <2>2
<1>5. CASE line.offer # None
  <2>1. line.offer.active
    BY <1>5 DEF W!Priceable, W!BundleHolds
  <2>2. c = W!BundlePricing(unit, line.offer)
    BY <1>2, <1>5, <2>1 DEF W!CartPricing
  <2>3. W!LinePrice(line, to) = W!Round(c.total, c.paid)
    BY <1>1, <1>5, <2>2 DEF W!LinePrice
  <2>4. c.total \in Int /\ c.paid \in Nat \ {0}
    BY <1>2, <1>5, <2>2, BundleIsWhole DEF OrderedLine
  <2> QED
    BY <1>3, <2>3, <2>4
<1> QED
  BY <1>4, <1>5

\* What a quote is that could be made before there is an address.
LEMMA QuoteIs ==
  ASSUME NEW lines, NEW sh, sh.coupon = None, NEW q, q = W!Quote(lines, sh), q.ok,
         NEW goods, goods = [n \in DOMAIN lines |-> W!LineTotal(lines[n], sh)],
         NEW tax, tax = W!TaxOf(lines, sh, goods, 0, 0, W!Nowhere)
  PROVE  /\ lines # <<>> /\ \A n \in DOMAIN lines : W!Priceable(lines[n], sh)
         /\ \A n \in DOMAIN lines : q.items[n].unitPrice = W!LinePrice(lines[n], sh)
         /\ q.taxes = tax.taxes /\ q.total = tax.total /\ q.mode = tax.mode
<1>1. \A reason : W!Failed(reason).ok = FALSE
  BY DEF W!Failed
<1>2. lines # <<>> /\ q = W!Price(lines, sh, W!Nowhere, None, FALSE)
  BY <1>1 DEF W!Quote
<1>3. PICK owed, count :
        /\ owed = W!Total([n \in DOMAIN lines |-> W!LineBase(lines[n], sh)])
        /\ count = W!Total([n \in DOMAIN lines |-> lines[n].quantity])
  OBVIOUS
<1>4. /\ \A n \in DOMAIN lines : W!Priceable(lines[n], sh)
      /\ q = W!PriceGoods(lines, sh, W!Nowhere, None, FALSE, goods, owed, count)
  BY <1>1, <1>2, <1>3 DEF W!Price
<1>5. q = W!Totals(lines, sh, W!Nowhere, goods, owed, count, <<>>, None)
  BY <1>4 DEF W!PriceGoods, W!Nowhere
<1>6. q = W!Figures(lines, sh, goods, owed, 0, 0, None, <<>>, tax)
  BY <1>5 DEF W!Totals
<1>7. q.items = [n \in DOMAIN lines |->
                  [quantity |-> lines[n].quantity, total |-> goods[n],
                   unitPrice |-> W!LinePrice(lines[n], sh),
                   rate |-> tax.items[n].rate, tax |-> tax.items[n].tax,
                   share |-> tax.items[n].share]]
      /\ q.taxes = tax.taxes /\ q.total = tax.total /\ q.mode = tax.mode
  BY <1>6 DEF W!Figures
<1>8. ASSUME NEW n \in DOMAIN lines PROVE q.items[n].unitPrice = W!LinePrice(lines[n], sh)
  BY <1>7
<1> QED
  BY <1>2, <1>4, <1>7, <1>8

LEMMA CartAgrees ==
  ASSUME W!Shelved(shop), basket \in Baskets
  PROVE  W!CartIsQuoted
<1> DEFINE to == [shop EXCEPT !.coupon = None]
           q  == W!Quote(basket, to)
           c  == W!GetCart(basket, shop)
           u  == W!CurrencyOf(shop)
<1>1. /\ to.coupon = None /\ to.items = shop.items /\ to.store = shop.store
      /\ to.platform = shop.platform /\ to.tax = shop.tax
  BY DEF W!Shelved, W!Fields
<1>2. SUFFICES ASSUME q.ok PROVE W!Agrees(c, q)
  BY DEF W!CartIsQuoted, W!Agrees
<1>3. PICK goods, tax :
        /\ goods = [n \in DOMAIN basket |-> W!LineTotal(basket[n], to)]
        /\ tax = W!TaxOf(basket, to, goods, 0, 0, W!Nowhere)
  OBVIOUS
<1>4. /\ basket # <<>> /\ \A n \in DOMAIN basket : W!Priceable(basket[n], to)
      /\ \A n \in DOMAIN basket : q.items[n].unitPrice = W!LinePrice(basket[n], to)
      /\ q.taxes = tax.taxes /\ q.total = tax.total /\ q.mode = tax.mode
  <2> HIDE DEF to
  <2> QED
    BY <1>1, <1>2, <1>3, QuoteIs
<1>5. PICK amounts : amounts = [n \in DOMAIN basket |-> W!CartAmount(basket[n], shop, u)]
  OBVIOUS
<1>6. PICK given : given = W!CartTax(basket, shop, amounts)
  OBVIOUS
<1>7. DOMAIN basket = 1 .. Len(basket) /\ Len(basket) \in Nat /\ 1 \in DOMAIN basket
      /\ \A n \in DOMAIN basket : OrderedLine(basket[n]) /\ W!Shelf(shop.items[basket[n].item])
  BY <1>4, BasketsOrdered DEF W!Shelved, W!Ordered
<1>8. ASSUME NEW n \in DOMAIN basket, NEW p, p = W!CartPricing(basket[n], shop)
      PROVE  /\ p.total \in Int /\ p.paid \in Nat \ {0}
             /\ W!Round(p.total, p.paid) = W!LinePrice(basket[n], to)
             /\ shop.items[basket[n].item].creator = shop.store.creator
  <2> HIDE DEF to
  <2> QED
    BY <1>1, <1>4, <1>7, <1>8, LinesAgree
<1>9. c.prices = [n \in DOMAIN basket |-> W!CartPricing(basket[n], shop)]
      /\ c.taxes = given.taxes /\ c.total = given.total /\ c.mode = given.mode
  BY <1>5, <1>6, <1>7, <1>8 DEF W!GetCart, W!CartWith, W!CartOf
<1>10. ASSUME \A n \in DOMAIN basket : W!Even(c.prices[n]) PROVE given = tax
  <2>1. ASSUME NEW n \in DOMAIN basket PROVE amounts[n] = goods[n]
    <3>1. PICK p, x : p = W!CartPricing(basket[n], shop) /\ x = basket[n].quantity
      OBVIOUS
    <3>2. p.total % (p.paid * u) = 0
      BY <1>9, <1>10, <3>1 DEF W!Even
    <3>3. p.total \in Int /\ p.paid \in Nat \ {0} /\ x \in Nat /\ u \in Nat \ {0}
      BY <1>7, <1>8, <3>1 DEF OrderedLine, W!Shelved
    <3>4. u * W!Round(p.total * x, p.paid * u) = W!Round(p.total, p.paid) * x
      <4>1. PICK total, paid, unit : total = p.total /\ paid = p.paid /\ unit = u
        OBVIOUS
      <4>2. unit * W!Round(total * x, paid * unit) = W!Round(total, paid) * x
        <5> HIDE DEF u
        <5>1. total \in Int /\ paid \in Nat \ {0} /\ x \in Nat /\ unit \in Nat \ {0} /\ total % (paid * unit) = 0
          BY <3>2, <3>3, <4>1
        <5> QED
          BY <5>1, EvenPieces
      <4> QED
        BY <4>1, <4>2
    <3> QED
      BY <1>3, <1>5, <1>8, <3>1, <3>4 DEF W!CartAmount, W!LineTotal
  <2>2. amounts = goods
    BY <1>3, <1>5, <2>1
  <2>3. W!CurrencyOf(to) = W!CurrencyOf(shop)
    <3> HIDE DEF to
    <3> QED
      BY <1>1 DEF W!CurrencyOf
  <2> HIDE DEF to
  <2> QED
    BY <1>1, <1>3, <1>6, <2>2, <2>3 DEF W!CartTax, W!TaxOf
<1> QED
  BY <1>4, <1>8, <1>9, <1>10 DEF W!Agrees

\* The price of a variant on its page, but for a surcharge of its own.
LEMMA PageAgrees ==
  ASSUME W!Shelved(shop)
  PROVE  W!PageIsCharged
<1> SUFFICES ASSUME NEW p, NEW i \in DOMAIN W!Card(shop, p).variants,
                    ~W!Surcharged(shop.items[i])
             PROVE  W!Card(shop, p).variants[i] = W!UnitPrice(shop.items[i])
  BY DEF W!PageIsCharged, W!Fresh
<1>1. i \in W!ShownVariants(shop, p)
  BY DEF W!Card
<1>2. W!Card(shop, p).variants[i] = W!VariantPrice(shop.items[i])
  BY <1>1 DEF W!Card
<1>3. PICK item : item = shop.items[i]
  OBVIOUS
<1>4. item.variant /\ W!Shelf(item) /\ ~W!Surcharged(item)
  BY <1>1, <1>3 DEF W!ShownVariants, W!ItemsOf, W!Shelved
<1>5. W!VariantPrice(item) = W!UnitPrice(item)
  <2>1. CASE item.kind = "custom" /\ item.pricing = "SINGLE"
    BY <1>4, <2>1 DEF W!VariantPrice, W!Surcharged, W!UnitPrice, W!Shelf
  <2>2. CASE item.kind = "custom" /\ item.pricing # "SINGLE"
    BY <1>4, <2>2 DEF W!VariantPrice, W!UnitPrice, W!Shelf
  <2>3. CASE item.kind # "custom"
    BY <2>3 DEF W!VariantPrice, W!UnitPrice
  <2> QED
    BY <2>1, <2>2, <2>3
<1> QED
  BY <1>2, <1>3, <1>5

\* Whatever is in the shop and in the basket, and however the shop is edited:
\* cart and page price a piece as an order would, and where no price per piece is
\* rounded the cart's estimate is the quote (enrichCartItems, resolveCartTax,
\* computeVariantPrice, against priceLine and computeTotals).
THEOREM PricesShownAreCharged ==
  ASSUME \A sh \in Shops : W!Shelved(sh),
         \A sh : W!Shelved(sh) => \A to \in Changes(sh) : W!Shelved(to)
  PROVE  Spec => [](W!CartIsQuoted /\ W!PageIsCharged)
<1> DEFINE Stocked == W!Shelved(shop) /\ basket \in Baskets
<1>1. Init => Stocked
  BY DEF Init
<1>2. Stocked /\ [Next]_vars => Stocked'
  BY DEF Next, PriceSession, PlaceClassic, Validate, CheckAmount, PlaceForSession,
         RejectedByCreate, LinkOrder, RecomputeCommission, Pay, EditShop, vars
<1>3. Stocked => W!CartIsQuoted /\ W!PageIsCharged
  BY CartAgrees, PageAgrees
<1> QED
  BY <1>1, <1>2, <1>3, PTL DEF Spec

=============================================================================
