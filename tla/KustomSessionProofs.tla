-------------------------- MODULE KustomSessionProofs --------------------------
(***************************************************************************)
(* Proofs about KustomSession, for any number of requests, orders, items,  *)
(* destinations, calls and failures: an amount approved after comparing it *)
(* keeps the session's order behind it, and orders and session find each   *)
(* other again whatever edits, callbacks and sweeps crossed.               *)
(***************************************************************************)
EXTENDS KustomSession, TLAPS

-------------------------------------------------------------------------------
(* The inductive invariant.                                                  *)

\* The steps at which a request answers alone for the order it created or
\* detached, and those at which that order still has its coupon.
Owning  == {"link", "failRead", "failFlip", "coupon", "unlink", "restore"}
Keeping == {"link", "failRead", "failFlip", "restore"}
Failing == {"link", "failRead", "failFlip"}
Callers == {"validation", "callback"}

\* What a request of each kind can be at, and what it then holds.
Formed(t) ==
  /\ t.pc = "idle" <=> t.kind = "none"
  /\ t.pc = "update" => t.kind = "edit"
  /\ t.pc \in {"claim", "await", "create", "link", "release"} => t.kind = "validation"
  /\ t.pc \in {"pending", "detach"} \cup Owning => t.kind \in Callers \cup {"edit"}
  /\ t.pc = "store" => t.kind \in {"callback", "edit"}
  /\ t.pc = "answer" => t.kind \in Callers
  /\ t.pc \in {"verify", "mark"} => t.kind = "push" /\ t.order # 0
  /\ t.pc \in Owning \cup {"detach"} => t.order # 0
  /\ t.pc \in {"detach", "unlink", "restore"} => t.snap.status = "ordered"
  /\ t.pc = "update" /\ t.order # 0 => t.snap.status = "ordered"
  /\ t.pc \in {"claim", "create", "link"} => t.snap.status # "ordered"
  /\ t.pc \in Owning /\ t.snap.status # "ordered" => t.kind = "validation"
  /\ t.pc = "pending" /\ t.kind = "validation" => t.snap.order # 0
  /\ t.pc = "create" => t.posted = Price(t)

\* Nobody knows of an order that is not there yet.
Shaped(t) == Formed(t) /\ t.order =< placed /\ t.snap.order =< placed

TaskInv == \A r \in Requests : Shaped(task[r])

\* The session holds an order exactly while it is ordered: a linked one with
\* its coupon.
SessionInv ==
  /\ session.status = "ordered" <=> session.order # 0
  /\ session.order =< placed
  /\ session.order # 0 => orders[session.order].linked /\ orders[session.order].coupon

\* An order a request answers for is neither the session's nor another's, and
\* it is linked if it was detached.
OwnInv == \A r \in Requests : task[r].pc \in Owning =>
  /\ session.order # task[r].order
  /\ orders[task[r].order].linked <=> task[r].snap.status = "ordered"
  /\ task[r].pc \in Keeping => orders[task[r].order].coupon
  /\ \A q \in Requests \ {r} : task[q].pc \in Owning => task[q].order # task[r].order

\* Orders that wait for money have somebody to answer for them.
AwaitInv == ~died => \A o \in OrderIds : orders[o].pay = "awaiting_payment" =>
  \/ session.order = o
  \/ \E r \in Requests : task[r].pc \in Failing /\ task[r].order = o

\* Orders failed by a request are freed, or on their way.
FreedInv == ~died => \A o \in OrderIds : orders[o].pay = "failed" /\ ~orders[o].swept =>
  \/ ~orders[o].coupon /\ ~orders[o].linked
  \/ \E r \in Requests : task[r].order = o /\ task[r].pc = "coupon"
  \/ \E r \in Requests : task[r].order = o /\ task[r].pc = "unlink" /\ ~orders[o].coupon

\* The push comes after the purchase.
PushInv == \A r \in Requests : task[r].kind = "push" => kustom.status # "incomplete"

\* Kustom waits for every callback in flight, and one edit runs at a time.
AskInv ==
  /\ kustom.waiting # None => kustom.approved = "no" /\ kustom.status = "incomplete"
  /\ ~stray => \A r \in Requests : task[r].kind \in Callers => kustom.waiting = r
  /\ ~stray => \A r, q \in Requests : task[r].kind = "edit" /\ task[q].kind = "edit" => r = q

\* The session's order has the amount Kustom holds.
Agreed == session.order # 0 /\ orders[session.order].total = kustom.amount

\* A validation compared that amount, or Kustom has its verdict; what requests
\* that are still under way know of it.
AmountInv == ~stray =>
  /\ kustom.approved = "checked" => Agreed
  /\ \A r \in Requests :
       /\ task[r].kind = "validation" => task[r].posted = kustom.amount
       /\ task[r].pc = "link" => orders[task[r].order].total = kustom.amount
       /\ task[r].kind = "validation" /\ task[r].pc = "pending"
            /\ orders[task[r].snap.order].total = kustom.amount
            => session.order = task[r].snap.order
       /\ task[r].kind = "edit" /\ task[r].pc = "detach"
            => orders[task[r].order].total # kustom.amount
       /\ task[r].kind = "validation" /\ task[r].pc = "answer" /\ task[r].ok = "checked"
            => Agreed

\* A paid order, and one about to be, is the session's and of Kustom's amount.
Settled(o) == kustom.status # "incomplete" /\ session.order = o
              /\ orders[o].total = kustom.amount
PaidInv == ~stray =>
  /\ \A o \in OrderIds : orders[o].pay = "paid" => Settled(o)
  /\ \A r \in Requests : task[r].pc = "mark" => Settled(task[r].order)

SessionsInv == /\ TaskInv /\ SessionInv /\ OwnInv /\ AwaitInv /\ FreedInv
               /\ PushInv /\ AskInv /\ AmountInv /\ PaidInv

-------------------------------------------------------------------------------
(* Tasks.                                                                    *)

LEMMA IdleIsTask ==
  /\ Idle \in Tasks /\ Idle.pc = "idle" /\ Idle.kind = "none"
  /\ Idle.order = 0 /\ Idle.snap.order = 0
  /\ Items1 \in Items /\ Dest1 \in Dests /\ Amount1 \in Amounts
<1>1. Items1 \in Items /\ Dest1 \in Dests
  BY SetsNonempty DEF Items1, Dest1
<1>2. Amount1 \in Amounts
  BY <1>1 DEF Amount1, Amounts
<1>3. 0 \in 0..MaxOrders
  BY BoundsNat
<1>4. Blank \in Snapshots /\ Blank.order = 0
  BY <1>1, <1>3 DEF Blank, Snapshots
<1>5. Idle \in Tasks
  BY <1>1, <1>2, <1>3, <1>4 DEF Idle, Tasks, Verdicts
<1> QED
  BY <1>1, <1>2, <1>4, <1>5 DEF Idle

LEMMA IdleShaped == ASSUME TypeOK PROVE Shaped(Idle)
BY IdleIsTask, BoundsNat DEF Shaped, Formed, Owning, TypeOK

LEMMA TaskFields ==
  ASSUME TypeOK, NEW t \in Tasks
  PROVE  /\ t.pc \in {"idle", "load", "pending", "update", "claim", "await", "create",
                      "link", "detach", "failRead", "failFlip", "coupon", "unlink",
                      "restore", "release", "store", "answer", "verify", "mark"}
         /\ t.kind \in {"none", "validation", "callback", "edit", "push"}
         /\ t.posted \in Amounts /\ t.items \in Items /\ t.dest \in Dests
         /\ t.snap \in Snapshots /\ t.order \in 0..MaxOrders /\ t.ok \in Verdicts
         /\ t.snap.status \in {"open", "ordering", "ordered", "expired"}
         /\ t.snap.order \in 0..MaxOrders /\ t.snap.items \in Items
         /\ t.order # 0 => t.order \in OrderIds
         /\ t.snap.order # 0 => t.snap.order \in OrderIds
         /\ Price(t) \in Amounts
<1>1. t.items \in Items /\ t.dest \in Dests /\ t.snap \in Snapshots /\ t.order \in 0..MaxOrders
  BY DEF Tasks
<1>2. Price(t) \in Amounts
  BY <1>1 DEF Price, Amounts
<1> QED
  BY <1>1, <1>2, BoundsNat DEF Tasks, Snapshots, OrderIds

\* A callback gets its answer; the others are over.
LEMMA AnswerIsTask ==
  ASSUME NEW s \in Tasks, NEW ok \in Verdicts, NEW t, t = Answering(s, ok)
  PROVE  \/ t = Idle /\ s.kind \notin Callers
         \/ /\ t \in Tasks /\ s.kind \in Callers /\ t.pc = "answer" /\ t.kind = s.kind
            /\ t.posted = s.posted /\ t.order = s.order /\ t.snap = s.snap /\ t.ok = ok
BY DEF Tasks, Answering, Callers

LEMMA AnswerShaped ==
  ASSUME TypeOK, NEW s \in Tasks, s.order =< placed, s.snap.order =< placed,
         NEW ok \in Verdicts
  PROVE  Answering(s, ok) \in Tasks /\ Shaped(Answering(s, ok))
<1> DEFINE t == Answering(s, ok)
<1>1. \/ t = Idle
      \/ /\ t \in Tasks /\ s.kind \in Callers /\ t.pc = "answer" /\ t.kind = s.kind
         /\ t.order = s.order /\ t.snap = s.snap
  BY AnswerIsTask
<1> HIDE DEF t
<1>2. CASE t = Idle
  BY <1>2, IdleIsTask, IdleShaped DEF t
<1>3. CASE t # Idle
  BY <1>1, <1>3 DEF t, Shaped, Formed, Owning, Callers
<1> QED
  BY <1>2, <1>3

LEMMA TaskOf ==
  ASSUME TypeOK, SessionsInv, NEW r \in Requests
  PROVE  task[r] \in Tasks /\ Shaped(task[r])
BY DEF TypeOK, SessionsInv, TaskInv

\* One request takes a step.
LEMMA OneTask ==
  ASSUME TypeOK, NEW r \in Requests, NEW t \in Tasks, Become(r, t)
  PROVE  /\ task' \in [Requests -> Tasks] /\ task'[r] = t
         /\ \A q \in Requests \ {r} : task'[q] = task[q]
BY DEF TypeOK, Become

-------------------------------------------------------------------------------
(* Steps that leave the orders and what Kustom holds alone.                  *)

\* Neither the orders nor which of them the session holds change.
Rows ==
  /\ session' \in Sessions /\ session'.order = session.order
  /\ session'.status = "ordered" <=> session.status = "ordered"
  /\ orders' = orders /\ placed' = placed /\ kustom' \in Checkouts
  /\ calls' \in 0..MaxCalls /\ failures' \in 0..MaxFailures
  /\ stray' \in BOOLEAN /\ died' \in BOOLEAN
  /\ kustom.status # "incomplete" => kustom'.status # "incomplete"
  /\ stray => stray'
  /\ died => died'

\* Nor do the amount Kustom holds and its verdict on it.
Money ==
  /\ kustom'.amount = kustom.amount /\ kustom'.approved = kustom.approved
  /\ kustom'.waiting = kustom.waiting
  /\ kustom'.waiting # None => kustom'.status = "incomplete"

Frame == Rows /\ Money

\* A request goes on to t, and nobody loses an order by it.
Aside(r, t) ==
  /\ t \in Tasks /\ Shaped(t) /\ Become(r, t)
  /\ t.pc \in Owning => /\ task[r].pc \in Owning /\ t.order = task[r].order
                        /\ t.snap = task[r].snap
                        /\ t.pc \in Keeping => task[r].pc \in Keeping
  /\ task[r].pc \in Failing => \/ died'
                               \/ orders[task[r].order].pay # "awaiting_payment"
                               \/ t.pc \in Failing /\ t.order = task[r].order
  /\ task[r].pc \in {"coupon", "unlink"} => died'
  /\ t.pc # "link"
  /\ t.kind = "push" => task[r].kind = "push" \/ kustom.status # "incomplete"

\* What a request knows of amounts and other requests once it is at t.
Knows(r, t) == ~stray' =>
  /\ t.kind \in {"none", "push", task[r].kind} \/ (t.kind = "edit" /\ ~InFlight("edit"))
  /\ t.kind = "validation" =>
       /\ t.posted = task[r].posted
       /\ t.pc = "pending" => session.order = t.snap.order
       /\ t.pc = "answer" /\ t.ok = "checked" => Agreed
  /\ t.kind = "edit" => t.pc # "detach"
  /\ t.pc = "mark" => Settled(t.order) /\ t.order \in OrderIds

LEMMA AsideTyped ==
  ASSUME TypeOK, Rows, NEW r \in Requests, NEW t, Aside(r, t)
  PROVE  TypeOK'
BY OneTask DEF TypeOK, Rows, Aside

LEMMA AsideKeepsTasks ==
  ASSUME TypeOK, SessionsInv, Rows, NEW r \in Requests, NEW t, Aside(r, t)
  PROVE  TaskInv' /\ SessionInv' /\ OwnInv' /\ PushInv'
<1>1. /\ t \in Tasks /\ Shaped(t) /\ task'[r] = t
      /\ \A q \in Requests \ {r} : task'[q] = task[q]
  BY OneTask DEF Aside
<1>2. TaskInv'
  BY <1>1 DEF TaskInv, SessionsInv, Shaped, Formed, Rows, Price
<1>3. SessionInv'
  BY DEF SessionInv, SessionsInv, Rows
<1>4. OwnInv'
  <2>1. t.pc \in Owning => /\ task[r].pc \in Owning /\ t.order = task[r].order
                           /\ t.snap = task[r].snap
                           /\ t.pc \in Keeping => task[r].pc \in Keeping
    BY DEF Aside
  <2>2. session'.order = session.order /\ orders' = orders
    BY DEF Rows
  <2> QED
    BY <1>1, <2>1, <2>2 DEF OwnInv, SessionsInv
<1>5. PushInv'
  BY <1>1 DEF PushInv, SessionsInv, Rows, Aside
<1> QED
  BY <1>2, <1>3, <1>4, <1>5

LEMMA AsideKeepsOrders ==
  ASSUME TypeOK, SessionsInv, Rows, NEW r \in Requests, NEW t, Aside(r, t)
  PROVE  AwaitInv' /\ FreedInv'
<1>1. /\ task'[r] = t /\ \A q \in Requests \ {r} : task'[q] = task[q]
  BY OneTask DEF Aside
<1>2. AwaitInv'
  <2>1. SUFFICES ASSUME ~died', NEW o \in OrderIds, orders[o].pay = "awaiting_payment",
                        session.order # o
                 PROVE  \E q \in Requests : task'[q].pc \in Failing /\ task'[q].order = o
    BY DEF AwaitInv, Rows
  <2>2. PICK q \in Requests : task[q].pc \in Failing /\ task[q].order = o
    BY <2>1 DEF AwaitInv, SessionsInv, Rows
  <2>3. CASE q # r
    BY <1>1, <2>2, <2>3
  <2>4. CASE q = r
    BY <1>1, <2>1, <2>2, <2>4 DEF Aside
  <2> QED
    BY <2>3, <2>4
<1>3. FreedInv'
  <2>1. SUFFICES ASSUME ~died', NEW o \in OrderIds,
                        orders[o].pay = "failed", ~orders[o].swept
                 PROVE  \/ ~orders[o].coupon /\ ~orders[o].linked
                        \/ \E q \in Requests : task'[q].order = o /\ task'[q].pc = "coupon"
                        \/ \E q \in Requests : /\ task'[q].order = o /\ task'[q].pc = "unlink"
                                               /\ ~orders[o].coupon
    BY DEF FreedInv, Rows
  <2>2. task[r].pc \notin {"coupon", "unlink"}
    BY <2>1 DEF Aside
  <2>3. \A q \in Requests : task[q].pc \in {"coupon", "unlink"} => task'[q] = task[q]
    BY <1>1, <2>2
  <2> QED
    BY <2>1, <2>3 DEF FreedInv, SessionsInv, Rows
<1> QED
  BY <1>2, <1>3

\* An order keeps its total, and is only paid while it is the session's.
Totals == \A o \in OrderIds :
  /\ orders'[o].total = orders[o].total
  /\ orders'[o].pay = "paid" /\ ~stray' => orders[o].pay = "paid" \/ Settled(o)

LEMMA KeepsAmounts ==
  ASSUME TypeOK, SessionsInv, Money, Totals, session'.order = session.order, stray => stray',
         kustom.status # "incomplete" => kustom'.status # "incomplete",
         NEW r \in Requests, NEW t \in Tasks, Become(r, t), Knows(r, t), t.pc # "link"
  PROVE  AskInv' /\ AmountInv' /\ PaidInv'
<1>1. /\ task'[r] = t /\ \A q \in Requests \ {r} : task'[q] = task[q]
  BY OneTask
<1>2. CASE stray'
  BY <1>2 DEF AskInv, AmountInv, PaidInv, SessionsInv, Money
<1>3. CASE ~stray'
  <2>1. /\ t.kind \in {"none", "push", task[r].kind} \/ (t.kind = "edit" /\ ~InFlight("edit"))
        /\ t.kind = "validation" =>
             /\ t.posted = task[r].posted
             /\ t.pc = "pending" => session.order = t.snap.order
             /\ t.pc = "answer" /\ t.ok = "checked" => Agreed
        /\ t.kind = "edit" => t.pc # "detach"
        /\ t.pc = "mark" => Settled(t.order) /\ t.order \in OrderIds
    BY <1>3 DEF Knows
  <2>2. ~stray
    BY <1>3
  <2>3. AskInv'
    <3>1. \A q \in Requests : task'[q].kind \in Callers => kustom'.waiting = q
      BY <1>1, <2>1, <2>2 DEF AskInv, SessionsInv, Money, Callers
    <3>2. ASSUME NEW a \in Requests, NEW b \in Requests,
                 task'[a].kind = "edit", task'[b].kind = "edit"
          PROVE  a = b
      BY <1>1, <2>1, <2>2, <3>2 DEF AskInv, SessionsInv, InFlight
    <3> QED
      BY <3>1, <3>2 DEF AskInv, SessionsInv, Money
  <2>4. /\ Agreed' <=> Agreed
        /\ \A o \in OrderIds : Settled(o) => Settled(o)'
    <3>1. session.order # 0 => session.order \in OrderIds
      BY BoundsNat DEF TypeOK, Sessions, OrderIds
    <3> QED
      BY <3>1 DEF Money, Totals, Agreed, Settled
  <2>5. \A q \in Requests : Shaped(task[q]) /\ task[q] \in Tasks
    BY TaskOf
  <2>6. AmountInv'
    <3>1. t.kind = "validation" => task[r].kind = "validation"
      BY <2>1
    <3>2. \A q \in Requests \ {r} :
            /\ task[q].pc = "link" => orders'[task[q].order].total = kustom.amount
            /\ task[q].kind = "validation" /\ task[q].pc = "pending"
                 /\ orders'[task[q].snap.order].total = kustom.amount
                 => session.order = task[q].snap.order
            /\ task[q].kind = "edit" /\ task[q].pc = "detach"
                 => orders'[task[q].order].total # kustom.amount
      BY <2>2, <2>5, TaskFields DEF AmountInv, SessionsInv, Totals, Shaped, Formed, Owning
    <3> QED
      BY <1>1, <2>1, <2>2, <2>4, <3>1, <3>2 DEF AmountInv, SessionsInv, Money
  <2>7. PaidInv'
    <3>1. \A q \in Requests : task[q].pc = "mark" => task[q].order \in OrderIds
      BY <2>5, TaskFields DEF Shaped, Formed
    <3> QED
      BY <1>1, <2>1, <2>2, <2>4, <3>1 DEF PaidInv, SessionsInv, Totals
  <2> QED
    BY <2>3, <2>6, <2>7
<1> QED
  BY <1>2, <1>3

LEMMA AsideKept ==
  ASSUME TypeOK, SessionsInv, Frame, NEW r \in Requests, NEW t, Aside(r, t), Knows(r, t)
  PROVE  TypeOK' /\ SessionsInv'
<1>1. Totals /\ t \in Tasks /\ Become(r, t) /\ t.pc # "link"
  BY DEF Frame, Rows, Totals, Aside
<1>2. AskInv' /\ AmountInv' /\ PaidInv'
  BY <1>1, KeepsAmounts DEF Frame, Rows
<1> QED
  BY <1>2, AsideTyped, AsideKeepsTasks, AsideKeepsOrders DEF SessionsInv, Frame

LEMMA StillFrame ==
  ASSUME TypeOK, SessionsInv, UNCHANGED <<session, orders, placed, kustom, bounds, history>>
  PROVE  Frame
BY DEF Frame, Rows, Money, TypeOK, SessionsInv, AskInv, bounds, history

\* A request without an order of its own goes on.
LEMMA MoveKept ==
  ASSUME TypeOK, SessionsInv, Frame, NEW r \in Requests, NEW t \in Tasks, Shaped(t),
         Become(r, t), task[r].pc \notin Owning, t.pc \notin Owning \cup {"answer", "mark"},
         t.kind = task[r].kind, t.posted = task[r].posted,
         t.kind = "validation" /\ t.pc = "pending" => session.order = t.snap.order,
         t.kind = "edit" => t.pc # "detach"
  PROVE  TypeOK' /\ SessionsInv'
<1>1. Aside(r, t)
  BY DEF Aside, Owning, Failing
<1>2. Knows(r, t)
  BY DEF Knows
<1> QED
  BY <1>1, <1>2, AsideKept

\* A request is over, or has its answer for Kustom.
LEMMA EndKept ==
  ASSUME TypeOK, SessionsInv, Frame, NEW r \in Requests, NEW s \in Tasks, NEW ok \in Verdicts,
         s.kind = task[r].kind, s.posted = task[r].posted,
         s.order =< placed, s.snap.order =< placed,
         Become(r, Answering(s, ok)),
         task[r].pc \in Failing => orders[task[r].order].pay # "awaiting_payment",
         task[r].pc \notin {"coupon", "unlink"} \/ died',
         s.kind = "validation" /\ ok = "checked" /\ ~stray' => Agreed
  PROVE  TypeOK' /\ SessionsInv'
<1> DEFINE t == Answering(s, ok)
<1>1. \/ t = Idle
      \/ /\ t.pc = "answer" /\ t.kind = s.kind /\ t.posted = s.posted /\ t.ok = ok
  BY AnswerIsTask
<1>2. t \in Tasks /\ Shaped(t) /\ Become(r, t)
  BY AnswerShaped
<1> HIDE DEF t
<1>3. t.pc \in {"idle", "answer"} /\ t.kind \in {"none", task[r].kind}
  BY <1>1, IdleIsTask
<1>4. Aside(r, t)
  BY <1>2, <1>3 DEF Aside, Owning
<1>5. Knows(r, t)
  BY <1>1, <1>3, IdleIsTask DEF Knows
<1> QED
  BY <1>4, <1>5, AsideKept

LEMMA IdleKept ==
  ASSUME TypeOK, SessionsInv, Frame, NEW r \in Requests, Become(r, Idle),
         task[r].pc \in Failing => died' \/ orders[task[r].order].pay # "awaiting_payment",
         task[r].pc \notin {"coupon", "unlink"} \/ died'
  PROVE  TypeOK' /\ SessionsInv'
<1>1. Aside(r, Idle)
  BY IdleIsTask, IdleShaped DEF Aside, Owning
<1>2. Knows(r, Idle)
  BY IdleIsTask DEF Knows
<1> QED
  BY <1>1, <1>2, AsideKept

-------------------------------------------------------------------------------
(* The steps of a request up to its writes.                                  *)

LEMMA LoadedIs ==
  ASSUME TypeOK, SessionsInv, NEW s \in Tasks, s.order =< placed, NEW t, t = Loaded(s)
  PROVE  /\ t \in Tasks /\ t.pc = s.pc /\ t.kind = s.kind /\ t.posted = s.posted
         /\ t.order = s.order /\ t.order =< placed /\ t.snap.order =< placed
         /\ t.snap.status = session.status /\ t.snap.order = session.order
<1> DEFINE snap == [status |-> session.status, order |-> session.order, items |-> session.items]
<1>1. snap \in Snapshots /\ session.items \in Items /\ session.dest \in Dests
  BY DEF TypeOK, Sessions, Snapshots
<1>2. session.order =< placed
  BY DEF SessionsInv, SessionInv
<1>3. snap.status = session.status /\ snap.order = session.order
  OBVIOUS
<1>4. t = [s EXCEPT !.snap = snap,
                    !.items = IF s.kind = "edit" THEN s.items ELSE session.items,
                    !.dest = IF s.kind = "edit" THEN session.dest ELSE s.dest]
  BY DEF Loaded
<1> HIDE DEF snap
<1>5. /\ t \in Tasks /\ t.pc = s.pc /\ t.kind = s.kind /\ t.posted = s.posted
      /\ t.order = s.order /\ t.snap = snap
  BY <1>1, <1>4 DEF Tasks
<1> QED
  BY <1>2, <1>3, <1>5

LEMMA LoadKept ==
  ASSUME TypeOK, SessionsInv, NEW r \in Requests, Load(r)
  PROVE  TypeOK' /\ SessionsInv'
<1> DEFINE t == Loaded(task[r])
<1>1. /\ task[r] \in Tasks /\ Shaped(task[r]) /\ task[r].pc = "load"
  BY TaskOf DEF Load, At
<1>2. /\ t \in Tasks /\ t.pc = "load" /\ t.kind = task[r].kind /\ t.posted = task[r].posted
      /\ t.order =< placed /\ t.snap.order =< placed
      /\ t.snap.status = session.status /\ t.snap.order = session.order
  BY <1>1, LoadedIs DEF Shaped, Formed
<1>3. /\ \/ /\ t.kind = "validation" /\ session.status = "ordered"
            /\ Become(r, [t EXCEPT !.pc = "pending"]) /\ UNCHANGED session
         \/ /\ t.kind = "validation" /\ session.status # "ordered"
            /\ Become(r, IF Expired THEN Answering(t, "no") ELSE [t EXCEPT !.pc = "claim"])
            /\ UNCHANGED session
         \/ /\ t.kind = "callback"
            /\ Become(r, IF Expired THEN Answering(t, "no") ELSE [t EXCEPT !.pc = "pending"])
            /\ UNCHANGED session
         \/ /\ t.kind = "edit"
            /\ Become(r, IF Expired THEN Idle ELSE [t EXCEPT !.pc = "pending"])
            /\ session' = IF Expired /\ session.status = "open"
                          THEN [session EXCEPT !.status = "expired"] ELSE session
         \/ /\ t.kind = "push"
            /\ Become(r, IF session.order = 0 THEN Idle
                         ELSE [t EXCEPT !.pc = "verify", !.order = session.order])
            /\ UNCHANGED session
      /\ UNCHANGED <<orders, placed, kustom, bounds, history>>
  BY DEF Load
<1> HIDE DEF t
<1>4. session.status = "ordered" <=> session.order # 0
  BY DEF SessionsInv, SessionInv
<1>5. Frame
  <2>1. CASE UNCHANGED session
    BY <1>3, <2>1, StillFrame
  <2>2. CASE session.status = "open" /\ session' = [session EXCEPT !.status = "expired"]
    BY <1>3, <2>2 DEF Frame, Rows, Money, TypeOK, SessionsInv, AskInv, bounds, history, Sessions
  <2> QED
    BY <1>3, <2>1, <2>2
<1>6. task[r].pc \notin Owning /\ task[r].pc \notin Failing
  BY <1>1 DEF Owning, Failing
<1>7. CASE Become(r, Answering(t, "no"))
  BY <1>1, <1>2, <1>5, <1>6, <1>7, EndKept DEF Verdicts
<1>8. CASE Become(r, Idle)
  BY <1>1, <1>5, <1>6, <1>8, IdleKept
<1>9. CASE /\ Become(r, [t EXCEPT !.pc = "pending"]) /\ t.kind \in Callers \cup {"edit"}
           /\ t.kind = "validation" => session.status = "ordered"
  <2> DEFINE u == [t EXCEPT !.pc = "pending"]
  <2>1. /\ u \in Tasks /\ u.pc = "pending" /\ u.kind = t.kind /\ u.posted = t.posted
        /\ u.order = t.order /\ u.snap = t.snap
    BY <1>2 DEF Tasks
  <2>2. Become(r, u)
    BY <1>9
  <2> HIDE DEF u
  <2>3. Shaped(u)
    BY <1>2, <1>4, <1>9, <2>1 DEF Shaped, Formed, Callers, Owning
  <2> QED
    BY <1>2, <1>5, <1>6, <2>1, <2>2, <2>3, MoveKept DEF Owning
<1>10. CASE Become(r, [t EXCEPT !.pc = "claim"]) /\ t.kind = "validation"
            /\ session.status # "ordered"
  <2> DEFINE u == [t EXCEPT !.pc = "claim"]
  <2>1. /\ u \in Tasks /\ u.pc = "claim" /\ u.kind = t.kind /\ u.posted = t.posted
        /\ u.order = t.order /\ u.snap = t.snap
    BY <1>2 DEF Tasks
  <2>2. Become(r, u)
    BY <1>10
  <2> HIDE DEF u
  <2>3. Shaped(u)
    BY <1>2, <1>10, <2>1 DEF Shaped, Formed, Callers, Owning
  <2> QED
    BY <1>2, <1>5, <1>6, <1>10, <2>1, <2>2, <2>3, MoveKept DEF Owning
<1>11. CASE Become(r, [t EXCEPT !.pc = "verify", !.order = session.order])
            /\ t.kind = "push" /\ session.order # 0
  <2> DEFINE u == [t EXCEPT !.pc = "verify", !.order = session.order]
  <2>1. /\ u \in Tasks /\ u.pc = "verify" /\ u.kind = t.kind /\ u.posted = t.posted
        /\ u.order = session.order /\ u.snap = t.snap
    BY <1>2 DEF Tasks, TypeOK, Sessions
  <2>2. Become(r, u)
    BY <1>11
  <2> HIDE DEF u
  <2>3. Shaped(u)
    BY <1>2, <1>11, <2>1 DEF Shaped, Formed, Callers, Owning, SessionsInv, SessionInv
  <2> QED
    BY <1>2, <1>5, <1>6, <1>11, <2>1, <2>2, <2>3, MoveKept DEF Owning
<1> QED
  BY <1>3, <1>7, <1>8, <1>9, <1>10, <1>11 DEF Callers

LEMMA RevalidateKept ==
  ASSUME TypeOK, SessionsInv, NEW r \in Requests, Revalidate(r)
  PROVE  TypeOK' /\ SessionsInv'
<1> DEFINE s == task[r]
           u == [s EXCEPT !.pc = "detach", !.order = s.snap.order]
<1>1. /\ s \in Tasks /\ Shaped(s) /\ s.pc = "pending" /\ s.kind = "validation"
      /\ s.snap.order # 0 /\ s.snap.order \in 0..MaxOrders /\ s.snap.order =< placed
      /\ s.order =< placed
  BY TaskOf, TaskFields DEF Revalidate, At, Shaped, Formed
<1>2. /\ Frame /\ stray' = stray
      /\ \/ ~Pending(s) /\ Become(r, Answering(s, "unchecked"))
         \/ orders[s.snap.order].total = s.posted /\ Become(r, Answering(s, "checked"))
         \/ Pending(s) /\ Become(r, u)
  BY StillFrame DEF Revalidate, history
<1>3. ~stray => s.posted = kustom.amount
        /\ (orders[s.snap.order].total = kustom.amount => session.order = s.snap.order)
  BY <1>1 DEF SessionsInv, AmountInv
<1>4. s.pc \notin Failing /\ s.pc \notin Owning
  BY <1>1 DEF Failing, Owning
<1>5. CASE Become(r, Answering(s, "unchecked"))
  BY <1>1, <1>2, <1>4, <1>5, EndKept DEF Verdicts
<1>6. CASE orders[s.snap.order].total = s.posted /\ Become(r, Answering(s, "checked"))
  BY <1>1, <1>2, <1>3, <1>4, <1>6, EndKept DEF Verdicts, Agreed
<1>7. CASE Pending(s) /\ Become(r, u)
  <2>1. /\ u \in Tasks /\ u.pc = "detach" /\ u.kind = s.kind /\ u.posted = s.posted
        /\ u.order = s.snap.order /\ u.snap = s.snap
    BY <1>1 DEF Tasks
  <2>2. Become(r, u) /\ s.snap.status = "ordered"
    BY <1>7 DEF Pending
  <2> HIDE DEF u
  <2>3. Shaped(u)
    BY <1>1, <2>1, <2>2 DEF Shaped, Formed, Callers, Owning
  <2> QED
    BY <1>1, <1>2, <1>4, <2>1, <2>2, <2>3, MoveKept DEF Owning
<1> QED
  BY <1>2, <1>5, <1>6, <1>7

LEMMA PendingReadKept ==
  ASSUME TypeOK, SessionsInv, NEW r \in Requests, PendingRead(r)
  PROVE  TypeOK' /\ SessionsInv'
<1> DEFINE s == task[r]
           t == [s EXCEPT !.order = IF Pending(s) THEN s.snap.order ELSE 0]
<1>1. /\ s \in Tasks /\ Shaped(s) /\ s.pc = "pending" /\ s.kind \in {"edit", "callback"}
      /\ s.snap.order \in 0..MaxOrders /\ s.snap.order =< placed /\ s.order =< placed
  BY TaskOf, TaskFields, SMTT(30) DEF PendingRead, At, Shaped, Formed
<1>2. /\ t \in Tasks /\ t.pc = "pending" /\ t.kind = s.kind /\ t.posted = s.posted
      /\ t.snap = s.snap /\ t.order =< placed
      /\ t.order # 0 => s.snap.status = "ordered"
  <2>1. (IF Pending(s) THEN s.snap.order ELSE 0) \in 0..MaxOrders
    BY <1>1, BoundsNat
  <2>2. Pending(s) => s.snap.status = "ordered"
    BY DEF Pending
  <2>3. placed >= 0
    BY DEF TypeOK
  <2> QED
    BY <1>1, <2>1, <2>2, <2>3 DEF Tasks
<1>3. /\ Frame
      /\ \/ Become(r, Answering(t, "no"))
         \/ t.kind = "edit" /\ Become(r, [t EXCEPT !.pc = "update"])
         \/ t.kind # "edit" /\ t.order # 0 /\ Become(r, [t EXCEPT !.pc = "detach"])
         \/ t.kind # "edit" /\ Become(r, [t EXCEPT !.pc = "store"])
  BY StillFrame DEF PendingRead
<1> HIDE DEF t
<1>4. s.pc \notin Failing /\ s.pc \notin Owning
  BY <1>1 DEF Failing, Owning
<1>5. CASE Become(r, Answering(t, "no"))
  BY <1>1, <1>2, <1>3, <1>4, <1>5, EndKept DEF Verdicts
<1>6. ASSUME NEW pc \in {"update", "detach", "store"}, Become(r, [t EXCEPT !.pc = pc]),
             pc = "update" <=> t.kind = "edit", pc = "detach" => t.order # 0
      PROVE  TypeOK' /\ SessionsInv'
  <2> DEFINE u == [t EXCEPT !.pc = pc]
  <2>1. /\ u \in Tasks /\ u.pc = pc /\ u.kind = t.kind /\ u.posted = t.posted
        /\ u.order = t.order /\ u.snap = t.snap
    BY <1>2 DEF Tasks
  <2>2. Become(r, u)
    BY <1>6
  <2> HIDE DEF u
  <2>3. Shaped(u)
    BY <1>1, <1>2, <1>6, <2>1 DEF Shaped, Formed, Callers, Owning
  <2> QED
    BY <1>1, <1>2, <1>3, <1>4, <1>6, <2>1, <2>2, <2>3, MoveKept DEF Owning
<1> QED
  BY <1>3, <1>5, <1>6

LEMMA StoreKept ==
  ASSUME TypeOK, SessionsInv, NEW r \in Requests, Store(r)
  PROVE  TypeOK' /\ SessionsInv'
<1>1. /\ task[r] \in Tasks /\ Shaped(task[r]) /\ task[r].pc = "store"
      /\ task[r].kind \in {"callback", "edit"}
      /\ task[r].order =< placed /\ task[r].snap.order =< placed
  BY TaskOf DEF Store, At, Shaped, Formed
<1>2. Become(r, Answering(task[r], "checked")) /\ stray' = stray
  BY DEF Store, history
<1>3. session' \in Sessions /\ session'.order = session.order /\ session'.status = session.status
  BY <1>1, TaskFields DEF Store, TypeOK, Sessions
<1>4. Frame
  BY <1>3 DEF Store, Frame, Rows, Money, TypeOK, SessionsInv, AskInv, bounds, history
<1> QED
  BY <1>1, <1>2, <1>4, EndKept DEF Verdicts, Failing

LEMMA ClaimKept ==
  ASSUME TypeOK, SessionsInv, NEW r \in Requests, Claim(r)
  PROVE  TypeOK' /\ SessionsInv'
<1> DEFINE s == task[r]
<1>1. s \in Tasks /\ Shaped(s) /\ s.pc = "claim"
  BY TaskOf DEF Claim, At
<1>2. Frame
  <2>1. CASE UNCHANGED session
    BY <2>1, StillFrame DEF Claim
  <2>2. CASE /\ session.status \in {"open", "ordering"}
             /\ session' = [session EXCEPT !.status = "ordering", !.stale = FALSE]
    BY <2>2 DEF Claim, Frame, Rows, Money, TypeOK, SessionsInv, AskInv, bounds, history, Sessions
  <2> QED
    BY <2>1, <2>2 DEF Claim, Claimable
<1>3. \E pc \in {"create", "release", "await"} :
        Become(r, [s EXCEPT !.pc = pc]) /\ (pc = "create" => s.posted = Price(s))
  BY DEF Claim, Goto
<1>4. ASSUME NEW pc \in {"create", "release", "await"},
             Become(r, [s EXCEPT !.pc = pc]), pc = "create" => s.posted = Price(s)
      PROVE  TypeOK' /\ SessionsInv'
  <2> DEFINE u == [s EXCEPT !.pc = pc]
  <2>1. /\ u \in Tasks /\ u.pc = pc /\ u.kind = s.kind /\ u.posted = s.posted
        /\ u.order = s.order /\ u.snap = s.snap /\ Price(u) = Price(s)
    BY <1>1 DEF Tasks, Price
  <2>2. Become(r, u)
    BY <1>4
  <2> HIDE DEF u
  <2>3. Shaped(u)
    BY <1>1, <1>4, <2>1 DEF Shaped, Formed, Callers, Owning
  <2> QED
    BY <1>1, <1>2, <2>1, <2>2, <2>3, MoveKept DEF Owning
<1> QED
  BY <1>3, <1>4

LEMMA AwaitKept ==
  ASSUME TypeOK, SessionsInv, NEW r \in Requests, Await(r)
  PROVE  TypeOK' /\ SessionsInv'
<1>1. /\ task[r] \in Tasks /\ Shaped(task[r]) /\ task[r].pc = "await"
      /\ task[r].order =< placed /\ task[r].snap.order =< placed
  BY TaskOf DEF Await, At, Shaped, Formed
<1>2. PICK ok \in {"unchecked", "no"} : Become(r, Answering(task[r], ok))
  BY DEF Await
<1>3. Frame
  BY StillFrame DEF Await
<1> QED
  BY <1>1, <1>2, <1>3, EndKept DEF Verdicts, Failing

LEMMA ReleaseKept ==
  ASSUME TypeOK, SessionsInv, NEW r \in Requests, Release(r)
  PROVE  TypeOK' /\ SessionsInv'
<1> DEFINE s == [task[r] EXCEPT !.order = 0]
<1>1. /\ task[r] \in Tasks /\ Shaped(task[r]) /\ task[r].pc = "release"
      /\ task[r].snap.order =< placed
  BY TaskOf DEF Release, At, Shaped, Formed
<1>2. 0 \in 0..MaxOrders /\ placed >= 0
  BY BoundsNat DEF TypeOK
<1>3. /\ s \in Tasks /\ s.order = 0 /\ s.snap = task[r].snap /\ s.kind = task[r].kind
      /\ s.posted = task[r].posted
  BY <1>1, <1>2 DEF Tasks
<1>4. Become(r, Answering(s, "no"))
  BY DEF Release
<1>5. session' \in Sessions /\ session'.order = session.order
      /\ (session'.status = "ordered" <=> session.status = "ordered")
  BY DEF Release, TypeOK, Sessions
<1>6. Frame
  BY <1>5 DEF Release, Frame, Rows, Money, TypeOK, SessionsInv, AskInv, bounds, history
<1> HIDE DEF s
<1> QED
  BY <1>1, <1>2, <1>3, <1>4, <1>6, EndKept DEF Verdicts, Failing

\* The edit gives Kustom its amount: nothing is authorized yet, and what had
\* been approved is so no more.
LEMMA RepriceKept ==
  ASSUME TypeOK, SessionsInv, NEW r \in Requests, task[r].pc = "update",
         kustom.status = "incomplete",
         kustom' = [kustom EXCEPT !.amount = Price(task[r]), !.approved = "no",
                      !.waiting = IF Asking("validation") THEN None ELSE @],
         stray' = (stray \/ Asking("validation") \/ SameAmount(task[r])),
         Become(r, IF task[r].order = 0 THEN [task[r] EXCEPT !.pc = "store"]
                   ELSE IF Changed(task[r]) THEN [task[r] EXCEPT !.pc = "detach"] ELSE Idle),
         UNCHANGED <<session, orders, placed, bounds, died>>
  PROVE  TypeOK' /\ SessionsInv'
<1> DEFINE s == task[r]
           t == IF s.order = 0 THEN [s EXCEPT !.pc = "store"]
                ELSE IF Changed(s) THEN [s EXCEPT !.pc = "detach"] ELSE Idle
<1>1. /\ s \in Tasks /\ Shaped(s) /\ s.pc = "update" /\ s.kind = "edit" /\ s.snap.order =< placed
      /\ s.order =< placed /\ s.order # 0 => s.order \in OrderIds
      /\ Price(s) \in Amounts
  BY TaskOf, TaskFields DEF Shaped, Formed
<1>2. /\ t \in Tasks /\ t.pc \in {"store", "detach", "idle"} /\ t.kind \in {"edit", "none"}
      /\ t.pc # "idle" => t.kind = "edit" /\ t.order = s.order /\ t.snap = s.snap
      /\ t.pc = "detach" => t.order # 0 /\ Changed(s)
      /\ t.pc = "idle" => t = Idle
  BY <1>1, IdleIsTask DEF Tasks
<1>3. Become(r, t)
  OBVIOUS
<1> HIDE DEF t
<1>4. Shaped(t)
  BY <1>1, <1>2, IdleShaped DEF Shaped, Formed, Owning
<1>5. /\ kustom' \in Checkouts /\ kustom'.approved = "no" /\ kustom'.amount = Price(s)
      /\ kustom'.status = "incomplete"
      /\ ~Asking("validation") => kustom'.waiting = kustom.waiting
  BY <1>1 DEF TypeOK, Checkouts, Verdicts
<1>6. Aside(r, t)
  BY <1>1, <1>2, <1>3, <1>4 DEF Aside, Owning, Failing
<1>7. Rows
  BY <1>5 DEF Rows, TypeOK, bounds
<1>8. TypeOK' /\ TaskInv' /\ SessionInv' /\ OwnInv' /\ PushInv' /\ AwaitInv' /\ FreedInv'
  BY <1>6, <1>7, AsideTyped, AsideKeepsTasks, AsideKeepsOrders
<1>9. task'[r] = t /\ \A q \in Requests \ {r} : task'[q] = task[q]
  BY <1>2, <1>3, OneTask
<1>10. CASE stray'
  BY <1>5, <1>8, <1>10 DEF SessionsInv, AskInv, AmountInv, PaidInv
<1>11. CASE ~stray'
  <2>1. ~stray /\ ~Asking("validation") /\ ~SameAmount(s)
    BY <1>11
  <2>2. /\ \A q \in Requests : task[q].kind \in Callers => kustom.waiting = q
        /\ \A q \in Requests : task[q].kind = "edit" => q = r
        /\ \A q \in Requests : task[q].kind # "validation"
    BY <1>1, <2>1, RequestsFinite DEF SessionsInv, AskInv, Asking, Callers
  <2>3. AskInv'
    BY <1>2, <1>5, <1>9, <2>1, <2>2 DEF AskInv, Callers
  <2>4. t.pc = "detach" => orders[t.order].total # Price(s)
    BY <1>2, <2>1 DEF SameAmount
  <2>5. \A q \in Requests : task[q].pc # "link"
    BY <2>2, TaskOf DEF Shaped, Formed
  <2>6. AmountInv'
    BY <1>2, <1>5, <1>9, <2>2, <2>4, <2>5 DEF AmountInv
  <2>7. PaidInv'
    BY <1>2, <1>9, <2>1 DEF PaidInv, SessionsInv, Settled
  <2> QED
    BY <1>8, <2>3, <2>6, <2>7 DEF SessionsInv
<1> QED
  BY <1>10, <1>11

LEMMA UpdateKept ==
  ASSUME TypeOK, SessionsInv, NEW r \in Requests, Update(r)
  PROVE  TypeOK' /\ SessionsInv'
<1>1. task[r].pc = "update"
  BY DEF Update, At
<1>2. CASE kustom.status # "incomplete"
  <2>1. Become(r, Idle) /\ UNCHANGED <<session, orders, placed, kustom, bounds, history>>
    BY <1>2 DEF Update, history
  <2> QED
    BY <1>1, <2>1, StillFrame, IdleKept DEF Failing
<1>3. CASE kustom.status = "incomplete"
  BY <1>1, <1>3, RepriceKept DEF Update
<1> QED
  BY <1>2, <1>3

-------------------------------------------------------------------------------
(* The order is created and linked.                                          *)

LEMMA PlaceKept ==
  ASSUME TypeOK, SessionsInv, NEW r \in Requests, task[r].pc = "create", placed < MaxOrders,
         placed' = placed + 1,
         orders' = [orders EXCEPT ![placed'] =
                      [pay |-> "awaiting_payment", total |-> Price(task[r]),
                       linked |-> FALSE, coupon |-> TRUE, swept |-> FALSE]],
         Become(r, [task[r] EXCEPT !.pc = "link", !.order = placed']),
         UNCHANGED <<session, kustom, bounds, history>>
  PROVE  TypeOK' /\ SessionsInv'
<1> DEFINE n == placed + 1
           s == task[r]
           t == [s EXCEPT !.pc = "link", !.order = n]
           new == [pay |-> "awaiting_payment", total |-> Price(s),
                   linked |-> FALSE, coupon |-> TRUE, swept |-> FALSE]
<1>1. /\ s \in Tasks /\ Shaped(s) /\ s.pc = "create" /\ s.kind = "validation"
      /\ s.snap.order =< placed /\ s.posted = Price(s) /\ s.snap.status # "ordered"
      /\ Price(s) \in Amounts
  BY TaskOf, TaskFields DEF Shaped, Formed
<1>2. placed \in Nat /\ n \in OrderIds /\ n # 0 /\ n \in 0..MaxOrders
  BY BoundsNat DEF TypeOK, OrderIds
<1>3. /\ t \in Tasks /\ t.pc = "link" /\ t.order = n /\ t.kind = s.kind /\ t.posted = s.posted
      /\ t.snap = s.snap
  BY <1>1, <1>2 DEF Tasks
<1>4. Become(r, t)
  OBVIOUS
<1>5. new \in Orders /\ new.pay = "awaiting_payment" /\ new.total = Price(s) /\ ~new.linked /\ new.coupon
  BY <1>1 DEF Orders
<1>6. /\ orders' \in [OrderIds -> Orders] /\ orders'[n] = new
      /\ \A o \in OrderIds : o =< placed => orders'[o] = orders[o]
      /\ \A o \in OrderIds : o # n => orders'[o] = orders[o]
  BY <1>2, <1>5 DEF TypeOK
<1> HIDE DEF t, new
<1>7. /\ task' \in [Requests -> Tasks] /\ task'[r] = t
      /\ \A q \in Requests \ {r} : task'[q] = task[q]
  BY <1>3, <1>4, OneTask
<1>8. TypeOK'
  <2>1. placed' \in 0..MaxOrders
    BY <1>2 DEF OrderIds
  <2> QED
    BY <1>6, <1>7, <2>1 DEF TypeOK, bounds, history
<1>9. \A q \in Requests : /\ task[q] \in Tasks /\ Shaped(task[q])
                          /\ task[q].order =< placed /\ task[q].snap.order =< placed
                          /\ task[q].order \in 0..MaxOrders /\ task[q].snap.order \in 0..MaxOrders
  BY TaskOf, TaskFields DEF Shaped, Formed
<1>10. session.order \in 0..MaxOrders /\ session.order =< placed
  BY DEF TypeOK, Sessions, SessionsInv, SessionInv
<1>11. TaskInv'
  <2>1. \A q \in Requests : Formed(task'[q])
    <3>1. Formed(t)
      BY <1>1, <1>2, <1>3 DEF Shaped, Formed, Owning, Callers
    <3> QED
      BY <1>7, <1>9, <3>1 DEF Shaped
  <2>2. \A q \in Requests : task'[q].order =< n /\ task'[q].snap.order =< n
    BY <1>1, <1>2, <1>3, <1>7, <1>9 DEF TypeOK
  <2> QED
    BY <2>1, <2>2 DEF TaskInv, Shaped, Formed, Price
<1>12. SessionInv'
  BY <1>2, <1>6, <1>10 DEF SessionInv, SessionsInv, OrderIds
<1>13. OwnInv'
  <2>1. \A q \in Requests : task[q].pc \in Owning => task[q].order \in OrderIds
    BY <1>9, TaskFields DEF Shaped, Formed
  <2>2. task[r].pc \notin Owning
    BY <1>1 DEF Owning
  <2>3. \A q \in Requests \ {r} : task[q].pc \in Owning =>
          orders'[task[q].order] = orders[task[q].order] /\ task[q].order # n
    BY <1>2, <1>6, <1>9, <2>1
  <2>4. session.order # n
    BY <1>2, <1>10
  <2> QED
    BY <1>1, <1>3, <1>5, <1>6, <1>7, <2>2, <2>3, <2>4 DEF OwnInv, SessionsInv
<1>14. AwaitInv'
  <2>1. SUFFICES ASSUME ~died, NEW o \in OrderIds, orders'[o].pay = "awaiting_payment",
                        session.order # o
                 PROVE  \E q \in Requests : task'[q].pc \in Failing /\ task'[q].order = o
    BY DEF AwaitInv, history
  <2>2. CASE o = n
    BY <1>3, <1>7, <2>2 DEF Failing
  <2>3. CASE o # n
    <3>1. PICK q \in Requests : task[q].pc \in Failing /\ task[q].order = o
      BY <1>6, <2>1, <2>3 DEF AwaitInv, SessionsInv
    <3>2. q # r
      BY <1>1, <3>1 DEF Failing
    <3> QED
      BY <1>7, <3>1, <3>2
  <2> QED
    BY <2>2, <2>3
<1>15. FreedInv'
  <2>1. \A q \in Requests : task[q].pc \in {"coupon", "unlink"} => task'[q] = task[q]
    BY <1>1, <1>7
  <2> QED
    BY <1>5, <1>6, <2>1 DEF FreedInv, SessionsInv, history
<1>16. AskInv'
  BY <1>3, <1>7 DEF AskInv, SessionsInv, history
<1>17. AmountInv'
  <2>1. session.order # 0 => session.order \in OrderIds /\ orders'[session.order] = orders[session.order]
    BY <1>2, <1>6, <1>10 DEF OrderIds
  <2>2. Agreed' <=> Agreed
    BY <2>1 DEF Agreed
  <2>3. \A q \in Requests \ {r} :
          /\ task[q].pc = "link" => orders'[task[q].order] = orders[task[q].order]
          /\ task[q].kind = "validation" /\ task[q].pc = "pending"
               => orders'[task[q].snap.order] = orders[task[q].snap.order]
          /\ task[q].kind = "edit" /\ task[q].pc = "detach"
               => orders'[task[q].order] = orders[task[q].order]
    BY <1>2, <1>6, <1>9 DEF OrderIds, Shaped, Formed, Owning
  <2> QED
    BY <1>1, <1>3, <1>5, <1>6, <1>7, <2>2, <2>3, SMTT(30) DEF AmountInv, SessionsInv, history
<1>18. PaidInv'
  <2>1. \A q \in Requests : task[q].pc = "mark" => task[q].order \in OrderIds /\ task[q].order # n
    BY <1>2, <1>9 DEF OrderIds, Shaped, Formed
  <2>2. \A o \in OrderIds : o # n => (Settled(o)' <=> Settled(o))
    BY <1>6 DEF Settled
  <2> QED
    BY <1>2, <1>3, <1>5, <1>6, <1>7, <2>1, <2>2 DEF PaidInv, SessionsInv, history
<1>19. PushInv'
  BY <1>1, <1>3, <1>7 DEF PushInv, SessionsInv, history
<1> QED
  BY <1>8, <1>11, <1>12, <1>13, <1>14, <1>15, <1>16, <1>17, <1>18, <1>19 DEF SessionsInv

LEMMA CreateKept ==
  ASSUME TypeOK, SessionsInv, NEW r \in Requests, Create(r)
  PROVE  TypeOK' /\ SessionsInv'
<1>1. task[r] \in Tasks /\ Shaped(task[r]) /\ task[r].pc = "create"
  BY TaskOf DEF Create, At
<1>2. CASE Goto(r, "release") /\ UNCHANGED <<orders, placed>>
  <2> DEFINE u == [task[r] EXCEPT !.pc = "release"]
  <2>1. /\ u \in Tasks /\ u.pc = "release" /\ u.kind = task[r].kind /\ u.posted = task[r].posted
        /\ u.order = task[r].order /\ u.snap = task[r].snap
    BY <1>1 DEF Tasks
  <2>2. Become(r, u)
    BY <1>2 DEF Goto
  <2> HIDE DEF u
  <2>3. Shaped(u)
    BY <1>1, <2>1 DEF Shaped, Formed, Callers, Owning
  <2>4. Frame
    BY <1>2, StillFrame DEF Create
  <2> QED
    BY <1>1, <2>1, <2>2, <2>3, <2>4, MoveKept DEF Owning
<1>3. CASE ~(Goto(r, "release") /\ UNCHANGED <<orders, placed>>)
  <2>1. /\ placed < MaxOrders /\ placed' = placed + 1
        /\ orders' = [orders EXCEPT ![placed'] =
                        [pay |-> "awaiting_payment", total |-> Price(task[r]),
                         linked |-> FALSE, coupon |-> TRUE, swept |-> FALSE]]
        /\ Become(r, [task[r] EXCEPT !.pc = "link", !.order = placed'])
        /\ UNCHANGED <<session, kustom, bounds, history>>
    BY <1>3 DEF Create
  <2> QED
    BY <1>1, <2>1, PlaceKept
<1> QED
  BY <1>2, <1>3

\* Linked: the session holds the order, and the validation says so.
LEMMA LinkingKept ==
  ASSUME TypeOK, SessionsInv, NEW r \in Requests, task[r].pc = "link",
         ~Taken(task[r].order), Linking(r), UNCHANGED <<placed, kustom, bounds, history>>
  PROVE  TypeOK' /\ SessionsInv'
<1> DEFINE s == task[r]
           o == s.order
           s0 == [s EXCEPT !.order = 0]
           t == Answering(s0, "checked")
<1>1. /\ s \in Tasks /\ Shaped(s) /\ s.kind = "validation" /\ s.dest \in Dests
      /\ o \in OrderIds /\ o # 0 /\ o \in 0..MaxOrders /\ o =< placed /\ s.snap.order =< placed
      /\ s.snap.status # "ordered"
  BY TaskOf, TaskFields DEF Shaped, Formed, Owning
<1>2. /\ s0 \in Tasks /\ s0.order = 0 /\ s0.snap = s.snap /\ s0.kind = s.kind
      /\ s0.posted = s.posted /\ s0.order =< placed
  BY <1>1, BoundsNat DEF Tasks, TypeOK
<1> HIDE DEF s0
<1>3. /\ t \in Tasks /\ Shaped(t)
      /\ t.pc = "answer" /\ t.kind = "validation" /\ t.posted = s.posted /\ t.order = 0
  <2>1. "checked" \in Verdicts /\ s0.kind \in Callers
    BY <1>1, <1>2 DEF Verdicts, Callers
  <2>2. /\ t.pc = "answer" /\ t.kind = s0.kind /\ t.posted = s0.posted /\ t.order = s0.order
    <3>1. \/ t = Idle /\ s0.kind \notin Callers
          \/ t.pc = "answer" /\ t.kind = s0.kind /\ t.posted = s0.posted /\ t.order = s0.order
      BY <1>2, <2>1, AnswerIsTask
    <3> QED
      BY <2>1, <3>1
  <2>3. s0.snap.order =< placed
    BY <1>1, <1>2
  <2>4. t \in Tasks /\ Shaped(t)
    BY <1>2, <2>1, <2>3, AnswerShaped
  <2> QED
    BY <1>1, <1>2, <2>2, <2>4
<1>4. Become(r, t)
  BY DEF Linking, s0
<1>5. /\ orders' = [orders EXCEPT ![o] = [orders[o] EXCEPT !.linked = TRUE]]
      /\ session' = [session EXCEPT !.status = "ordered", !.order = o,
                        !.dest = s.dest, !.stale = FALSE]
  BY DEF Linking, SetRow, Row
<1> HIDE DEF t
<1>6. /\ task' \in [Requests -> Tasks] /\ task'[r] = t
      /\ \A q \in Requests \ {r} : task'[q] = task[q]
  BY <1>3, <1>4, OneTask
<1>7. /\ orders' \in [OrderIds -> Orders] /\ orders'[o].linked
      /\ orders'[o].coupon = orders[o].coupon /\ orders'[o].pay = orders[o].pay
      /\ orders'[o].swept = orders[o].swept
      /\ \A p \in OrderIds : orders'[p].total = orders[p].total
      /\ \A p \in OrderIds : p # o => orders'[p] = orders[p]
  BY <1>1, <1>5 DEF TypeOK, Orders
<1>8. session' \in Sessions /\ session'.order = o /\ session'.status = "ordered"
  BY <1>1, <1>5 DEF TypeOK, Sessions
<1>9. TypeOK'
  BY <1>6, <1>7, <1>8 DEF TypeOK, bounds, history
<1>10. /\ orders[o].coupon /\ ~orders[o].linked /\ session.order # o
       /\ \A q \in Requests \ {r} : task[q].pc \in Owning => task[q].order # o
  BY <1>1 DEF SessionsInv, OwnInv, Owning, Keeping
<1>11. session.order = 0
  <2>1. session.order \in 0..MaxOrders /\ (session.order # 0 => session.order \in OrderIds)
    BY BoundsNat DEF TypeOK, Sessions, OrderIds
  <2> QED
    BY <1>10, <2>1 DEF Taken, SessionsInv, SessionInv
<1>12. \A q \in Requests : /\ task[q] \in Tasks /\ Shaped(task[q])
                           /\ task[q].pc \in Owning => task[q].order \in OrderIds
  BY TaskOf, TaskFields DEF Shaped, Formed
<1>13. TaskInv'
  BY <1>3, <1>6, <1>12 DEF TaskInv, Shaped, Formed, Price
<1>14. SessionInv'
  BY <1>1, <1>7, <1>8, <1>10 DEF SessionInv
<1>15. OwnInv'
  BY <1>3, <1>6, <1>7, <1>8, <1>10, <1>12 DEF OwnInv, SessionsInv, Owning
<1>16. AwaitInv'
  <2>1. SUFFICES ASSUME ~died, NEW p \in OrderIds, orders'[p].pay = "awaiting_payment", p # o
                 PROVE  \E q \in Requests : task'[q].pc \in Failing /\ task'[q].order = p
    BY <1>8 DEF AwaitInv, history
  <2>2. p # 0
    BY DEF OrderIds
  <2>3. PICK q \in Requests : task[q].pc \in Failing /\ task[q].order = p
    BY <1>7, <1>11, <2>1, <2>2 DEF AwaitInv, SessionsInv
  <2> QED
    BY <1>6, <2>1, <2>3
<1>17. FreedInv'
  <2>1. \A q \in Requests : task[q].pc \in {"coupon", "unlink"} =>
          task'[q] = task[q] /\ task[q].order # o
    BY <1>6, <1>10 DEF Owning
  <2>2. ~died => ~(orders[o].pay = "failed" /\ ~orders[o].swept)
    BY <1>1, <1>10, <2>1 DEF FreedInv, SessionsInv
  <2> QED
    BY <1>7, <2>1, <2>2 DEF FreedInv, SessionsInv, history
<1>18. AskInv'
  BY <1>1, <1>3, <1>6 DEF AskInv, SessionsInv, history
<1>19. AmountInv'
  <2>1. SUFFICES ASSUME ~stray PROVE AmountInv'
    BY DEF AmountInv, history
  <2>2. kustom.waiting = r /\ kustom.approved = "no"
    BY <1>1, <2>1, RequestsFinite DEF SessionsInv, AskInv, Callers
  <2>3. \A q \in Requests \ {r} : task[q].kind # "validation"
    BY <2>1, <2>2 DEF SessionsInv, AskInv, Callers
  <2>4. Agreed'
    BY <1>1, <1>7, <1>8, <2>1 DEF SessionsInv, AmountInv, Agreed
  <2>5. \A q \in Requests \ {r} : task[q].kind = "edit" /\ task[q].pc = "detach"
          => orders'[task[q].order].total # kustom.amount
    BY <1>7, <1>12, <2>1, TaskFields, SMTT(30) DEF SessionsInv, AmountInv, Shaped, Formed
  <2>6. \A q \in Requests \ {r} : task[q].pc # "link"
    BY <1>12, <2>3 DEF Shaped, Formed
  <2> QED
    BY <1>1, <1>3, <1>6, <2>1, <2>3, <2>4, <2>5, <2>6 DEF AmountInv, SessionsInv
<1>20. PaidInv'
  <2>1. ~stray => kustom.waiting = r /\ kustom.status = "incomplete"
    BY <1>1, RequestsFinite DEF SessionsInv, AskInv, Callers
  <2>2. ~stray => /\ \A p \in OrderIds : orders[p].pay # "paid"
                  /\ \A q \in Requests : task[q].pc # "mark"
    BY <2>1 DEF PaidInv, SessionsInv, Settled
  <2> QED
    BY <1>3, <1>6, <1>7, <2>2 DEF PaidInv, history
<1>21. PushInv'
  BY <1>3, <1>6 DEF PushInv, SessionsInv, history
<1> QED
  BY <1>9, <1>13, <1>14, <1>15, <1>16, <1>17, <1>18, <1>19, <1>20, <1>21 DEF SessionsInv

\* A request gives up the order it created, or the one it detached is kept.
LEMMA OwnStepKept ==
  ASSUME TypeOK, SessionsInv, Frame, NEW r \in Requests, NEW t \in Tasks, Shaped(t),
         Become(r, t), t.kind = task[r].kind, t.posted = task[r].posted,
         t.order = task[r].order, t.snap = task[r].snap,
         task[r].pc \in Owning, task[r].pc \in {"coupon", "unlink"} => died',
         t.pc \in {"failRead", "failFlip", "coupon", "restore", "release"},
         t.pc \in Keeping => task[r].pc \in Keeping,
         task[r].pc \in Failing => \/ died'
                                   \/ orders[task[r].order].pay # "awaiting_payment"
                                   \/ t.pc \in Failing
  PROVE  TypeOK' /\ SessionsInv'
<1>1. Aside(r, t)
  BY DEF Aside
<1>2. Knows(r, t)
  BY DEF Knows
<1> QED
  BY <1>1, <1>2, AsideKept

LEMMA ToFailing ==
  ASSUME TypeOK, SessionsInv, Frame, NEW r \in Requests, task[r].pc = "link", Goto(r, "failRead")
  PROVE  TypeOK' /\ SessionsInv'
<1> DEFINE t == [task[r] EXCEPT !.pc = "failRead"]
<1>1. task[r] \in Tasks /\ Shaped(task[r])
  BY TaskOf
<1>2. /\ t \in Tasks /\ t.pc = "failRead" /\ t.kind = task[r].kind /\ t.posted = task[r].posted
      /\ t.order = task[r].order /\ t.snap = task[r].snap
  BY <1>1 DEF Tasks
<1>3. Become(r, t)
  BY DEF Goto
<1> HIDE DEF t
<1>4. Shaped(t)
  BY <1>1, <1>2 DEF Shaped, Formed, Owning, Callers
<1> QED
  BY <1>2, <1>3, <1>4, OwnStepKept DEF Owning, Keeping, Failing

LEMMA LinkKept ==
  ASSUME TypeOK, SessionsInv, NEW r \in Requests, Link(r)
  PROVE  TypeOK' /\ SessionsInv'
<1>1. task[r].pc = "link"
  BY DEF Link, At
<1>2. CASE ~Taken(task[r].order) /\ Linking(r)
  BY <1>1, <1>2, LinkingKept DEF Link
<1>3. CASE Goto(r, "failRead") /\ UNCHANGED <<session, orders>>
  BY <1>1, <1>3, StillFrame, ToFailing DEF Link
<1> QED
  BY <1>2, <1>3 DEF Link

-------------------------------------------------------------------------------
(* The order is detached, failed and given up, or given back.                *)

LEMMA AfterAbandonIs ==
  ASSUME TypeOK, SessionsInv, NEW r \in Requests, task[r].pc \in Owning, NEW failed \in BOOLEAN
  PROVE  \E t \in Tasks :
           /\ t = AfterAbandon(task[r], failed) /\ Shaped(t)
           /\ t.kind = task[r].kind /\ t.posted = task[r].posted
           /\ t.order = task[r].order /\ t.snap = task[r].snap
           /\ t.pc = IF task[r].snap.status = "ordered"
                     THEN IF failed THEN "unlink" ELSE "restore" ELSE "release"
<1> DEFINE t == AfterAbandon(task[r], failed)
<1>1. task[r] \in Tasks /\ Shaped(task[r])
  BY TaskOf
<1>2. /\ t \in Tasks /\ t.kind = task[r].kind /\ t.posted = task[r].posted
      /\ t.order = task[r].order /\ t.snap = task[r].snap
      /\ t.pc = IF task[r].snap.status = "ordered"
                THEN IF failed THEN "unlink" ELSE "restore" ELSE "release"
  <2>1. CASE task[r].snap.status = "ordered"
    BY <1>1, <2>1 DEF AfterAbandon, Tasks
  <2>2. CASE task[r].snap.status # "ordered"
    BY <1>1, <2>2 DEF AfterAbandon, Tasks
  <2> QED
    BY <2>1, <2>2
<1> HIDE DEF t
<1>3. Shaped(t)
  BY <1>1, <1>2 DEF Shaped, Formed, Owning, Callers
<1> QED
  BY <1>2, <1>3 DEF t

LEMMA DetachedIs ==
  ASSUME TypeOK, SessionsInv, NEW r \in Requests, task[r].pc \in Owning \cup {"detach"},
         NEW done \in BOOLEAN
  PROVE  \E t \in Tasks :
           /\ t = Detached(task[r], done) /\ Shaped(t)
           /\ t.pc \in {"idle", "answer", "store"} /\ t.kind \in {"none", task[r].kind}
           /\ t.kind = "validation" => t.posted = task[r].posted /\ t.ok # "checked"
<1> DEFINE s == task[r]
           t == Detached(s, done)
<1>1. /\ s \in Tasks /\ Shaped(s) /\ s.order =< placed /\ s.snap.order =< placed
      /\ s.kind \in Callers \cup {"edit"}
  BY TaskOf DEF Shaped, Formed
<1>2. CASE s.kind = "validation" \/ ~done
  <2>1. PICK ok \in {"no", "unchecked"} : t = Answering(s, ok)
    BY <1>2 DEF Detached
  <2>2. ok \in Verdicts /\ ok # "checked"
    BY DEF Verdicts
  <2>3. t \in Tasks /\ Shaped(t)
    BY <1>1, <2>1, <2>2, AnswerShaped
  <2>4. \/ t = Idle
        \/ t.pc = "answer" /\ t.kind = s.kind /\ t.posted = s.posted /\ t.ok = ok
    BY <1>1, <2>1, <2>2, AnswerIsTask
  <2> QED
    BY <2>2, <2>3, <2>4, IdleIsTask
<1>3. CASE s.kind # "validation" /\ done
  <2>1. t = [s EXCEPT !.pc = "store"]
    BY <1>3 DEF Detached
  <2>2. /\ t \in Tasks /\ t.pc = "store" /\ t.kind = s.kind /\ t.order = s.order
        /\ t.snap = s.snap
    BY <1>1, <2>1 DEF Tasks
  <2> HIDE DEF t
  <2>3. Shaped(t)
    BY <1>1, <1>3, <2>2 DEF Shaped, Formed, Owning, Callers
  <2> QED
    BY <1>3, <2>2, <2>3 DEF t
<1> QED
  BY <1>2, <1>3

\* Nothing to detach, or no order of its own any more.
LEMMA DetachedKept ==
  ASSUME TypeOK, SessionsInv, Frame, NEW r \in Requests, task[r].pc \in Owning \cup {"detach"},
         NEW done \in BOOLEAN, Become(r, Detached(task[r], done)),
         task[r].pc \notin Failing, task[r].pc \in {"coupon", "unlink"} => died'
  PROVE  TypeOK' /\ SessionsInv'
<1>1. PICK t \in Tasks :
           /\ t = Detached(task[r], done) /\ Shaped(t)
           /\ t.pc \in {"idle", "answer", "store"} /\ t.kind \in {"none", task[r].kind}
           /\ t.kind = "validation" => t.posted = task[r].posted /\ t.ok # "checked"
  BY DetachedIs
<1>2. Aside(r, t)
  BY <1>1 DEF Aside, Owning
<1>3. Knows(r, t)
  BY <1>1 DEF Knows
<1> QED
  BY <1>2, <1>3, AsideKept

LEMMA TakeAwayKept ==
  ASSUME TypeOK, SessionsInv, NEW r \in Requests, task[r].pc = "detach",
         session.status = "ordered", session.order = task[r].order,
         session' = [session EXCEPT !.status = "open", !.order = 0], Goto(r, "failRead"),
         UNCHANGED <<orders, placed, kustom, bounds, history>>
  PROVE  TypeOK' /\ SessionsInv'
<1> DEFINE s == task[r]
           o == s.order
           t == [s EXCEPT !.pc = "failRead"]
<1>1. /\ s \in Tasks /\ Shaped(s) /\ s.snap.status = "ordered" /\ s.kind \in Callers \cup {"edit"}
      /\ o \in OrderIds /\ o # 0
  BY TaskOf, TaskFields DEF Shaped, Formed
<1>2. /\ t \in Tasks /\ t.pc = "failRead" /\ t.kind = s.kind /\ t.order = o /\ t.snap = s.snap
      /\ t.posted = s.posted
  BY <1>1 DEF Tasks
<1>3. Become(r, t)
  BY DEF Goto
<1> HIDE DEF t
<1>4. /\ task' \in [Requests -> Tasks] /\ task'[r] = t
      /\ \A q \in Requests \ {r} : task'[q] = task[q]
  BY <1>2, <1>3, OneTask
<1>5. session' \in Sessions /\ session'.order = 0 /\ session'.status = "open"
  <2>1. 0 \in 0..MaxOrders
    BY BoundsNat
  <2> QED
    BY <2>1 DEF TypeOK, Sessions
<1>6. TypeOK'
  BY <1>4, <1>5 DEF TypeOK, bounds, history
<1>7. \A q \in Requests : Shaped(task[q]) /\ (task[q].pc \in Owning => task[q].order # 0)
  BY TaskOf DEF Shaped, Formed
<1>8. TaskInv'
  BY <1>1, <1>2, <1>4, <1>7 DEF TaskInv, Shaped, Formed, Price, Owning
<1>9. SessionInv'
  BY <1>5 DEF SessionInv, TypeOK
<1>10. OwnInv'
  <2>1. orders[o].linked /\ orders[o].coupon
    BY <1>1 DEF SessionsInv, SessionInv
  <2>2. \A q \in Requests : task[q].pc \in Owning => task[q].order # o
    BY DEF SessionsInv, OwnInv
  <2> QED
    BY <1>1, <1>2, <1>4, <1>5, <1>7, <2>1, <2>2 DEF OwnInv, SessionsInv
<1>11. AwaitInv'
  <2>1. SUFFICES ASSUME ~died, NEW p \in OrderIds, orders[p].pay = "awaiting_payment"
                 PROVE  \E q \in Requests : task'[q].pc \in Failing /\ task'[q].order = p
    BY DEF AwaitInv, history
  <2>2. CASE p = o
    BY <1>2, <1>4, <2>2 DEF Failing
  <2>3. CASE p # o
    <3>1. PICK q \in Requests : task[q].pc \in Failing /\ task[q].order = p
      BY <2>1, <2>3 DEF AwaitInv, SessionsInv
    <3>2. q # r
      BY <3>1 DEF Failing
    <3> QED
      BY <1>4, <3>1, <3>2
  <2> QED
    BY <2>2, <2>3
<1>12. FreedInv'
  <2>1. \A q \in Requests : task[q].pc \in {"coupon", "unlink"} => task'[q] = task[q]
    BY <1>4
  <2> QED
    BY <2>1 DEF FreedInv, SessionsInv, history
<1>13. AskInv'
  BY <1>2, <1>4 DEF AskInv, SessionsInv, history
<1>14. ~stray => \/ kustom.waiting = r /\ s.kind \in Callers
                 \/ s.kind = "edit" /\ orders[o].total # kustom.amount
  BY <1>1 DEF SessionsInv, AskInv, AmountInv, Callers
<1>15. AmountInv'
  <2>1. SUFFICES ASSUME ~stray PROVE AmountInv'
    BY DEF AmountInv, history
  <2>2. CASE kustom.waiting = r /\ s.kind \in Callers
    <3>1. kustom.approved = "no"
      BY <2>2, RequestsFinite DEF SessionsInv, AskInv
    <3>2. \A q \in Requests \ {r} : task[q].kind # "validation" /\ task[q].pc # "link"
      BY <1>7, <2>1, <2>2 DEF SessionsInv, AskInv, Callers, Shaped, Formed
    <3> QED
      BY <1>2, <1>4, <2>1, <2>2, <3>1, <3>2 DEF AmountInv, SessionsInv, Callers
  <2>3. CASE s.kind = "edit" /\ orders[o].total # kustom.amount
    <3>1. ~Agreed
      BY <2>3 DEF Agreed
    <3>2. \A q \in Requests : task[q].kind = "validation" /\ task[q].pc = "pending" =>
            orders[task[q].snap.order].total # kustom.amount
      BY <2>1, <2>3 DEF AmountInv, SessionsInv
    <3> QED
      BY <1>2, <1>4, <2>1, <2>3, <3>1, <3>2 DEF AmountInv, SessionsInv
  <2> QED
    BY <1>14, <2>1, <2>2, <2>3
<1>16. PaidInv'
  <2>1. SUFFICES ASSUME ~stray PROVE PaidInv'
    BY DEF PaidInv, history
  <2>2. \A p : ~Settled(p)
    BY <1>14, <2>1, RequestsFinite DEF Settled, SessionsInv, AskInv
  <2> QED
    BY <1>2, <1>4, <2>1, <2>2 DEF PaidInv, SessionsInv
<1>17. PushInv'
  BY <1>2, <1>4 DEF PushInv, SessionsInv, history
<1> QED
  BY <1>6, <1>8, <1>9, <1>10, <1>11, <1>12, <1>13, <1>15, <1>16, <1>17 DEF SessionsInv

LEMMA DetachKept ==
  ASSUME TypeOK, SessionsInv, NEW r \in Requests, Detach(r)
  PROVE  TypeOK' /\ SessionsInv'
<1>1. task[r].pc = "detach"
  BY DEF Detach, At
<1>2. CASE session.status = "ordered" /\ session.order = task[r].order
  BY <1>1, <1>2, TakeAwayKept DEF Detach
<1>3. CASE ~(session.status = "ordered" /\ session.order = task[r].order)
  BY <1>1, <1>3, StillFrame, DetachedKept DEF Detach, Failing
<1> QED
  BY <1>2, <1>3

\* A request writes the order it answers for.
LEMMA OwnWriteKept ==
  ASSUME TypeOK, SessionsInv, NEW r \in Requests, task[r].pc \in Owning,
         NEW o \in OrderIds, o = task[r].order,
         NEW x \in Orders, orders' = [orders EXCEPT ![o] = x], x.total = orders[o].total,
         x.pay = orders[o].pay \/ x.pay = "failed",
         x.pay = "awaiting_payment" => task[r].pc \notin Failing,
         NEW t \in Tasks, Shaped(t), Become(r, t), Knows(r, t), t.pc # "link",
         t.kind \in {"none", task[r].kind},
         t.pc \in Owning => /\ t.order = o
                            /\ x.linked <=> t.snap.status = "ordered"
                            /\ t.pc \in Keeping => x.coupon,
         x.pay = "failed" /\ ~x.swept /\ ~died =>
           \/ ~x.coupon /\ ~x.linked
           \/ t.order = o /\ t.pc = "coupon"
           \/ t.order = o /\ t.pc = "unlink" /\ ~x.coupon,
         UNCHANGED <<session, placed, kustom, bounds, history>>
  PROVE  TypeOK' /\ SessionsInv'
<1>1. /\ task' \in [Requests -> Tasks] /\ task'[r] = t
      /\ \A q \in Requests \ {r} : task'[q] = task[q]
  BY OneTask
<1>2. /\ orders' \in [OrderIds -> Orders] /\ orders'[o] = x
      /\ \A p \in OrderIds : p # o => orders'[p] = orders[p]
  BY DEF TypeOK
<1>3. TypeOK'
  BY <1>1, <1>2 DEF TypeOK, bounds, history
<1>4. /\ session.order # o
      /\ \A q \in Requests \ {r} : task[q].pc \in Owning => task[q].order # o
  BY DEF SessionsInv, OwnInv
<1>5. \A q \in Requests : /\ Shaped(task[q])
                          /\ task[q].pc \in Owning => task[q].order \in OrderIds
  BY TaskOf, TaskFields DEF Shaped, Formed
<1>6. session.order # 0 => session.order \in OrderIds
  BY BoundsNat DEF TypeOK, Sessions, OrderIds
<1>7. TaskInv'
  BY <1>1, <1>5 DEF TaskInv, Shaped, Formed, Price
<1>8. SessionInv'
  BY <1>2, <1>4, <1>6 DEF SessionInv, SessionsInv
<1>9. OwnInv'
  BY <1>1, <1>2, <1>4, <1>5 DEF OwnInv, SessionsInv
<1>10. AwaitInv'
  <2>1. SUFFICES ASSUME ~died, NEW p \in OrderIds, orders'[p].pay = "awaiting_payment",
                        session.order # p
                 PROVE  \E q \in Requests : task'[q].pc \in Failing /\ task'[q].order = p
    BY DEF AwaitInv, history
  <2>2. orders[p].pay = "awaiting_payment"
    BY <1>2, <2>1
  <2>3. PICK q \in Requests : task[q].pc \in Failing /\ task[q].order = p
    BY <2>1, <2>2 DEF AwaitInv, SessionsInv
  <2>4. q # r
    BY <1>2, <2>1, <2>3
  <2> QED
    BY <1>1, <2>3, <2>4
<1>11. FreedInv'
  <2>1. SUFFICES ASSUME ~died, NEW p \in OrderIds,
                        orders'[p].pay = "failed", ~orders'[p].swept
                 PROVE  \/ ~orders'[p].coupon /\ ~orders'[p].linked
                        \/ \E q \in Requests : task'[q].order = p /\ task'[q].pc = "coupon"
                        \/ \E q \in Requests : /\ task'[q].order = p /\ task'[q].pc = "unlink"
                                               /\ ~orders'[p].coupon
    BY DEF FreedInv, history
  <2>2. CASE p = o
    BY <1>1, <1>2, <2>1, <2>2
  <2>3. CASE p # o
    <3>1. orders'[p] = orders[p]
      BY <1>2, <2>3
    <3>2. \A q \in Requests : task[q].order = p => task'[q] = task[q]
      BY <1>1, <2>3
    <3> QED
      BY <2>1, <3>1, <3>2 DEF FreedInv, SessionsInv
  <2> QED
    BY <2>2, <2>3
<1>12. AskInv' /\ AmountInv' /\ PaidInv'
  <2>1. Totals
    BY <1>2 DEF Totals
  <2>2. Money
    BY DEF Money, SessionsInv, AskInv
  <2> QED
    BY <2>1, <2>2, KeepsAmounts DEF history
<1>13. PushInv'
  BY <1>1 DEF PushInv, SessionsInv, history
<1> QED
  BY <1>3, <1>7, <1>8, <1>9, <1>10, <1>11, <1>12, <1>13 DEF SessionsInv

LEMMA OwnOrder ==
  ASSUME TypeOK, SessionsInv, NEW r \in Requests, task[r].pc \in Owning
  PROVE  /\ task[r].order \in OrderIds /\ Row(r) \in Orders /\ Row(r) = orders[task[r].order]
         /\ Row(r).linked <=> task[r].snap.status = "ordered"
         /\ task[r].kind \in Callers \cup {"edit"}
<1>1. task[r].order \in OrderIds /\ task[r].kind \in Callers \cup {"edit"}
  BY TaskOf, TaskFields DEF Shaped, Formed
<1> QED
  BY <1>1 DEF Row, TypeOK, SessionsInv, OwnInv

\* Kept at a step where markOrderFailed found it settled, or threw.
LEMMA KeptOrder ==
  ASSUME TypeOK, SessionsInv, Frame, NEW r \in Requests, task[r].pc \in {"failRead", "failFlip"},
         died' \/ Row(r).pay # "awaiting_payment", Become(r, AfterAbandon(task[r], FALSE))
  PROVE  TypeOK' /\ SessionsInv'
<1>1. task[r].pc \in Owning /\ task[r].pc \in Keeping
  BY DEF Owning, Keeping
<1>2. PICK t \in Tasks :
           /\ t = AfterAbandon(task[r], FALSE) /\ Shaped(t)
           /\ t.kind = task[r].kind /\ t.posted = task[r].posted
           /\ t.order = task[r].order /\ t.snap = task[r].snap
           /\ t.pc = IF task[r].snap.status = "ordered"
                     THEN IF FALSE THEN "unlink" ELSE "restore" ELSE "release"
  BY <1>1, AfterAbandonIs
<1> QED
  BY <1>1, <1>2, OwnStepKept DEF Row

LEMMA FailReadKept ==
  ASSUME TypeOK, SessionsInv, NEW r \in Requests, FailRead(r)
  PROVE  TypeOK' /\ SessionsInv'
<1>1. task[r].pc = "failRead" /\ task[r] \in Tasks /\ Shaped(task[r])
  BY TaskOf DEF FailRead, At
<1>2. Frame
  BY StillFrame DEF FailRead
<1>3. CASE Row(r).pay = "paid"
  BY <1>1, <1>2, <1>3, KeptOrder DEF FailRead
<1>4. CASE Row(r).pay # "paid"
  <2> DEFINE pc == IF Row(r).pay = "failed" THEN "coupon" ELSE "failFlip"
             t == [task[r] EXCEPT !.pc = pc]
  <2>1. pc \in {"coupon", "failFlip"} /\ (pc = "coupon" => Row(r).pay = "failed")
    OBVIOUS
  <2>2. Become(r, t)
    BY <1>4 DEF FailRead
  <2> HIDE DEF pc
  <2>3. /\ t \in Tasks /\ t.pc = pc /\ t.kind = task[r].kind /\ t.posted = task[r].posted
        /\ t.order = task[r].order /\ t.snap = task[r].snap
    BY <1>1, <2>1 DEF Tasks
  <2> HIDE DEF t
  <2>4. Shaped(t)
    BY <1>1, <2>1, <2>3 DEF Shaped, Formed, Owning, Callers
  <2> QED
    BY <1>1, <1>2, <2>1, <2>2, <2>3, <2>4, OwnStepKept DEF Owning, Keeping, Failing, Row
<1> QED
  BY <1>3, <1>4

LEMMA FailFlipKept ==
  ASSUME TypeOK, SessionsInv, NEW r \in Requests, FailFlip(r)
  PROVE  TypeOK' /\ SessionsInv'
<1>1. task[r].pc = "failFlip" /\ task[r].pc \in Owning /\ task[r] \in Tasks /\ Shaped(task[r])
  BY TaskOf DEF FailFlip, At, Owning
<1>2. CASE Row(r).pay = "awaiting_payment"
  <2> DEFINE x == [Row(r) EXCEPT !.pay = "failed"]
             t == [task[r] EXCEPT !.pc = "coupon"]
  <2>1. /\ task[r].order \in OrderIds /\ Row(r) \in Orders /\ Row(r) = orders[task[r].order]
        /\ Row(r).linked <=> task[r].snap.status = "ordered"
    BY <1>1, OwnOrder
  <2>2. x \in Orders /\ x.total = Row(r).total /\ x.pay = "failed" /\ x.linked = Row(r).linked
    BY <2>1 DEF Orders
  <2>3. orders' = [orders EXCEPT ![task[r].order] = x] /\ Become(r, t)
    BY <1>2 DEF FailFlip, SetRow, Goto
  <2>4. /\ t \in Tasks /\ t.pc = "coupon" /\ t.kind = task[r].kind /\ t.posted = task[r].posted
        /\ t.order = task[r].order /\ t.snap = task[r].snap
    BY <1>1 DEF Tasks
  <2> HIDE DEF t, x
  <2>5. Shaped(t) /\ Knows(r, t)
    BY <1>1, <2>4 DEF Shaped, Formed, Owning, Callers, Knows
  <2>6. UNCHANGED <<session, placed, kustom, bounds, history>>
    BY DEF FailFlip
  <2>7. /\ t.pc \in Owning => x.linked <=> t.snap.status = "ordered"
        /\ t.pc \notin Keeping /\ t.pc # "link" /\ x.pay # "awaiting_payment"
    BY <2>1, <2>2, <2>4 DEF Keeping
  <2> QED
    BY <1>1, <2>1, <2>2, <2>3, <2>4, <2>5, <2>6, <2>7, OwnWriteKept
<1>3. CASE Row(r).pay # "awaiting_payment"
  <2>1. Frame /\ Become(r, AfterAbandon(task[r], FALSE))
    BY <1>3, StillFrame DEF FailFlip
  <2> QED
    BY <1>1, <1>3, <2>1, KeptOrder
<1> QED
  BY <1>2, <1>3

LEMMA FreeCouponKept ==
  ASSUME TypeOK, SessionsInv, NEW r \in Requests, FreeCoupon(r)
  PROVE  TypeOK' /\ SessionsInv'
<1>1. task[r].pc = "coupon" /\ task[r].pc \in Owning /\ task[r].pc \notin Failing
  BY DEF FreeCoupon, At, Owning, Failing
<1> DEFINE x == [Row(r) EXCEPT !.coupon = FALSE]
<1>2. /\ task[r].order \in OrderIds /\ Row(r) \in Orders /\ Row(r) = orders[task[r].order]
      /\ Row(r).linked <=> task[r].snap.status = "ordered"
  BY <1>1, OwnOrder
<1>3. /\ x \in Orders /\ x.total = Row(r).total /\ x.pay = Row(r).pay
      /\ x.linked = Row(r).linked /\ ~x.coupon
  BY <1>2 DEF Orders
<1>4. orders' = [orders EXCEPT ![task[r].order] = x] /\ Become(r, AfterAbandon(task[r], TRUE))
  BY DEF FreeCoupon, SetRow
<1> HIDE DEF x
<1>5. PICK t \in Tasks :
           /\ t = AfterAbandon(task[r], TRUE) /\ Shaped(t)
           /\ t.kind = task[r].kind /\ t.posted = task[r].posted
           /\ t.order = task[r].order /\ t.snap = task[r].snap
           /\ t.pc = IF task[r].snap.status = "ordered"
                     THEN IF TRUE THEN "unlink" ELSE "restore" ELSE "release"
  BY <1>1, AfterAbandonIs
<1>6. Become(r, t) /\ Knows(r, t)
  BY <1>4, <1>5 DEF Knows
<1>7. UNCHANGED <<session, placed, kustom, bounds, history>>
  BY DEF FreeCoupon
<1>8. /\ t.pc \in Owning => x.linked <=> t.snap.status = "ordered"
      /\ t.pc \notin Keeping /\ t.pc # "link"
      /\ t.pc = "unlink" \/ ~x.linked
  BY <1>2, <1>3, <1>5 DEF Owning, Keeping
<1> QED
  BY <1>1, <1>2, <1>3, <1>4, <1>5, <1>6, <1>7, <1>8, OwnWriteKept

LEMMA UnlinkKept ==
  ASSUME TypeOK, SessionsInv, NEW r \in Requests, Unlink(r)
  PROVE  TypeOK' /\ SessionsInv'
<1>1. task[r].pc = "unlink" /\ task[r].pc \in Owning /\ task[r].pc \notin Failing
  BY DEF Unlink, At, Owning, Failing
<1> DEFINE o == task[r].order
           x == [Row(r) EXCEPT !.linked = @ /\ Row(r).pay # "failed"]
<1>2. o \in OrderIds /\ Row(r) \in Orders /\ Row(r) = orders[o]
  BY <1>1, OwnOrder
<1>3. /\ x \in Orders /\ x.total = Row(r).total /\ x.pay = Row(r).pay
      /\ x.coupon = Row(r).coupon /\ x.swept = Row(r).swept
      /\ x.pay = "failed" => ~x.linked
  BY <1>2 DEF Orders
<1>4. orders' = [orders EXCEPT ![o] = x] /\ Become(r, Detached(task[r], TRUE))
  BY DEF Unlink, SetRow
<1> HIDE DEF x
<1>5. PICK t \in Tasks :
           /\ t = Detached(task[r], TRUE) /\ Shaped(t)
           /\ t.pc \in {"idle", "answer", "store"} /\ t.kind \in {"none", task[r].kind}
           /\ t.kind = "validation" => t.posted = task[r].posted /\ t.ok # "checked"
  BY <1>1, DetachedIs
<1>6. Become(r, t) /\ Knows(r, t)
  BY <1>4, <1>5 DEF Knows
<1>7. UNCHANGED <<session, placed, kustom, bounds, history>>
  BY DEF Unlink
<1>8. x.pay = "failed" /\ ~x.swept /\ ~died => ~x.coupon
  <2>1. \A q \in Requests : task[q].pc = "coupon" => task[q].order # o
    BY <1>1 DEF SessionsInv, OwnInv, Owning
  <2> QED
    BY <1>2, <1>3, <2>1 DEF SessionsInv, FreedInv
<1>9. t.pc \notin Owning /\ t.pc # "link"
  BY <1>5 DEF Owning
<1> QED
  BY <1>1, <1>2, <1>3, <1>4, <1>5, <1>6, <1>7, <1>8, <1>9, OwnWriteKept

LEMMA GiveBackKept ==
  ASSUME TypeOK, SessionsInv, NEW r \in Requests, task[r].pc = "restore",
         session.status = "open", session.order = 0,
         session' = [session EXCEPT !.status = "ordered", !.order = task[r].order],
         Become(r, Detached(task[r], FALSE)),
         UNCHANGED <<orders, placed, kustom, bounds, history>>
  PROVE  TypeOK' /\ SessionsInv'
<1> DEFINE s == task[r]
           o == s.order
<1>1. /\ s \in Tasks /\ Shaped(s) /\ s.snap.status = "ordered"
      /\ o \in OrderIds /\ o # 0 /\ o \in 0..MaxOrders /\ o =< placed
      /\ s.pc \in Owning /\ s.pc \in Keeping /\ s.pc \notin Failing
  BY TaskOf, TaskFields DEF Shaped, Formed, Owning, Keeping, Failing
<1>2. PICK t \in Tasks :
           /\ Become(r, t) /\ Shaped(t)
           /\ t.pc \in {"idle", "answer", "store"} /\ t.kind \in {"none", s.kind}
           /\ t.kind = "validation" => t.posted = s.posted /\ t.ok # "checked"
  BY <1>1, DetachedIs
<1>3. /\ task' \in [Requests -> Tasks] /\ task'[r] = t
      /\ \A q \in Requests \ {r} : task'[q] = task[q]
  BY <1>2, OneTask
<1>4. session' \in Sessions /\ session'.order = o /\ session'.status = "ordered"
  BY <1>1 DEF TypeOK, Sessions
<1>5. TypeOK'
  BY <1>3, <1>4 DEF TypeOK, bounds, history
<1>6. /\ orders[o].linked /\ orders[o].coupon
      /\ \A q \in Requests \ {r} : task[q].pc \in Owning => task[q].order # o
  BY <1>1 DEF SessionsInv, OwnInv
<1>7. \A q \in Requests : Shaped(task[q])
  BY TaskOf
<1>8. TaskInv'
  BY <1>2, <1>3, <1>7 DEF TaskInv, Shaped, Formed, Price
<1>9. SessionInv'
  BY <1>1, <1>4, <1>6 DEF SessionInv
<1>10. t.pc \notin Owning
  BY <1>2 DEF Owning
<1>11. OwnInv'
  BY <1>3, <1>4, <1>6, <1>10 DEF OwnInv, SessionsInv
<1>12. AwaitInv'
  <2>1. SUFFICES ASSUME ~died, NEW p \in OrderIds, orders[p].pay = "awaiting_payment"
                 PROVE  \E q \in Requests : task'[q].pc \in Failing /\ task'[q].order = p
    BY DEF AwaitInv, history
  <2>2. p # 0
    BY DEF OrderIds
  <2>3. PICK q \in Requests : task[q].pc \in Failing /\ task[q].order = p
    BY <2>1, <2>2 DEF AwaitInv, SessionsInv
  <2> QED
    BY <1>1, <1>3, <2>3
<1>13. FreedInv'
  <2>1. \A q \in Requests : task[q].pc \in {"coupon", "unlink"} => task'[q] = task[q]
    BY <1>3
  <2> QED
    BY <2>1 DEF FreedInv, SessionsInv, history
<1>14. AskInv'
  BY <1>2, <1>3 DEF AskInv, SessionsInv, history, Callers
<1>15. AmountInv'
  <2>1. SUFFICES ASSUME ~stray PROVE AmountInv'
    BY DEF AmountInv, history
  <2>2. ~Agreed
    BY DEF Agreed
  <2>3. \A q \in Requests : task[q].kind = "validation" /\ task[q].pc = "pending" =>
          orders[task[q].snap.order].total # kustom.amount
    BY <1>7, <2>1 DEF AmountInv, SessionsInv, Shaped, Formed
  <2> QED
    BY <1>2, <1>3, <2>1, <2>2, <2>3 DEF AmountInv, SessionsInv
<1>16. PaidInv'
  <2>1. SUFFICES ASSUME ~stray PROVE PaidInv'
    BY DEF PaidInv, history
  <2>2. \A p : p # 0 => ~Settled(p)
    BY DEF Settled
  <2>3. /\ \A p \in OrderIds : orders[p].pay # "paid"
        /\ \A q \in Requests : task[q].pc # "mark"
    BY <1>7, <2>1, <2>2 DEF PaidInv, SessionsInv, OrderIds, Shaped, Formed
  <2> QED
    BY <1>2, <1>3, <2>1, <2>3 DEF PaidInv
<1>17. PushInv'
  BY <1>2, <1>3 DEF PushInv, SessionsInv, history
<1> QED
  BY <1>5, <1>8, <1>9, <1>11, <1>12, <1>13, <1>14, <1>15, <1>16, <1>17 DEF SessionsInv

LEMMA RestoreKept ==
  ASSUME TypeOK, SessionsInv, NEW r \in Requests, Restore(r)
  PROVE  TypeOK' /\ SessionsInv'
<1>1. task[r].pc = "restore"
  BY DEF Restore, At
<1>2. CASE session.status = "open" /\ session.order = 0
  BY <1>1, <1>2, GiveBackKept DEF Restore
<1>3. CASE ~(session.status = "open" /\ session.order = 0)
  BY <1>1, <1>3, StillFrame, DetachedKept DEF Restore, Failing, Owning
<1> QED
  BY <1>2, <1>3

-------------------------------------------------------------------------------
(* Answers, the push and failures.                                           *)

LEMMA AnswerKept ==
  ASSUME TypeOK, SessionsInv, NEW r \in Requests, Answer(r)
  PROVE  TypeOK' /\ SessionsInv'
<1> DEFINE s == task[r]
<1>1. /\ s \in Tasks /\ Shaped(s) /\ s.pc = "answer" /\ s.kind \in Callers
      /\ s.ok \in Verdicts /\ Price(s) \in Amounts
  BY TaskOf, TaskFields DEF Answer, At, Shaped, Formed
<1>2. Become(r, Idle) /\ UNCHANGED <<session, orders, placed, bounds, died>>
      /\ stray' = (stray \/ (kustom.waiting = r /\ HandsBack(s)))
  BY DEF Answer
<1>3. CASE kustom.waiting # r
  <2>1. UNCHANGED kustom /\ stray' = stray
    BY <1>2, <1>3 DEF Answer, TypeOK
  <2> QED
    BY <1>1, <1>2, <2>1, StillFrame, IdleKept DEF history, Failing
<1>4. CASE kustom.waiting = r
  <2>1. kustom' = IF s.kind = "validation"
                  THEN [kustom EXCEPT !.waiting = None, !.approved = s.ok]
                  ELSE [kustom EXCEPT !.waiting = None,
                          !.amount = IF s.ok = "no" THEN @ ELSE Price(s)]
    BY <1>4 DEF Answer
  <2>2. /\ kustom' \in Checkouts /\ kustom'.waiting = None /\ kustom'.status = kustom.status
        /\ s.kind = "validation" => kustom'.approved = s.ok /\ kustom'.amount = kustom.amount
        /\ s.kind = "callback" => /\ kustom'.approved = kustom.approved
                                  /\ kustom'.amount = IF s.ok = "no" THEN kustom.amount ELSE Price(s)
    BY <1>1, <2>1 DEF TypeOK, Checkouts
  <2>3. Aside(r, Idle)
    BY <1>1, <1>2, IdleIsTask, IdleShaped DEF Aside, Owning, Failing
  <2>4. Rows
    BY <1>2, <2>2 DEF Rows, TypeOK, bounds
  <2>5. TypeOK' /\ TaskInv' /\ SessionInv' /\ OwnInv' /\ PushInv' /\ AwaitInv' /\ FreedInv'
    BY <2>3, <2>4, AsideTyped, AsideKeepsTasks, AsideKeepsOrders
  <2>6. task'[r] = Idle /\ \A q \in Requests \ {r} : task'[q] = task[q]
    BY <1>2, IdleIsTask, OneTask
  <2>7. kustom.approved = "no" /\ kustom.status = "incomplete"
    BY <1>4, RequestsFinite DEF SessionsInv, AskInv
  <2>8. CASE stray'
    BY <2>2, <2>5, <2>8 DEF SessionsInv, AskInv, AmountInv, PaidInv
  <2>9. CASE ~stray'
    <3>1. ~stray /\ ~HandsBack(s)
      BY <1>2, <1>4, <2>9
    <3>2. \A q \in Requests \ {r} : task[q].kind \notin Callers /\ task[q].pc # "link"
      BY <1>4, <3>1, TaskOf DEF SessionsInv, AskInv, Shaped, Formed, Callers
    <3>3. AskInv'
      BY <2>2, <2>6, <3>1, <3>2, IdleIsTask DEF AskInv, SessionsInv, Callers
    <3>4. \A q \in Requests : task[q].kind = "edit" /\ task[q].pc = "detach"
            => orders[task[q].order].total # kustom'.amount
      <4>1. CASE s.kind = "callback" /\ s.ok # "no"
        BY <2>2, <3>1, <4>1 DEF HandsBack, At
      <4>2. CASE ~(s.kind = "callback" /\ s.ok # "no")
        BY <1>1, <2>2, <3>1, <4>2 DEF SessionsInv, AmountInv, Callers
      <4> QED
        BY <4>1, <4>2
    <3>5. kustom'.approved = "checked" => Agreed'
      <4>1. CASE s.kind = "validation" /\ s.ok = "checked"
        <5>1. Agreed
          BY <1>1, <3>1, <4>1 DEF SessionsInv, AmountInv
        <5> QED
          BY <1>2, <2>2, <4>1, <5>1 DEF Agreed
      <4>2. CASE ~(s.kind = "validation" /\ s.ok = "checked")
        BY <1>1, <2>2, <2>7, <4>2 DEF Callers
      <4> QED
        BY <4>1, <4>2
    <3>6. AmountInv'
      BY <1>2, <2>6, <3>2, <3>4, <3>5, IdleIsTask DEF AmountInv, Callers
    <3>7. PaidInv'
      BY <1>2, <2>6, <2>7, <3>1, IdleIsTask DEF PaidInv, SessionsInv, Settled
    <3> QED
      BY <2>5, <3>3, <3>6, <3>7 DEF SessionsInv
  <2> QED
    BY <2>8, <2>9
<1> QED
  BY <1>3, <1>4

LEMMA VerifyKept ==
  ASSUME TypeOK, SessionsInv, NEW r \in Requests, Verify(r)
  PROVE  TypeOK' /\ SessionsInv'
<1> DEFINE s == task[r]
           o == s.order
<1>1. /\ s \in Tasks /\ Shaped(s) /\ s.pc = "verify" /\ s.kind = "push"
      /\ o # 0 /\ o \in OrderIds
  BY TaskOf, TaskFields DEF Verify, At, Shaped, Formed
<1>2. s.pc \notin Failing /\ s.pc \notin Owning
  BY <1>1 DEF Failing, Owning
<1>3. CASE Become(r, Idle) /\ UNCHANGED kustom
  BY <1>1, <1>2, <1>3, StillFrame, IdleKept DEF Verify
<1>4. CASE /\ session.order = o /\ orders[o].total = kustom.amount
           /\ Goto(r, "mark") /\ UNCHANGED kustom
  <2> DEFINE t == [s EXCEPT !.pc = "mark"]
  <2>1. t \in Tasks /\ t.pc = "mark" /\ t.kind = "push" /\ t.order = o /\ t.snap = s.snap
    BY <1>1 DEF Tasks
  <2>2. Become(r, t)
    BY <1>4 DEF Goto
  <2> HIDE DEF t
  <2>3. Shaped(t)
    BY <1>1, <2>1 DEF Shaped, Formed, Owning
  <2>4. Frame /\ stray' = stray
    BY <1>4, StillFrame DEF Verify, history
  <2>5. Aside(r, t)
    BY <1>2, <2>1, <2>2, <2>3, <1>1 DEF Aside, Owning
  <2>6. Knows(r, t)
    BY <1>1, <1>4, <2>1, <2>4 DEF Knows, Settled, SessionsInv, PushInv
  <2> QED
    BY <2>4, <2>5, <2>6, AsideKept
<1>5. CASE Become(r, Idle) /\ kustom' = [kustom EXCEPT !.status = "done"]
  <2>1. kustom.status # "incomplete"
    BY <1>1 DEF SessionsInv, PushInv
  <2>2. Frame
    BY <1>5, <2>1 DEF Verify, Frame, Rows, Money, TypeOK, Checkouts, SessionsInv, AskInv, bounds, history
  <2> QED
    BY <1>2, <1>5, <2>2, <1>1, IdleKept
<1> QED
  BY <1>3, <1>4, <1>5 DEF Verify

LEMMA MarkKept ==
  ASSUME TypeOK, SessionsInv, NEW r \in Requests, Mark(r)
  PROVE  TypeOK' /\ SessionsInv'
<1> DEFINE s == task[r]
           o == s.order
           x == [Row(r) EXCEPT !.pay = "paid"]
<1>1. /\ s \in Tasks /\ Shaped(s) /\ s.pc = "mark" /\ s.kind = "push"
      /\ o # 0 /\ o \in OrderIds /\ Row(r) = orders[o] /\ Row(r) \in Orders
  BY TaskOf, TaskFields DEF Mark, At, Shaped, Formed, Row, TypeOK
<1>2. /\ x \in Orders /\ x.pay = "paid" /\ x.total = orders[o].total
      /\ x.linked = orders[o].linked /\ x.coupon = orders[o].coupon
  BY <1>1 DEF Orders
<1>3. /\ orders' = [orders EXCEPT ![o] = x] /\ kustom' = [kustom EXCEPT !.status = "done"]
      /\ Become(r, Idle) /\ UNCHANGED <<session, placed, bounds, history>>
  BY DEF Mark, SetRow
<1> HIDE DEF x
<1>4. /\ orders' \in [OrderIds -> Orders] /\ orders'[o] = x
      /\ \A p \in OrderIds : p # o => orders'[p] = orders[p]
  BY <1>1, <1>2, <1>3 DEF TypeOK
<1>5. /\ task' \in [Requests -> Tasks] /\ task'[r] = Idle
      /\ \A q \in Requests \ {r} : task'[q] = task[q]
  BY <1>3, IdleIsTask, OneTask
<1>6. /\ kustom' \in Checkouts /\ kustom'.status = "done" /\ kustom'.amount = kustom.amount
      /\ kustom'.approved = kustom.approved /\ kustom'.waiting = kustom.waiting
  BY <1>3 DEF TypeOK, Checkouts
<1>7. TypeOK'
  BY <1>3, <1>4, <1>5, <1>6 DEF TypeOK, bounds, history
<1>8. \A q \in Requests : /\ Shaped(task[q])
                          /\ task[q].pc \in Owning => task[q].order \in OrderIds
  BY TaskOf, TaskFields DEF Shaped, Formed
<1>9. session.order # 0 => session.order \in OrderIds
  BY BoundsNat DEF TypeOK, Sessions, OrderIds
<1>10. Shaped(Idle) /\ Idle.pc = "idle" /\ Idle.kind = "none"
  BY IdleIsTask, IdleShaped
<1>11. TaskInv'
  BY <1>3, <1>5, <1>8, <1>10 DEF TaskInv, Shaped, Formed, Price
<1>12. SessionInv'
  BY <1>2, <1>3, <1>4, <1>9 DEF SessionInv, SessionsInv
<1>13. OwnInv'
  <2>1. \A p \in OrderIds : /\ orders'[p].linked = orders[p].linked
                            /\ orders'[p].coupon = orders[p].coupon
    BY <1>2, <1>4
  <2>2. \A q \in Requests : task'[q].pc \in Owning => q # r
    BY <1>5, <1>10 DEF Owning
  <2> QED
    BY <1>3, <1>5, <1>8, <2>1, <2>2 DEF OwnInv, SessionsInv
<1>14. AwaitInv'
  <2>1. \A q \in Requests : task[q].pc \in Failing => task'[q] = task[q]
    BY <1>1, <1>5 DEF Failing
  <2>2. \A p \in OrderIds : orders'[p].pay = "awaiting_payment" => orders'[p] = orders[p]
    BY <1>2, <1>4
  <2> QED
    BY <1>3, <2>1, <2>2 DEF AwaitInv, SessionsInv, history
<1>15. FreedInv'
  <2>1. \A q \in Requests : task[q].pc \in {"coupon", "unlink"} => task'[q] = task[q]
    BY <1>1, <1>5
  <2>2. \A p \in OrderIds : orders'[p].pay = "failed" => orders'[p] = orders[p]
    BY <1>2, <1>4
  <2> QED
    BY <1>3, <2>1, <2>2 DEF FreedInv, SessionsInv, history
<1>16. PushInv'
  BY <1>6 DEF PushInv
<1>17. AskInv' /\ AmountInv' /\ PaidInv'
  <2>1. ~stray => Settled(o)
    BY <1>1 DEF SessionsInv, PaidInv
  <2>2. Totals
    BY <1>2, <1>3, <1>4, <2>1 DEF Totals, history
  <2>3. Money
    BY <1>1, <1>6 DEF Money, SessionsInv, AskInv, PushInv
  <2>4. Knows(r, Idle)
    BY <1>10 DEF Knows
  <2> QED
    BY <1>3, <1>6, <1>10, <2>2, <2>3, <2>4, IdleIsTask, KeepsAmounts DEF history
<1> QED
  BY <1>7, <1>11, <1>12, <1>13, <1>14, <1>15, <1>16, <1>17 DEF SessionsInv

LEMMA FailureKept ==
  ASSUME TypeOK, SessionsInv, NEW r \in Requests, Failure(r)
  PROVE  TypeOK' /\ SessionsInv'
<1>1. Fails(r) /\ UNCHANGED <<session, orders, kustom>>
  BY DEF Failure, Die, FailThrows, UnlinkThrows, LinkThrows
<1>2. Frame /\ died'
  <2>1. failures' \in 0..MaxFailures
    BY <1>1, BoundsNat DEF Fails, TypeOK
  <2> QED
    BY <1>1, <2>1 DEF Fails, Frame, Rows, Money, TypeOK, SessionsInv, AskInv
<1>3. CASE Die(r)
  BY <1>2, <1>3, IdleKept DEF Die
<1>4. CASE FailThrows(r)
  BY <1>2, <1>4, KeptOrder DEF FailThrows, At
<1>5. CASE UnlinkThrows(r)
  BY <1>2, <1>5, DetachedKept DEF UnlinkThrows, At, Owning, Failing
<1>6. CASE LinkThrows(r)
  BY <1>2, <1>6, ToFailing DEF LinkThrows, At
<1> QED
  BY <1>3, <1>4, <1>5, <1>6 DEF Failure

-------------------------------------------------------------------------------
(* Kustom, the shopper, the clock and the sweep.                             *)

LEMMA Starting ==
  ASSUME TypeOK, SessionsInv, NEW r \in Requests, Free(r), NEW t \in Tasks,
         t.pc = "load", t.kind # "none", t.order = 0, t.snap.order = 0, Become(r, t),
         t.kind = "push" => kustom.status # "incomplete"
  PROVE  Aside(r, t) /\ task[r].kind = "none" /\ kustom.waiting # r
<1>1. task[r].pc = "idle" /\ task[r].kind = "none" /\ kustom.waiting # r
  BY TaskOf DEF Free, At, Shaped, Formed
<1>2. Shaped(t)
  BY DEF Shaped, Formed, Owning, TypeOK
<1> QED
  BY <1>1, <1>2 DEF Aside, Owning, Failing

LEMMA Counting ==
  ASSUME TypeOK, calls < MaxCalls, calls' = calls + 1
  PROVE  calls' \in 0..MaxCalls
BY BoundsNat DEF TypeOK

LEMMA AskKept ==
  ASSUME TypeOK, SessionsInv, NEW r \in Requests, NEW kind \in Callers, NEW dest \in Dests,
         Ask(r, kind, dest)
  PROVE  TypeOK' /\ SessionsInv'
<1> DEFINE t == [[Idle EXCEPT !.kind = kind, !.posted = kustom.amount, !.dest = dest]
                   EXCEPT !.pc = "load"]
<1>1. kustom.amount \in Amounts /\ kustom \in Checkouts
  BY DEF TypeOK, Checkouts
<1>2. /\ t \in Tasks /\ t.pc = "load" /\ t.kind = kind /\ t.order = 0 /\ t.snap = Idle.snap
      /\ t.posted = kustom.amount
  BY <1>1, IdleIsTask DEF Tasks, Callers
<1>3. /\ kustom.status = "incomplete" /\ kustom.waiting = None
      /\ Become(r, t) /\ Free(r) /\ calls' \in 0..MaxCalls
      /\ kustom' = [kustom EXCEPT !.waiting = r, !.approved = "no", !.dest = dest]
      /\ UNCHANGED <<session, orders, placed, failures, history>>
  BY Counting DEF Ask, Start
<1> HIDE DEF t
<1>4. Aside(r, t) /\ task[r].kind = "none"
  BY <1>2, <1>3, IdleIsTask, Starting DEF Callers
<1>5. /\ kustom' \in Checkouts /\ kustom'.waiting = r /\ kustom'.approved = "no"
      /\ kustom'.amount = kustom.amount /\ kustom'.status = "incomplete"
  BY <1>1, <1>3 DEF Checkouts, Verdicts
<1>6. Rows
  BY <1>3, <1>5 DEF Rows, TypeOK, history
<1>7. TypeOK' /\ TaskInv' /\ SessionInv' /\ OwnInv' /\ PushInv' /\ AwaitInv' /\ FreedInv'
  BY <1>4, <1>6, AsideTyped, AsideKeepsTasks, AsideKeepsOrders
<1>8. task'[r] = t /\ \A q \in Requests \ {r} : task'[q] = task[q]
  BY <1>2, <1>3, OneTask
<1>9. ~stray => \A q \in Requests : task[q].kind \notin Callers
  BY <1>3, RequestsFinite DEF SessionsInv, AskInv
<1>10. AskInv'
  BY <1>2, <1>3, <1>5, <1>8, <1>9 DEF AskInv, SessionsInv, Callers, history
<1>11. AmountInv'
  <2>1. \A q \in Requests : task[q].pc = "link" => task[q].kind \in Callers
    BY TaskOf DEF Shaped, Formed, Callers
  <2> QED
    BY <1>2, <1>3, <1>5, <1>8, <1>9, <2>1 DEF AmountInv, SessionsInv, Callers, history
<1>12. PaidInv'
  BY <1>2, <1>3, <1>5, <1>8 DEF PaidInv, SessionsInv, Settled, history
<1> QED
  BY <1>7, <1>10, <1>11, <1>12 DEF SessionsInv

LEMMA PushKept ==
  ASSUME TypeOK, SessionsInv, NEW r \in Requests, Push(r)
  PROVE  TypeOK' /\ SessionsInv'
<1> DEFINE t == [Idle EXCEPT !.kind = "push", !.pc = "load"]
<1>1. t \in Tasks /\ t.pc = "load" /\ t.kind = "push" /\ t.order = 0 /\ t.snap = Idle.snap
  BY IdleIsTask DEF Tasks
<1>2. Become(r, t) /\ Free(r) /\ kustom.status # "incomplete" /\ Frame
  BY StillFrame DEF Push
<1> HIDE DEF t
<1>3. Aside(r, t)
  BY <1>1, <1>2, IdleIsTask, Starting
<1>4. Knows(r, t)
  BY <1>1 DEF Knows
<1> QED
  BY <1>2, <1>3, <1>4, AsideKept

LEMMA EditKept ==
  ASSUME TypeOK, SessionsInv, NEW r \in Requests, Edit(r)
  PROVE  TypeOK' /\ SessionsInv'
<1>1. PICK i \in Items : Start(r, [Idle EXCEPT !.kind = "edit", !.items = i])
  BY DEF Edit
<1> DEFINE t == [[Idle EXCEPT !.kind = "edit", !.items = i] EXCEPT !.pc = "load"]
<1>2. t \in Tasks /\ t.pc = "load" /\ t.kind = "edit" /\ t.order = 0 /\ t.snap = Idle.snap
  BY IdleIsTask DEF Tasks
<1>3. Become(r, t) /\ Free(r) /\ calls' \in 0..MaxCalls
  BY <1>1, Counting DEF Start
<1> HIDE DEF t
<1>4. Aside(r, t)
  BY <1>2, <1>3, IdleIsTask, Starting
<1>5. Frame
  BY <1>3 DEF Edit, Frame, Rows, Money, TypeOK, SessionsInv, AskInv
<1>6. Knows(r, t)
  BY <1>2 DEF Knows, Edit
<1> QED
  BY <1>4, <1>5, <1>6, AsideKept

LEMMA StillKept ==
  ASSUME TypeOK, SessionsInv, Rows, UNCHANGED task
  PROVE  TypeOK' /\ TaskInv' /\ SessionInv' /\ OwnInv' /\ PushInv' /\ AwaitInv' /\ FreedInv'
<1>1. TypeOK'
  BY DEF TypeOK, Rows
<1>2. TaskInv'
  BY DEF TaskInv, SessionsInv, Shaped, Formed, Rows, Price
<1>3. SessionInv' /\ PushInv'
  BY DEF SessionInv, PushInv, SessionsInv, Rows
<1>4. OwnInv'
  BY DEF OwnInv, SessionsInv, Rows
<1>5. AwaitInv' /\ FreedInv'
  BY DEF AwaitInv, FreedInv, SessionsInv, Rows
<1> QED
  BY <1>1, <1>2, <1>3, <1>4, <1>5 DEF SessionsInv

\* The clock, and the purchase going through.
LEMMA ClockKept ==
  ASSUME TypeOK, SessionsInv, GoStale \/ Expire \/ Complete
  PROVE  TypeOK' /\ SessionsInv'
<1>1. UNCHANGED <<orders, placed, task, bounds, history>>
  BY DEF GoStale, Expire, Complete
<1>2. /\ session' \in Sessions /\ session'.order = session.order
      /\ session'.status = session.status
  BY DEF GoStale, Expire, Complete, TypeOK, Sessions
<1>3. kustom' \in Checkouts /\ Money /\ (kustom.status # "incomplete" => kustom'.status # "incomplete")
  <2>1. CASE UNCHANGED kustom
    BY <2>1 DEF Money, TypeOK, SessionsInv, AskInv
  <2>2. CASE Complete
    BY <2>2 DEF Complete, Money, TypeOK, Checkouts
  <2> QED
    BY <2>1, <2>2 DEF GoStale, Expire
<1>4. Rows
  BY <1>1, <1>2, <1>3 DEF Rows, TypeOK, bounds, history
<1>5. AskInv'
  BY <1>1, <1>3 DEF AskInv, SessionsInv, Money, history
<1>6. AmountInv'
  BY <1>1, <1>2, <1>3 DEF AmountInv, Agreed, SessionsInv, Money, history
<1>7. PaidInv'
  BY <1>1, <1>2, <1>3 DEF PaidInv, Settled, SessionsInv, Money, history
<1> QED
  BY <1>1, <1>4, <1>5, <1>6, <1>7, StillKept DEF SessionsInv

LEMMA GiveUpKept ==
  ASSUME TypeOK, SessionsInv, GiveUp
  PROVE  TypeOK' /\ SessionsInv'
<1>1. /\ UNCHANGED <<session, orders, placed, task, bounds, died>>
      /\ kustom' \in Checkouts /\ kustom'.waiting = None /\ kustom'.status = kustom.status
      /\ kustom'.amount = kustom.amount /\ kustom'.approved = kustom.approved
  BY DEF GiveUp, TypeOK, Checkouts
<1>2. Rows
  BY <1>1 DEF GiveUp, Rows, TypeOK, bounds
<1>3. AskInv'
  <2>1. ASSUME ~stray' PROVE ~stray /\ \A q \in Requests : task[q].kind \notin Callers
    <3>1. ~stray /\ task[kustom.waiting].pc = "idle" /\ kustom.waiting \in Requests
      BY <2>1 DEF GiveUp, At, TypeOK, Checkouts
    <3>2. task[kustom.waiting].kind = "none"
      BY <3>1, TaskOf DEF Shaped, Formed
    <3> QED
      BY <3>1, <3>2 DEF SessionsInv, AskInv, Callers
  <2> QED
    BY <1>1, <2>1 DEF SessionsInv, AskInv
<1>4. AmountInv' /\ PaidInv'
  BY <1>1, <1>2 DEF AmountInv, PaidInv, Agreed, Settled, SessionsInv, Rows
<1> QED
  BY <1>1, <1>2, <1>3, <1>4, StillKept DEF SessionsInv

LEMMA SweepKept ==
  ASSUME TypeOK, SessionsInv, NEW o \in OrderIds, Sweep(o)
  PROVE  TypeOK' /\ SessionsInv'
<1>1. /\ orders' \in [OrderIds -> Orders]
      /\ orders'[o].pay = "failed" /\ orders'[o].swept
      /\ \A p \in OrderIds : /\ orders'[p].total = orders[p].total
                             /\ orders'[p].linked = orders[p].linked
                             /\ orders'[p].coupon = orders[p].coupon
                             /\ p # o => orders'[p] = orders[p]
  BY DEF Sweep, TypeOK, Orders
<1>2. UNCHANGED <<session, placed, kustom, task, bounds, history>>
  BY DEF Sweep
<1>3. TypeOK'
  BY <1>1, <1>2 DEF TypeOK, bounds, history
<1>4. \A q \in Requests : /\ Shaped(task[q])
                          /\ task[q].order # 0 => task[q].order \in OrderIds
                          /\ task[q].snap.order # 0 => task[q].snap.order \in OrderIds
  BY TaskOf, TaskFields
<1>5. session.order # 0 => session.order \in OrderIds
  BY BoundsNat DEF TypeOK, Sessions, OrderIds
<1>6. TaskInv' /\ PushInv'
  BY <1>2 DEF TaskInv, PushInv, SessionsInv, Shaped, Formed, Price
<1>7. SessionInv'
  BY <1>1, <1>2, <1>5 DEF SessionInv, SessionsInv
<1>8. OwnInv'
  BY <1>1, <1>2, <1>4 DEF OwnInv, SessionsInv, Shaped, Formed
<1>9. AwaitInv'
  BY <1>1, <1>2 DEF AwaitInv, SessionsInv, history
<1>10. FreedInv'
  <2>1. \A p \in OrderIds : orders'[p].pay = "failed" /\ ~orders'[p].swept => orders'[p] = orders[p]
    BY <1>1
  <2> QED
    BY <1>2, <2>1 DEF FreedInv, SessionsInv, history
<1>11. AskInv'
  BY <1>2 DEF AskInv, SessionsInv, history
<1>12. AmountInv'
  <2>1. Agreed' <=> Agreed
    BY <1>1, <1>2, <1>5 DEF Agreed
  <2>2. \A q \in Requests :
          /\ task[q].pc = "link" => orders'[task[q].order].total = orders[task[q].order].total
          /\ task[q].kind = "validation" /\ task[q].pc = "pending"
               => orders'[task[q].snap.order].total = orders[task[q].snap.order].total
          /\ task[q].kind = "edit" /\ task[q].pc = "detach"
               => orders'[task[q].order].total = orders[task[q].order].total
    BY <1>1, <1>4 DEF Shaped, Formed, Owning
  <2> QED
    BY <1>2, <2>1, <2>2 DEF AmountInv, SessionsInv, history
<1>13. PaidInv'
  BY <1>1, <1>2, <1>4 DEF PaidInv, SessionsInv, Settled, Shaped, Formed, history
<1> QED
  BY <1>3, <1>6, <1>7, <1>8, <1>9, <1>10, <1>11, <1>12, <1>13 DEF SessionsInv

-------------------------------------------------------------------------------
(* The theorems.                                                             *)

LEMMA InitKept == ASSUME Init PROVE TypeOK /\ SessionsInv
<1>1. 0 \in 0..MaxOrders /\ 0 \in 0..MaxCalls /\ 0 \in 0..MaxFailures
  BY BoundsNat
<1>2. Items1 \in Items /\ Dest1 \in Dests /\ Amount1 \in Amounts
  BY IdleIsTask
<1>3. session \in Sessions /\ orders \in [OrderIds -> Orders] /\ kustom \in Checkouts
  BY <1>1, <1>2 DEF Init, Sessions, Orders, Checkouts, Verdicts
<1>4. TypeOK
  BY <1>1, <1>3, IdleIsTask DEF Init, TypeOK
<1>5. \A r \in Requests : task[r] = Idle
  BY DEF Init
<1>6. TaskInv
  BY <1>4, <1>5, IdleShaped DEF TaskInv
<1>7. session.status = "open" /\ session.order = 0 /\ placed = 0
  BY DEF Init
<1>8. /\ \A o \in OrderIds : orders[o].pay = "none"
      /\ kustom.waiting = None /\ kustom.approved = "no" /\ kustom.status = "incomplete"
  BY DEF Init
<1> QED
  BY <1>4, <1>5, <1>6, <1>7, <1>8, IdleIsTask
  DEF SessionsInv, SessionInv, OwnInv, AwaitInv, FreedInv, PushInv, AskInv, AmountInv, PaidInv,
      Owning, Callers

LEMMA NextKept == ASSUME TypeOK, SessionsInv, [Next]_vars PROVE TypeOK' /\ SessionsInv'
<1>1. CASE GiveUp \/ Complete \/ GoStale \/ Expire
  BY <1>1, GiveUpKept, ClockKept
<1>2. CASE \E o \in OrderIds : Sweep(o)
  BY <1>2, SweepKept
<1>3. ASSUME NEW r \in Requests, Request(r) \/ Push(r) \/ Step(r) \/ Failure(r)
      PROVE  TypeOK' /\ SessionsInv'
  <2>1. CASE Request(r)
    <3>1. CASE SendValidation(r)
      <4>1. kustom.dest \in Dests
        BY DEF TypeOK, Checkouts
      <4> QED
        BY <3>1, <4>1, AskKept DEF SendValidation, Callers
    <3>2. CASE SendUpdate(r)
      BY <3>2, AskKept DEF SendUpdate, Callers
    <3> QED
      BY <2>1, <3>1, <3>2, EditKept DEF Request
  <2>2. CASE Step(r)
    BY <2>2, LoadKept, RevalidateKept, PendingReadKept, UpdateKept, StoreKept, ClaimKept,
       AwaitKept, CreateKept, LinkKept, ReleaseKept, DetachKept, FailReadKept, FailFlipKept,
       FreeCouponKept, UnlinkKept, RestoreKept, AnswerKept, VerifyKept, MarkKept DEF Step
  <2> QED
    BY <1>3, <2>1, <2>2, PushKept, FailureKept
<1>4. CASE UNCHANGED vars
  BY <1>4, SMTT(30) DEF vars, TypeOK, SessionsInv, TaskInv, SessionInv, OwnInv, AwaitInv, FreedInv,
              PushInv, AskInv, AmountInv, PaidInv, Agreed, Settled, Shaped, Formed, Price
<1> QED
  BY <1>1, <1>2, <1>3, <1>4 DEF Next

\* The rows, what Kustom holds and every request in flight stay within their
\* types.
THEOREM Typed == Spec => []TypeOK
<1>1. Init => TypeOK /\ SessionsInv
  BY InitKept
<1>2. TypeOK /\ SessionsInv /\ [Next]_vars => TypeOK' /\ SessionsInv'
  BY NextKept
<1> QED
  BY <1>1, <1>2, PTL DEF Spec

LEMMA Inductive == Spec => [](TypeOK /\ SessionsInv)
<1>1. Init => TypeOK /\ SessionsInv
  BY InitKept
<1>2. TypeOK /\ SessionsInv /\ [Next]_vars => TypeOK' /\ SessionsInv'
  BY NextKept
<1> QED
  BY <1>1, <1>2, PTL DEF Spec

\* handleValidation, revalidateOrdered: what was approved after comparing it
\* stays backed by the session's order, linked and of that amount.
THEOREM ApprovedIsBacked == Spec => []ApprovedHasOrder
<1>1. TypeOK /\ SessionsInv => ApprovedHasOrder
  BY DEF SessionsInv, SessionInv, AmountInv, Agreed, ApprovedHasOrder, Backed
<1> QED
  BY <1>1, Inductive, PTL

\* detachPendingOrder, abandonOrder, the link's unique index: no order is left
\* waiting for money behind its session's back, a paid one is never taken from
\* its session, and a replaced one is freed.
THEOREM SessionAndOrderAgree == Spec => []SessionHoldsOrder
<1>1. ASSUME TypeOK, SessionsInv PROVE SessionHoldsOrder
  <2>1. NoOrphans
    <3>1. SUFFICES ASSUME Quiescent, ~died, NEW o \in OrderIds, orders[o].pay = "awaiting_payment"
                   PROVE  orders[o].linked /\ session.status = "ordered" /\ session.order = o
      BY DEF NoOrphans
    <3>2. \A r \in Requests : task[r].pc \notin Failing
      BY <3>1 DEF Quiescent, At, Failing
    <3>3. session.order = o /\ o # 0
      BY <1>1, <3>1, <3>2 DEF SessionsInv, AwaitInv, OrderIds
    <3> QED
      BY <1>1, <3>3 DEF SessionsInv, SessionInv
  <2>2. PaidKeepsSession
    BY <1>1 DEF PaidKeepsSession, SessionsInv, PaidInv, SessionInv, Settled, OrderIds
  <2>3. ReplacedIsFreed
    BY <1>1 DEF ReplacedIsFreed, SessionsInv, FreedInv, Quiescent, At
  <2> QED
    BY <2>1, <2>2, <2>3 DEF SessionHoldsOrder
<1> QED
  BY <1>1, Inductive, PTL
================================================================================
