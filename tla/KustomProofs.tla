----------------------------- MODULE KustomProofs -----------------------------
(***************************************************************************)
(* Proofs about an order paid with Kustom: its money (KustomMoney), and    *)
(* its page, push and confirmation (KustomOrder), for any requests,        *)
(* checkouts and interruptions.                                            *)
(***************************************************************************)
EXTENDS KustomMoney, KustomOrder, TLAPS

-------------------------------------------------------------------------------
(* The money: the inductive invariant.                                       *)

\* Kustom's ledger is a ledger, and what it executed shows in it; a refund under
\* way was numbered no higher than the refunds there are.
LedgerInv ==
  /\ ledger.gone => ledger.captured = 0
  /\ ledger.refunded <= ledger.captured
  /\ \A c \in ledger.keys :
       /\ c.op = "capture" => ledger.captured > 0
       /\ c.op = "cancel" => ledger.gone
       /\ c.op = "refund" => ledger.refunded >= c.amount /\ c.nth < ledger.count
  /\ \A w \in wire : w.call.op = "refund" => w.call.nth <= ledger.count

\* What a request is about to write of the money is so.
Sound(t) ==
  /\ t.found => ledger.captured > 0
  /\ t.pc = "load" => t.op \in {"look", "capture", "refund"}
  /\ t.pc = "recheck" => t.op = "capture"
  /\ t.pc = "gaveUp" => t.op = "refund"
  /\ t.pc \in {"load", "read", "wait", "gaveUp"} /\ t.op = "refund" => t.amount > 0
  /\ t.pc = "wait" => t.op \in {"capture", "refund"}
  /\ t.pc = "wait" /\ t.op = "capture" => t.call.op = "capture"
  /\ t.pc = "wait" /\ t.op = "refund" =>
       t.call.op \in {"cancel", "refund"} /\ t.call.amount = t.amount
  /\ t.pc = "mark" => ledger.captured > 0
  /\ t.pc = "release" => ledger.gone
  /\ t.pc = "settle" => t.op = "refund"
  /\ t.pc \in {"mark", "settle"} /\ t.op = "refund" /\ t.amount = Total =>
       ledger.gone \/ ledger.refunded = Total

\* A refund that was executed was executed for the request that reports it, or
\* crossed another.
Earned(r, t) ==
  t.op = "refund" /\ t.call.op = "refund" =>
    /\ t.pc = "wait" => t.call \notin ledger.keys \/ hit[r] > 0 \/ t.crossed
    /\ t.pc \in {"mark", "settle"} => hit[r] > 0 \/ t.crossed

\* The calls a request has under way for one refund have one key.
Refunding(r) == {w \in wire : w.by = r /\ w.call.op = "refund"}
OneKey(r) ==
  /\ hit[r] <= 1
  /\ \A v, w \in Refunding(r) : v.call = w.call
  /\ hit[r] > 0 => \A w \in Refunding(r) : w.call \in ledger.keys

OrderInv == CapturedIsReal /\ ReleasedHadNothing /\ RefundedIsReal
TaskInv  == \A r \in Handlers : Sound(task[r]) /\ Earned(r, task[r])
KeyInv   == doubted \/ \A r \in Handlers : OneKey(r)
MoneyInv == LedgerInv /\ TaskInv /\ OrderInv /\ KeyInv

-------------------------------------------------------------------------------
(* Records.                                                                  *)

LEMMA IdleIs ==
  /\ NoTask \in Tasks /\ NoCall \in Calls /\ CancelCall \in Calls
  /\ NoTask.pc = "idle" /\ NoTask.op = "none" /\ NoTask.amount = 0 /\ ~NoTask.found /\ ~NoTask.crossed
  /\ NoCall.op = "capture" /\ CancelCall.op = "cancel" /\ CancelCall.amount = Total
<1>1. NoCall \in Calls /\ CancelCall \in Calls
  BY TotalPos DEF NoCall, CancelCall, Calls
<1>2. Fresh \in Rows
  BY DEF Fresh, Rows, PaymentStatus
<1> QED
  BY <1>1, <1>2, TotalPos DEF NoTask, Tasks, NoCall, CancelCall

LEMMA TaskFields ==
  ASSUME NEW t \in Tasks
  PROVE  /\ t.amount \in 0..Total /\ t.call \in Calls /\ t.found \in BOOLEAN /\ t.crossed \in BOOLEAN
         /\ t.op \in {"none", "confirm", "look", "capture", "refund"}
BY DEF Tasks

LEMMA LedgerFields ==
  ASSUME TypeOK
  PROVE  /\ ledger.gone \in BOOLEAN /\ ledger.captured \in 0..Total /\ ledger.refunded \in 0..Total
         /\ ledger.count \in Nat /\ ledger.keys \subseteq Calls
         /\ Total \in Nat /\ Total > 0
BY TotalPos DEF TypeOK, Ledgers

\* A task that waits for nothing and writes nothing is in order.
LEMMA Harmless ==
  ASSUME NEW t, ~t.found, t.pc \in {"idle", "load", "read", "gaveUp"},
         t.pc = "load" => t.op \in {"look", "capture", "refund"},
         t.op = "refund" => t.amount > 0, t.pc = "gaveUp" => t.op = "refund", NEW r
  PROVE  Sound(t) /\ Earned(r, t)
BY DEF Sound, Earned

LEMMA IdleIsHarmless == \A r : Sound(NoTask) /\ Earned(r, NoTask)
BY IdleIs, Harmless

LEMMA CountsTyped ==
  ASSUME TypeOK
  PROVE  /\ Called => calls' \in 0..MaxCalls /\ portal' \in 0..MaxPortal /\ timeouts' \in 0..MaxTimeouts
         /\ Late => calls' \in 0..MaxCalls /\ portal' \in 0..MaxPortal /\ timeouts' \in 0..MaxTimeouts
         /\ InPortal => calls' \in 0..MaxCalls /\ portal' \in 0..MaxPortal /\ timeouts' \in 0..MaxTimeouts
BY BoundsNat DEF TypeOK, Called, Late, InPortal

-------------------------------------------------------------------------------
(* Steps by what they touch.                                                 *)

LEMMA Moved ==
  ASSUME TypeOK, NEW r \in Handlers, NEW t, t \in Tasks, Become(r, t)
  PROVE  /\ task' \in [Handlers -> Tasks] /\ task'[r] = t
         /\ \A x \in Handlers \ {r} : task'[x] = task[x]
BY DEF TypeOK, Become

\* One request moves on and writes at most the order.
LEMMA MoveStep ==
  ASSUME TypeOK, MoneyInv, NEW r \in Handlers, NEW t, t \in Tasks, Become(r, t),
         Sound(t), Earned(r, t),
         UNCHANGED <<mode, ledger, wire, hit, doubted>>,
         order' \in Orders, OrderInv',
         calls' \in 0..MaxCalls, portal' \in 0..MaxPortal, timeouts' \in 0..MaxTimeouts
  PROVE  TypeOK' /\ MoneyInv'
<1>1. TypeOK'
  BY Moved DEF TypeOK
<1>2. LedgerInv'
  BY DEF LedgerInv, MoneyInv
<1>3. TaskInv'
  BY Moved DEF TaskInv, Sound, Earned, MoneyInv
<1>4. KeyInv'
  BY DEF KeyInv, OneKey, Refunding, MoneyInv
<1> QED
  BY <1>1, <1>2, <1>3, <1>4 DEF MoneyInv

LEMMA QuietStep ==
  ASSUME TypeOK, MoneyInv, NEW r \in Handlers, NEW t, t \in Tasks, Become(r, t),
         Sound(t), Earned(r, t),
         UNCHANGED <<mode, ledger, wire, hit, doubted, order>>,
         calls' \in 0..MaxCalls, portal' \in 0..MaxPortal, timeouts' \in 0..MaxTimeouts
  PROVE  TypeOK' /\ MoneyInv'
<1>1. order' \in Orders /\ OrderInv'
  BY DEF MoneyInv, OrderInv, CapturedIsReal, ReleasedHadNothing, RefundedIsReal, TypeOK
<1> QED
  BY <1>1, MoveStep

\* One request sends a call and waits for it.
LEMMA SendStep ==
  ASSUME TypeOK, MoneyInv, NEW r \in Handlers, NEW t, t \in Tasks, NEW c \in Calls, Send(r, t, c),
         t.op \in {"capture", "refund"}, t.op = "capture" <=> c.op = "capture",
         t.op = "refund" => c.amount = t.amount, t.found => ledger.captured > 0,
         c.op = "refund" => c.nth = ledger.count /\ (doubted' \/ ~Doubtful(r, c)),
         doubted' \in BOOLEAN, doubted => doubted',
         UNCHANGED <<mode, ledger, hit, order, calls, portal, timeouts>>
  PROVE  TypeOK' /\ MoneyInv'
<1> DEFINE q == [t EXCEPT !.pc = "wait", !.call = c]
<1>1. /\ q \in Tasks /\ q.pc = "wait" /\ q.call = c /\ q.op = t.op /\ q.amount = t.amount
      /\ q.found = t.found /\ q.crossed = t.crossed
  BY DEF Tasks
<1>2. Become(r, q) /\ wire' = wire \cup {[by |-> r, call |-> c]}
  BY DEF Send
<1> HIDE DEF q
<1>3. TypeOK'
  BY <1>1, <1>2, Moved DEF TypeOK
<1>4. LedgerInv'
  <2>1. c.op = "refund" => c.nth <= ledger.count
    BY LedgerFields
  <2> QED
    BY <1>2, <2>1 DEF LedgerInv, MoneyInv
<1>5. c.op \in {"capture", "cancel", "refund"}
  BY DEF Calls
<1>6. c.op = "refund" => c \notin ledger.keys
  BY LedgerFields DEF LedgerInv, MoneyInv
<1>11. q.op = "refund" => q.amount > 0
  BY <1>1 DEF Calls
<1>7. Sound(q) /\ Earned(r, q)
  BY <1>1, <1>5, <1>6, <1>11 DEF Sound, Earned
<1>8. TaskInv'
  BY <1>1, <1>2, <1>7, Moved DEF TaskInv, Sound, Earned, MoneyInv
<1>9. KeyInv'
  <2> SUFFICES ASSUME ~doubted', NEW x \in Handlers PROVE OneKey(x)'
    BY DEF KeyInv
  <2>1. OneKey(x)
    BY DEF KeyInv, MoneyInv
  <2>2. CASE x # r \/ c.op # "refund"
    <3>1. Refunding(x)' = Refunding(x)
      BY <1>2, <2>2 DEF Refunding
    <3> QED
      BY <2>1, <3>1 DEF OneKey
  <2>3. CASE x = r /\ c.op = "refund"
    <3>1. hit[r] <= 0 /\ \A w \in Refunding(r) : w.call = c
      BY <2>3 DEF Doubtful, Refunding, TypeOK
    <3>2. Refunding(r)' = Refunding(r) \cup {[by |-> r, call |-> c]}
      BY <1>2, <2>3 DEF Refunding
    <3>3. \A w \in Refunding(r)' : w.call = c
      BY <3>1, <3>2
    <3>4. hit'[r] <= 1 /\ ~(hit'[r] > 0)
      BY <3>1 DEF TypeOK
    <3> QED
      BY <2>3, <3>3, <3>4 DEF OneKey
  <2> QED
    BY <2>2, <2>3
<1>10. OrderInv'
  BY DEF MoneyInv, OrderInv, CapturedIsReal, ReleasedHadNothing, RefundedIsReal
<1> QED
  BY <1>3, <1>4, <1>8, <1>9, <1>10 DEF MoneyInv

-------------------------------------------------------------------------------
(* Kustom.                                                                   *)

\* The ledger grows; nothing else does.
Grows ==
  /\ ledger' \in Ledgers
  /\ ledger.gone => ledger'.gone
  /\ ledger.captured <= ledger'.captured /\ ledger.refunded <= ledger'.refunded
  /\ ledger.count <= ledger'.count

LEMMA SoundStays ==
  ASSUME TypeOK, Grows, NEW t, Sound(t)
  PROVE  Sound(t)'
<1>1. /\ ledger.captured \in 0..Total /\ ledger'.captured \in 0..Total
      /\ ledger.refunded \in 0..Total /\ ledger'.refunded \in 0..Total
      /\ Total \in Nat
  BY LedgerFields DEF Grows, Ledgers
<1> QED
  BY <1>1 DEF Sound, Grows

LEMMA OrderStays ==
  ASSUME TypeOK, Grows, OrderInv, order' = order, ledger'.gone => ledger'.captured = 0
  PROVE  OrderInv'
<1>1. /\ ledger.captured \in 0..Total /\ ledger'.captured \in 0..Total
      /\ ledger.refunded \in 0..Total /\ ledger'.refunded \in 0..Total
      /\ Total \in Nat
  BY LedgerFields DEF Grows, Ledgers
<1>2. CapturedIsReal'
  BY <1>1 DEF OrderInv, CapturedIsReal, Grows
<1>3. ReleasedHadNothing'
  BY DEF OrderInv, ReleasedHadNothing, Grows
<1>4. RefundedIsReal'
  BY <1>1 DEF OrderInv, RefundedIsReal, Grows
<1> QED
  BY <1>2, <1>3, <1>4 DEF OrderInv

\* The merchant works in the portal, or the authorization goes.
LEMMA PortalStep ==
  ASSUME TypeOK, MoneyInv, Release \/ \E a \in 1..Total : PortalCapture(a) \/ PortalRefund(a)
  PROVE  TypeOK' /\ MoneyInv'
<1>1. /\ UNCHANGED <<mode, order, wire, task, hit, doubted>>
      /\ calls' \in 0..MaxCalls /\ portal' \in 0..MaxPortal /\ timeouts' \in 0..MaxTimeouts
  BY CountsTyped DEF Release, PortalCapture, PortalRefund, InPortal, TypeOK, bounds
<1>2. /\ Grows /\ ledger'.keys = ledger.keys
      /\ (ledger'.gone => ledger'.captured = 0) /\ ledger'.refunded <= ledger'.captured
  <2>1. CASE Release
    <3>1. ledger' = [ledger EXCEPT !.gone = TRUE] /\ ledger.captured = 0
      BY <2>1 DEF Release
    <3>2. /\ ledger' \in Ledgers /\ ledger'.gone = TRUE
          /\ ledger'.captured = ledger.captured /\ ledger'.refunded = ledger.refunded
          /\ ledger'.count = ledger.count /\ ledger'.keys = ledger.keys
      BY <3>1 DEF Ledgers, TypeOK
    <3>3. ledger'.gone
      BY Zenon, <3>2
    <3> QED
      BY <3>1, <3>2, <3>3, LedgerFields DEF Grows, LedgerInv, MoneyInv
  <2>2. ASSUME NEW a \in 1..Total, PortalCapture(a)
        PROVE  /\ Grows /\ ledger'.keys = ledger.keys
               /\ (ledger'.gone => ledger'.captured = 0) /\ ledger'.refunded <= ledger'.captured
    <3>1. /\ ledger' = [ledger EXCEPT !.captured = ledger.captured + a]
          /\ ~ledger.gone /\ ledger.captured + a <= Total
      BY <2>2 DEF PortalCapture
    <3>2. ledger.captured + a \in 0..Total
      BY <3>1, LedgerFields
    <3> QED
      BY <3>1, <3>2, LedgerFields DEF Grows, Ledgers, LedgerInv, MoneyInv, TypeOK
  <2>3. ASSUME NEW a \in 1..Total, PortalRefund(a)
        PROVE  /\ Grows /\ ledger'.keys = ledger.keys
               /\ (ledger'.gone => ledger'.captured = 0) /\ ledger'.refunded <= ledger'.captured
    <3>1. /\ ledger' = [ledger EXCEPT !.refunded = ledger.refunded + a, !.count = ledger.count + 1]
          /\ ledger.refunded + a <= ledger.captured
      BY <2>3 DEF PortalRefund
    <3>2. ledger.refunded + a \in 0..Total /\ ledger.count + 1 \in Nat
      BY <3>1, LedgerFields
    <3>3. /\ ledger' \in Ledgers /\ ledger'.gone = ledger.gone /\ ledger'.captured = ledger.captured
          /\ ledger'.refunded = ledger.refunded + a
          /\ ledger'.count = ledger.count + 1 /\ ledger'.keys = ledger.keys
      BY <3>1, <3>2 DEF Ledgers, TypeOK
    <3> QED
      BY <3>1, <3>3, LedgerFields DEF Grows, LedgerInv, MoneyInv
  <2> QED
    BY <2>1, <2>2, <2>3
<1>3. TypeOK'
  BY <1>1, <1>2 DEF TypeOK, Grows
<1>4. LedgerInv'
  <2>1. ASSUME NEW c \in ledger.keys
        PROVE  /\ c.op = "capture" => ledger'.captured > 0
               /\ c.op = "cancel" => ledger'.gone
               /\ c.op = "refund" => ledger'.refunded >= c.amount /\ c.nth < ledger'.count
    <3>1. c.amount \in 1..Total /\ c.nth \in Nat
      BY LedgerFields DEF Calls
    <3>2. /\ ledger'.captured \in 0..Total /\ ledger'.refunded \in 0..Total /\ ledger'.count \in Nat
      BY <1>2 DEF Grows, Ledgers
    <3> QED
      BY <1>2, <3>1, <3>2, LedgerFields DEF Grows, LedgerInv, MoneyInv
  <2>2. ASSUME NEW w \in wire, w.call.op = "refund"
        PROVE  w.call.nth <= ledger'.count
    <3>1. w.call.nth \in Nat /\ ledger'.count \in Nat
      BY <1>2 DEF TypeOK, Calls, Grows, Ledgers
    <3> QED
      BY <1>2, <2>2, <3>1, LedgerFields DEF Grows, LedgerInv, MoneyInv
  <2> QED
    BY <1>1, <1>2, <2>1, <2>2 DEF LedgerInv
<1>5. TaskInv'
  <2> SUFFICES ASSUME NEW r \in Handlers PROVE (Sound(task[r]) /\ Earned(r, task[r]))'
    BY DEF TaskInv
  <2>1. Sound(task[r]) /\ Earned(r, task[r])
    BY DEF TaskInv, MoneyInv
  <2>2. Sound(task[r])'
    <3>1. PICK t : t = task[r]
      OBVIOUS
    <3>2. Sound(t)'
      BY <1>2, <2>1, <3>1, SoundStays
    <3> QED
      BY <1>1, <3>1, <3>2
  <2>3. Earned(r, task[r])'
    BY <1>1, <1>2, <2>1 DEF Earned
  <2> QED
    BY <2>2, <2>3
<1>6. OrderInv'
  BY <1>1, <1>2, OrderStays DEF MoneyInv
<1>7. KeyInv'
  BY <1>1, <1>2 DEF KeyInv, OneKey, Refunding, MoneyInv
<1> QED
  BY <1>3, <1>4, <1>5, <1>6, <1>7 DEF MoneyInv

\* Kustom executes a call, or finds that it has.
LEMMA Books ==
  ASSUME TypeOK, MoneyInv, NEW c \in Calls, Allowed(c), ledger' = Booked(c)
  PROVE  /\ Grows /\ ledger'.keys = ledger.keys \cup {c}
         /\ ledger'.gone => ledger'.captured = 0
         /\ ledger'.refunded <= ledger'.captured
         /\ c.op = "capture" => ledger'.captured > 0
         /\ c.op = "cancel" => ledger'.gone
         /\ c.op = "refund" => ledger'.refunded >= c.amount /\ ledger'.count = ledger.count + 1
<1>1. c.amount \in 1..Total /\ c.op \in {"capture", "cancel", "refund"}
  BY DEF Calls
<1>2. CASE c.op = "capture"
  <2>1. /\ ~ledger.gone /\ ledger.captured + c.amount <= Total
        /\ ledger' = [ledger EXCEPT !.captured = ledger.captured + c.amount,
                                    !.keys = ledger.keys \cup {c}]
    BY <1>2 DEF Allowed, Booked
  <2>2. ledger.captured + c.amount \in 0..Total
    BY <1>1, <2>1, LedgerFields
  <2>3. /\ ledger' \in Ledgers /\ ledger'.gone = ledger.gone /\ ledger'.refunded = ledger.refunded
        /\ ledger'.captured = ledger.captured + c.amount
        /\ ledger'.count = ledger.count /\ ledger'.keys = ledger.keys \cup {c}
    BY <2>1, <2>2 DEF Ledgers, TypeOK
  <2> QED
    BY <1>1, <1>2, <2>1, <2>3, LedgerFields DEF Grows, LedgerInv, MoneyInv
<1>3. CASE c.op = "cancel"
  <2>1. /\ ledger.captured = 0
        /\ ledger' = [ledger EXCEPT !.gone = TRUE, !.keys = ledger.keys \cup {c}]
    BY <1>3 DEF Allowed, Booked
  <2>2. /\ ledger' \in Ledgers /\ ledger'.gone = TRUE /\ ledger'.refunded = ledger.refunded
        /\ ledger'.captured = ledger.captured
        /\ ledger'.count = ledger.count /\ ledger'.keys = ledger.keys \cup {c}
    BY <2>1, ZenonT(40) DEF Ledgers, TypeOK
  <2>3. ledger'.gone
    BY Zenon, <2>2
  <2> QED
    BY <1>3, <2>1, <2>2, <2>3, LedgerFields DEF Grows, LedgerInv, MoneyInv
<1>4. CASE c.op = "refund"
  <2>1. /\ ledger.refunded + c.amount <= ledger.captured
        /\ ledger' = [ledger EXCEPT !.refunded = ledger.refunded + c.amount,
                                    !.count = ledger.count + 1, !.keys = ledger.keys \cup {c}]
    BY <1>4 DEF Allowed, Booked
  <2>2. ledger.refunded + c.amount \in 0..Total /\ ledger.count + 1 \in Nat
    BY <1>1, <2>1, LedgerFields
  <2>3. /\ ledger' \in Ledgers /\ ledger'.gone = ledger.gone
        /\ ledger'.refunded = ledger.refunded + c.amount
        /\ ledger'.captured = ledger.captured
        /\ ledger'.count = ledger.count + 1 /\ ledger'.keys = ledger.keys \cup {c}
    BY <2>1, <2>2, ZenonT(40) DEF Ledgers, TypeOK
  <2> QED
    BY <1>1, <1>4, <2>1, <2>3, LedgerFields DEF Grows, LedgerInv, MoneyInv
<1> QED
  BY <1>1, <1>2, <1>3, <1>4

\* An executed refund of the whole is the whole, whoever asked for it.
LEMMA AnswerIsSound ==
  ASSUME TypeOK, MoneyInv, NEW r \in Handlers, NEW t \in Tasks, t.pc = "wait",
         Sound(t), Earned(r, t), Grows, NEW ok \in BOOLEAN,
         ok => /\ t.call.op = "capture" => ledger'.captured > 0
               /\ t.call.op = "cancel" => ledger'.gone
               /\ t.call.op = "refund" => ledger'.refunded >= t.call.amount
               /\ t.call.op = "refund" => hit'[r] > 0 \/ t.crossed,
         NEW q, q = Answered(t, ok)
  PROVE  /\ q \in Tasks
         /\ q.found => ledger'.captured > 0
         /\ q.pc \notin {"load", "read", "wait", "gaveUp", "release"} /\ (q.pc = "recheck" => q.op = "capture")
         /\ q.pc = "mark" => ledger'.captured > 0
         /\ q.pc = "settle" => q.op = "refund"
         /\ q.pc \in {"mark", "settle"} /\ q.op = "refund" /\ q.amount = Total =>
              ledger'.gone \/ ledger'.refunded = Total
         /\ q.op = "refund" /\ q.call.op = "refund" /\ q.pc \in {"mark", "settle"} =>
              hit'[r] > 0 \/ q.crossed
<1>1. /\ t.amount \in 0..Total /\ t.op \in {"capture", "refund"}
      /\ ledger.captured \in 0..Total /\ ledger'.captured \in 0..Total /\ ledger'.refunded \in 0..Total
      /\ Total \in Nat /\ ledger.captured <= ledger'.captured
      /\ (t.found => ledger.captured > 0)
  BY TaskFields, LedgerFields DEF Grows, Ledgers, Sound
<1>2. Fresh \in Rows
  BY DEF Fresh, Rows, PaymentStatus
<1>3. CASE t.op = "capture"
  <2> DEFINE p == [t EXCEPT !.pc = IF ok THEN "mark" ELSE "recheck"]
  <2>1. q = p
    BY <1>3 DEF Answered
  <2>2. /\ p \in Tasks /\ p.pc = (IF ok THEN "mark" ELSE "recheck") /\ p.op = "capture"
        /\ p.found = t.found
    BY <1>3 DEF Tasks
  <2> HIDE DEF p
  <2>3. t.call.op = "capture"
    BY <1>3 DEF Sound
  <2> QED
    BY <1>1, <2>1, <2>2, <2>3
<1>4. CASE t.op = "refund" /\ ~ok
  <2>1. q = NoTask
    BY <1>4 DEF Answered
  <2> QED
    BY <2>1, IdleIs
<1>5. CASE t.op = "refund" /\ ok
  <2> DEFINE pc == IF t.found /\ ~t.seen.captured THEN "mark" ELSE "settle"
             p  == [t EXCEPT !.pc = pc, !.seen = Fresh, !.found = FALSE]
  <2>1. q = p
    BY <1>5 DEF Answered
  <2>2. pc \in {"mark", "settle"} /\ (pc = "mark" => t.found)
    OBVIOUS
  <2> HIDE DEF pc
  <2>3. /\ p \in Tasks /\ p.pc = pc /\ p.op = "refund" /\ ~p.found
        /\ p.call = t.call /\ p.amount = t.amount /\ p.crossed = t.crossed
    BY <1>2, <1>5, <2>2 DEF Tasks
  <2> HIDE DEF p
  <2>4. t.call.op \in {"cancel", "refund"} /\ t.call.amount = t.amount
    BY <1>5 DEF Sound
  <2>5. t.amount = Total => ledger'.gone \/ ledger'.refunded = Total
    BY <1>1, <1>5, <2>4
  <2>6. t.call.op = "refund" => hit'[r] > 0 \/ p.crossed
    BY Zenon, <1>5, <2>3
  <2> QED
    BY <1>1, <2>1, <2>2, <2>3, <2>5, <2>6
<1> QED
  BY <1>1, <1>3, <1>4, <1>5

LEMMA ExecuteStep ==
  ASSUME TypeOK, MoneyInv, NEW w \in wire, Execute(w)
  PROVE  TypeOK' /\ MoneyInv'
<1> DEFINE c    == w.call
           new  == c \notin ledger.keys /\ Allowed(c)
           ok   == c \in ledger.keys \/ new
           mine == new /\ c.op = "refund"
           awaited(r)  == r = w.by /\ IsAt(r, "wait") /\ task[r].call = c
           crossing(r) == mine /\ r # w.by /\ IsAt(r, "wait") /\ task[r].op = "refund"
<1>1. /\ c \in Calls /\ w.by \in Handlers \cup {Nobody} /\ wire' \subseteq wire
      /\ c.amount \in 1..Total /\ c.op \in {"capture", "cancel", "refund"} /\ c.nth \in Nat
  BY DEF Execute, TypeOK, Calls
<1>2. /\ ledger' = IF new THEN Booked(c) ELSE ledger
      /\ UNCHANGED <<mode, order, calls, portal, timeouts, doubted>>
  BY DEF Execute, bounds
<1>3. \A r \in Handlers :
        task'[r] = IF awaited(r) THEN Answered(task[r], ok)
                   ELSE [task[r] EXCEPT !.crossed = @ \/ crossing(r)]
  BY DEF Execute
<1>13. \A r \in Handlers : /\ mine /\ r = w.by => hit'[r] = hit[r] + 1
                           /\ ~(mine /\ r = w.by) => hit'[r] = hit[r]
  BY DEF Execute
<1>4. /\ DOMAIN task' = Handlers /\ task' = [r \in Handlers |-> task'[r]]
      /\ hit' = [r \in Handlers |-> hit'[r]]
  BY DEF Execute
<1>5. /\ Grows /\ ledger'.keys = IF new THEN ledger.keys \cup {c} ELSE ledger.keys
      /\ ledger'.gone => ledger'.captured = 0
      /\ ledger'.refunded <= ledger'.captured
      /\ ok => /\ c.op = "capture" => ledger'.captured > 0
               /\ c.op = "cancel" => ledger'.gone
               /\ c.op = "refund" => ledger'.refunded >= c.amount
      /\ c.op = "refund" /\ new => ledger'.count = ledger.count + 1
  <2>1. CASE new
    BY <1>1, <1>2, <2>1, Books
  <2>2. CASE ~new
    BY <1>1, <1>2, <2>2, LedgerFields DEF Grows, LedgerInv, MoneyInv, TypeOK
  <2> QED
    BY <2>1, <2>2
<1> HIDE DEF new
<1>6. \A r \in Handlers : hit[r] \in Nat /\ hit'[r] \in Nat /\ hit[r] <= hit'[r]
  BY <1>13 DEF TypeOK
<1>7. ASSUME NEW r \in Handlers
      PROVE  task'[r] \in Tasks /\ (Sound(task[r]) /\ Earned(r, task[r]))'
  <2>1. task[r] \in Tasks /\ Sound(task[r]) /\ Earned(r, task[r])
    BY DEF TypeOK, TaskInv, MoneyInv
  <2>2. CASE awaited(r)
    <3>1. PICK t : t = task[r]
      OBVIOUS
    <3>2. task'[r] = Answered(t, ok)
      BY <1>3, <2>2, <3>1
    <3>3. t \in Tasks /\ t.pc = "wait" /\ Sound(t) /\ Earned(r, t) /\ t.call = c /\ r = w.by
      BY <2>1, <2>2, <3>1 DEF IsAt
    <3>4. ok /\ c.op = "refund" => hit'[r] > 0 \/ t.crossed
      <4>1. CASE new /\ c.op = "refund"
        BY <1>6, <1>13, <3>3, <4>1
      <4>2. CASE c \in ledger.keys /\ c.op = "refund"
        <5>1. t.op = "refund"
          BY <3>3, <4>2 DEF Sound
        <5>2. hit[r] > 0 \/ t.crossed
          BY <3>3, <4>2, <5>1 DEF Earned
        <5> QED
          BY <1>6, <5>2
      <4> QED
        BY <4>1, <4>2
    <3>5. ok \in BOOLEAN
      OBVIOUS
    <3> HIDE DEF ok
    <3> DEFINE q == task'[r]
    <3>6. /\ q \in Tasks
          /\ q.found => ledger'.captured > 0
          /\ q.pc \notin {"load", "read", "wait", "gaveUp", "release"} /\ (q.pc = "recheck" => q.op = "capture")
          /\ q.pc = "mark" => ledger'.captured > 0
          /\ q.pc = "settle" => q.op = "refund"
          /\ q.pc \in {"mark", "settle"} /\ q.op = "refund" /\ q.amount = Total =>
               ledger'.gone \/ ledger'.refunded = Total
          /\ q.op = "refund" /\ q.call.op = "refund" /\ q.pc \in {"mark", "settle"} =>
               hit'[r] > 0 \/ q.crossed
      BY <1>5, <3>2, <3>3, <3>4, <3>5, AnswerIsSound
    <3> QED
      BY <3>6 DEF Sound, Earned
  <2>3. CASE ~awaited(r)
    <3> DEFINE x == task[r].crossed \/ crossing(r)
               q == [task[r] EXCEPT !.crossed = x]
    <3>1. task'[r] = q
      BY <1>3, <2>3
    <3>2. x \in BOOLEAN /\ (task[r].crossed => x) /\ (crossing(r) => x)
      BY <2>1, TaskFields
    <3> HIDE DEF x
    <3>3. /\ q \in Tasks /\ q.pc = task[r].pc /\ q.op = task[r].op /\ q.amount = task[r].amount
          /\ q.call = task[r].call /\ q.found = task[r].found /\ q.crossed = x
      BY <2>1, <3>2 DEF Tasks
    <3> HIDE DEF q
    <3>4. Sound(task[r])'
      <4>1. PICK t : t = task[r]
        OBVIOUS
      <4>2. Sound(t)'
        BY <1>5, <2>1, <4>1, SoundStays
      <4> QED
        BY <3>1, <3>3, <4>1, <4>2 DEF Sound
    <3>5. q.crossed <=> x
      BY Zenon, <3>3
    <3>6. ASSUME q.op = "refund", q.call.op = "refund", q.pc = "wait"
          PROVE  q.call \notin ledger'.keys \/ hit'[r] > 0 \/ q.crossed
      <4>1. task[r].call \notin ledger.keys \/ hit[r] > 0 \/ task[r].crossed
        BY <2>1, <3>3, <3>6 DEF Earned
      <4>2. CASE new /\ c = task[r].call
        <5>1. r # w.by
          BY <2>3, <3>3, <3>6, <4>2 DEF IsAt
        <5>2. crossing(r)
          BY <3>3, <3>6, <4>2, <5>1 DEF IsAt
        <5> QED
          BY <3>2, <3>5, <5>2
      <4>3. CASE ~(new /\ c = task[r].call)
        BY <1>5, <1>6, <3>2, <3>3, <3>5, <4>1, <4>3
      <4> QED
        BY <4>2, <4>3
    <3>7. ASSUME q.op = "refund", q.call.op = "refund", q.pc \in {"mark", "settle"}
          PROVE  hit'[r] > 0 \/ q.crossed
      <4>1. hit[r] > 0 \/ task[r].crossed
        BY <2>1, <3>3, <3>7 DEF Earned
      <4> QED
        BY <1>6, <3>2, <3>5, <4>1
    <3> QED
      BY <3>1, <3>3, <3>4, <3>6, <3>7 DEF Earned
  <2> QED
    BY <2>2, <2>3
<1>8. TypeOK'
  <2>1. task' \in [Handlers -> Tasks] /\ hit' \in [Handlers -> Nat]
    BY <1>4, <1>6, <1>7
  <2> QED
    BY <1>1, <1>2, <1>5, <2>1 DEF TypeOK, Grows
<1>9. LedgerInv'
  <2>1. ASSUME NEW d \in ledger'.keys
        PROVE  /\ d.op = "capture" => ledger'.captured > 0
               /\ d.op = "cancel" => ledger'.gone
               /\ d.op = "refund" => ledger'.refunded >= d.amount /\ d.nth < ledger'.count
    <3>1. /\ ledger'.captured \in 0..Total /\ ledger'.refunded \in 0..Total /\ ledger'.count \in Nat
      BY <1>5 DEF Grows, Ledgers
    <3>2. CASE d \in ledger.keys
      <4>1. d.amount \in 1..Total /\ d.nth \in Nat
        BY <3>2, LedgerFields DEF Calls
      <4> QED
        BY <1>5, <3>1, <3>2, <4>1, LedgerFields DEF Grows, LedgerInv, MoneyInv
    <3>3. CASE d \notin ledger.keys
      <4>1. new /\ d = c
        BY <1>5, <3>3
      <4>2. c.op = "refund" => c.nth <= ledger.count
        BY DEF LedgerInv, MoneyInv
      <4> QED
        BY <1>1, <1>5, <3>1, <4>1, <4>2, LedgerFields
    <3> QED
      BY <3>2, <3>3
  <2>2. ASSUME NEW v \in wire', v.call.op = "refund"
        PROVE  v.call.nth <= ledger'.count
    <3>1. v \in wire /\ v.call.nth \in Nat /\ ledger'.count \in Nat
      BY <1>1, <1>5 DEF TypeOK, Calls, Grows, Ledgers
    <3> QED
      BY <1>5, <2>2, <3>1, LedgerFields DEF Grows, LedgerInv, MoneyInv
  <2> QED
    BY <1>5, <2>1, <2>2 DEF LedgerInv
<1>10. TaskInv'
  BY <1>7 DEF TaskInv
<1>11. OrderInv'
  BY <1>2, <1>5, OrderStays DEF MoneyInv
<1>12. KeyInv'
  <2> SUFFICES ASSUME ~doubted, NEW r \in Handlers PROVE OneKey(r)'
    BY <1>2 DEF KeyInv
  <2>1. OneKey(r)
    BY DEF KeyInv, MoneyInv
  <2>2. Refunding(r)' \subseteq Refunding(r) /\ ledger.keys \subseteq ledger'.keys
    BY <1>1, <1>5 DEF Refunding
  <2>3. CASE mine /\ r = w.by
    <3>1. w \in Refunding(r)
      BY <2>3 DEF Refunding
    <3>2. hit[r] <= 0
      BY <1>6, <2>1, <2>3, <3>1 DEF OneKey, new
    <3>3. \A v \in Refunding(r) : v.call = c
      BY <2>1, <3>1 DEF OneKey
    <3>4. c \in ledger'.keys
      BY <1>5, <2>3
    <3>5. hit'[r] <= 1
      BY <1>6, <1>13, <2>3, <3>2
    <3> QED
      BY <2>2, <3>3, <3>4, <3>5 DEF OneKey
  <2>4. CASE ~(mine /\ r = w.by)
    <3>1. hit'[r] = hit[r]
      BY <1>13, <2>4
    <3> QED
      BY <2>1, <2>2, <3>1 DEF OneKey
  <2> QED
    BY <2>3, <2>4
<1> QED
  BY <1>8, <1>9, <1>10, <1>11, <1>12 DEF MoneyInv

-------------------------------------------------------------------------------
(* Requests.                                                                 *)

LEMMA RequestStep ==
  ASSUME TypeOK, MoneyInv, NEW r \in Handlers,
         Confirm(r) \/ Look(r) \/ AskCapture(r) \/ Retry(r) \/ TimeOut(r) \/ Die(r)
  PROVE  TypeOK' /\ MoneyInv'
<1>1. task[r] \in Tasks
  BY DEF TypeOK
<1>2. PICK t \in Tasks : /\ Become(r, t) /\ ~t.found
                         /\ t.pc \in {"idle", "load", "read", "gaveUp"}
                         /\ t.pc = "load" => t.op \in {"look", "capture", "refund"}
                         /\ t.op = "refund" => t.amount > 0
                         /\ t.pc = "gaveUp" => t.op = "refund"
  <2>1. \A op \in {"confirm", "look", "capture"}, pc \in {"load", "read"} :
          LET q == [NoTask EXCEPT !.op = op, !.pc = pc]
          IN  q \in Tasks /\ ~q.found /\ q.pc = pc /\ q.op = op
    BY IdleIs DEF Tasks
  <2>2. \A a \in 0..Total, pc \in {"load", "gaveUp"} :
          LET q == [NoTask EXCEPT !.op = "refund", !.pc = pc, !.amount = a]
          IN  q \in Tasks /\ ~q.found /\ q.pc = pc /\ q.op = "refund" /\ q.amount = a
    BY IdleIs DEF Tasks
  <2>3. /\ task[r].amount \in 0..Total
        /\ Retry(r) \/ (TimeOut(r) /\ task[r].op = "refund") => task[r].amount > 0
    <3>1. Sound(task[r])
      BY DEF TaskInv, MoneyInv
    <3>2. Retry(r) => task[r].op = "refund"
      BY <3>1 DEF Retry, IsAt, Sound
    <3> QED
      BY <1>1, <3>1, <3>2, TaskFields DEF Sound, Retry, TimeOut, IsAt
  <2>4. CASE Confirm(r) \/ Look(r) \/ AskCapture(r)
    BY <2>1, <2>4 DEF Confirm, Look, AskCapture, Begins
  <2>5. CASE Retry(r)
    BY <2>2, <2>3, <2>5 DEF Retry
  <2>6. CASE TimeOut(r)
    <3>1. CASE task[r].op = "refund"
      <4> DEFINE q == [NoTask EXCEPT !.op = "refund", !.pc = "gaveUp", !.amount = task[r].amount]
      <4>1. Become(r, q)
        BY <2>6, <3>1 DEF TimeOut
      <4>2. q \in Tasks /\ ~q.found /\ q.pc = "gaveUp" /\ q.op = "refund" /\ q.amount > 0
        BY <2>2, <2>3, <2>6, <3>1
      <4> HIDE DEF q
      <4> QED
        BY <4>1, <4>2
    <3>2. CASE task[r].op # "refund"
      BY <2>6, <3>2, IdleIs DEF TimeOut
    <3> QED
      BY <3>1, <3>2
  <2>7. CASE Die(r)
    BY <2>7, IdleIs DEF Die
  <2> QED
    BY <2>4, <2>5, <2>6, <2>7
<1>3. /\ UNCHANGED <<mode, ledger, wire, hit, doubted, order>>
      /\ calls' \in 0..MaxCalls /\ portal' \in 0..MaxPortal /\ timeouts' \in 0..MaxTimeouts
  <2>1. CASE Confirm(r) \/ Look(r)
    BY <2>1 DEF Confirm, Look, Quiet, bounds, TypeOK
  <2>2. CASE AskCapture(r) \/ Retry(r) \/ TimeOut(r) \/ Die(r)
    BY <2>2, CountsTyped DEF AskCapture, Retry, TimeOut, Die
  <2> QED
    BY <2>1, <2>2
<1> QED
  BY <1>2, <1>3, Harmless, QuietStep

\* A request that is asked for another refund lets go of the calls of the last.
LEMMA AskStep ==
  ASSUME TypeOK, MoneyInv, NEW r \in Handlers, NEW a \in 1..Total, AskRefund(r, a)
  PROVE  TypeOK' /\ MoneyInv'
<1> DEFINE q == [NoTask EXCEPT !.op = "refund", !.pc = "load", !.amount = a]
<1>1. q \in Tasks /\ ~q.found /\ q.pc = "load" /\ q.op = "refund" /\ q.amount > 0
      /\ Become(r, q)
  <2>1. a \in 0..Total /\ a > 0
    BY TotalPos
  <2> QED
    BY <2>1, IdleIs DEF Tasks, AskRefund
<1> HIDE DEF q
<1>3. /\ UNCHANGED <<mode, order, ledger, doubted>>
      /\ calls' \in 0..MaxCalls /\ portal' \in 0..MaxPortal /\ timeouts' \in 0..MaxTimeouts
      /\ hit' = [hit EXCEPT ![r] = 0]
  BY CountsTyped DEF AskRefund
<1>4. \A v \in wire' : \E w \in wire : /\ v.call = w.call /\ v.by # r
                                       /\ w.by # r => v = w
                                       /\ v \in [by : Handlers \cup {Nobody}, call : Calls]
                                       /\ v.by = w.by \/ v.by = Nobody
  <2> SUFFICES ASSUME NEW w \in wire
               PROVE  LET v == [w EXCEPT !.by = IF w.by = r THEN Nobody ELSE w.by]
                      IN  /\ v.call = w.call /\ v.by # r /\ (w.by # r => v = w)
                          /\ v \in [by : Handlers \cup {Nobody}, call : Calls]
                          /\ v.by = w.by \/ v.by = Nobody
    BY DEF AskRefund
  <2> QED
    BY RequestsFinite DEF TypeOK
<1>5. TypeOK'
  <2>1. wire' \subseteq [by : Handlers \cup {Nobody}, call : Calls] /\ hit' \in [Handlers -> Nat]
    BY <1>3, <1>4 DEF TypeOK
  <2> QED
    BY <1>1, <1>3, <2>1, Moved DEF TypeOK
<1>6. LedgerInv'
  <2>1. \A v \in wire' : v.call.op = "refund" => v.call.nth <= ledger.count
    BY <1>4 DEF LedgerInv, MoneyInv
  <2> QED
    BY <1>3, <2>1 DEF LedgerInv, MoneyInv
<1>7. \A x \in Handlers \ {r} : hit'[x] = hit[x]
  BY <1>3 DEF TypeOK
<1>8. TaskInv'
  <2> SUFFICES ASSUME NEW x \in Handlers PROVE (Sound(task[x]) /\ Earned(x, task[x]))'
    BY DEF TaskInv
  <2>1. CASE x = r
    <3>1. task'[x] = q
      BY <1>1, <2>1, Moved
    <3> QED
      BY <1>1, <3>1 DEF Sound, Earned
  <2>2. CASE x # r
    <3>1. task'[x] = task[x]
      BY <1>1, <2>2, Moved
    <3> QED
      BY <1>3, <1>7, <2>2, <3>1 DEF TaskInv, Sound, Earned, MoneyInv
  <2> QED
    BY <2>1, <2>2
<1>9. KeyInv'
  <2> SUFFICES ASSUME ~doubted, NEW x \in Handlers PROVE OneKey(x)'
    BY <1>3 DEF KeyInv
  <2>1. CASE x = r
    <3>1. Refunding(r)' = {}
      BY <1>4 DEF Refunding
    <3>2. hit'[r] = 0
      BY <1>3 DEF TypeOK
    <3> QED
      BY <2>1, <3>1, <3>2 DEF OneKey
  <2>2. CASE x # r
    <3>1. Refunding(x)' \subseteq Refunding(x)
      BY <1>4, <2>2, RequestsFinite DEF Refunding
    <3> QED
      BY <1>3, <1>7, <2>2, <3>1 DEF OneKey, KeyInv, MoneyInv
  <2> QED
    BY <2>1, <2>2
<1>10. OrderInv'
  BY <1>3 DEF MoneyInv, OrderInv, CapturedIsReal, ReleasedHadNothing, RefundedIsReal
<1> QED
  BY <1>5, <1>6, <1>8, <1>9, <1>10 DEF MoneyInv

LEMMA SyncedIs ==
  ASSUME TypeOK, NEW t \in Tasks, NEW q, q = Synced(t), NEW r
  PROVE  q \in Tasks /\ Sound(q) /\ Earned(r, q)
<1>1. CASE q = NoTask
  BY <1>1, IdleIs, IdleIsHarmless
<1>2. CASE q # NoTask
  <2> DEFINE p == [NoTask EXCEPT !.op = t.op, !.pc = "release"]
  <2>1. q = p /\ ledger.gone
    BY <1>2 DEF Synced
  <2>2. p \in Tasks /\ p.pc = "release" /\ ~p.found
    BY IdleIs DEF Tasks
  <2> HIDE DEF p
  <2> QED
    BY <2>1, <2>2 DEF Sound, Earned
<1> QED
  BY <1>1, <1>2

LEMMA LoadStep ==
  ASSUME TypeOK, MoneyInv, NEW r \in Handlers, Load(r)
  PROVE  TypeOK' /\ MoneyInv'
<1> DEFINE t == [task[r] EXCEPT !.seen = [pay |-> order.pay, captured |-> order.captured]]
<1>1. task[r] \in Tasks /\ Sound(task[r]) /\ task[r].pc = "load"
  BY DEF TypeOK, TaskInv, MoneyInv, Load, IsAt
<1>2. [pay |-> order.pay, captured |-> order.captured] \in Rows
  BY DEF TypeOK, Orders, Rows
<1>3. /\ t \in Tasks /\ t.op = task[r].op /\ t.pc = "load" /\ t.found = task[r].found
      /\ t.amount = task[r].amount
  BY <1>1, <1>2 DEF Tasks
<1>4. t.found => ledger.captured > 0
  BY <1>1, <1>3 DEF Sound
<1> DEFINE q == [t EXCEPT !.pc = "read"]
<1>5. /\ task[r].op \in {"look", "refund", "capture"} =>
           \/ Become(r, q) /\ UNCHANGED wire
           \/ Become(r, NoTask) /\ UNCHANGED wire
           \/ t.op = "capture" /\ Send(r, t, NoCall)
      /\ UNCHANGED <<mode, order, ledger, calls, portal, timeouts, hit, doubted>>
  <2>1. UNCHANGED <<mode, order, ledger, calls, portal, timeouts, hit, doubted>>
    BY DEF Load, bounds
  <2>2. CASE task[r].op = "look"
    BY <1>3, <2>1, <2>2 DEF Load
  <2>3. CASE task[r].op = "refund"
    BY <1>3, <2>1, <2>3 DEF Load
  <2>4. CASE task[r].op = "capture"
    BY <1>3, <2>1, <2>4 DEF Load
  <2> QED
    BY <2>1, <2>2, <2>3, <2>4
<1> HIDE DEF t
<1>6. task[r].op \in {"look", "refund", "capture"}
  BY <1>1 DEF Sound
<1>7. CASE Become(r, q) /\ UNCHANGED wire
  <2>1. /\ q \in Tasks /\ q.pc = "read" /\ q.found = t.found
        /\ q.op = t.op /\ q.amount = t.amount
    BY <1>3 DEF Tasks
  <2> HIDE DEF q
  <2>2. Sound(q) /\ Earned(r, q)
    BY <1>1, <1>3, <1>4, <2>1 DEF Sound, Earned
  <2> QED
    BY <1>5, <1>6, <1>7, <2>1, <2>2, QuietStep DEF TypeOK
<1>8. CASE Become(r, NoTask) /\ UNCHANGED wire
  BY <1>5, <1>6, <1>8, IdleIs, IdleIsHarmless, QuietStep DEF TypeOK
<1>9. CASE t.op = "capture" /\ Send(r, t, NoCall)
  BY <1>3, <1>4, <1>5, <1>6, <1>9, IdleIs, SendStep DEF TypeOK
<1> QED
  BY <1>5, <1>6, <1>7, <1>8, <1>9

LEMMA ReadStep ==
  ASSUME TypeOK, MoneyInv, NEW r \in Handlers, LookLive(r) \/ ConfirmLive(r) \/ Recheck(r)
  PROVE  TypeOK' /\ MoneyInv'
<1>1. /\ task[r] \in Tasks /\ Sound(task[r])
      /\ UNCHANGED <<mode, ledger, wire, hit, doubted, order>>
      /\ calls' \in 0..MaxCalls /\ portal' \in 0..MaxPortal /\ timeouts' \in 0..MaxTimeouts
  BY DEF TypeOK, TaskInv, MoneyInv, LookLive, ConfirmLive, Recheck, Quiet, bounds
<1>2. ASSUME NEW q \in Tasks, Sound(q), Earned(r, q), Become(r, q)
      PROVE  TypeOK' /\ MoneyInv'
  BY <1>1, <1>2, QuietStep
<1>3. Become(r, NoTask) => TypeOK' /\ MoneyInv'
  BY <1>2, IdleIs, IdleIsHarmless
<1>4. Become(r, Synced(task[r])) => TypeOK' /\ MoneyInv'
  BY <1>1, <1>2, SyncedIs
<1>5. CASE LookLive(r)
  BY <1>4, <1>5 DEF LookLive
<1>6. CASE ConfirmLive(r)
  <2> DEFINE found == LiveStatus = "CAPTURED"
             q == [task[r] EXCEPT !.pc = "paid", !.found = found]
  <2>1. q \in Tasks /\ q.pc = "paid" /\ (q.found <=> found)
    BY <1>1 DEF Tasks
  <2>2. found => ledger.captured > 0
    BY LedgerFields DEF LiveStatus
  <2>3. Become(r, q) \/ Become(r, NoTask)
    BY <1>6 DEF ConfirmLive
  <2> HIDE DEF q, found
  <2>4. Sound(q) /\ Earned(r, q)
    BY <2>1, <2>2 DEF Sound, Earned
  <2> QED
    BY <1>2, <1>3, <2>1, <2>3, <2>4
<1>7. CASE Recheck(r)
  <2> DEFINE q == [task[r] EXCEPT !.pc = "mark"]
  <2>1. task[r].op = "capture"
    BY <1>1, <1>7 DEF Recheck, IsAt, Sound
  <2>2. q \in Tasks /\ q.pc = "mark" /\ q.op = "capture" /\ q.found = task[r].found
    BY <1>1, <2>1 DEF Tasks
  <2>3. \/ Become(r, q) /\ ledger.captured >= Total
        \/ Become(r, Synced(task[r]))
    BY <1>7 DEF Recheck
  <2> HIDE DEF q
  <2>4. ledger.captured >= Total => Sound(q) /\ Earned(r, q)
    BY <1>1, <2>2, LedgerFields DEF Sound, Earned
  <2> QED
    BY <1>2, <1>4, <2>2, <2>3, <2>4
<1> QED
  BY <1>5, <1>6, <1>7

LEMMA RefundStep ==
  ASSUME TypeOK, MoneyInv, NEW r \in Handlers, RefundLive(r)
  PROVE  TypeOK' /\ MoneyInv'
<1> DEFINE found == ledger.captured > 0
           t == [task[r] EXCEPT !.found = found]
<1>1. /\ task[r] \in Tasks /\ task[r].op = "refund" /\ task[r].pc = "read" /\ Sound(task[r])
      /\ UNCHANGED <<mode, order, ledger, calls, portal, timeouts, hit>>
  BY DEF TypeOK, TaskInv, MoneyInv, RefundLive, IsAt, bounds
<1>2. /\ t \in Tasks /\ t.op = "refund" /\ t.amount = task[r].amount /\ t.found = found
      /\ t.amount \in 1..Total
  <2>1. task[r].amount \in 1..Total
    BY <1>1, TaskFields DEF Sound
  <2>2. found \in BOOLEAN
    OBVIOUS
  <2> HIDE DEF found
  <2> QED
    BY <1>1, <2>1, <2>2 DEF Tasks
<1>3. \/ t.amount = Total /\ Send(r, t, CancelCall) /\ UNCHANGED doubted
      \/ Become(r, NoTask) /\ UNCHANGED <<wire, doubted>>
      \/ /\ Send(r, t, RefundCall(t.amount))
         /\ doubted' = (doubted \/ Doubtful(r, RefundCall(t.amount)))
  BY DEF RefundLive
<1>4. t.found => ledger.captured > 0
  <2>1. t.found <=> found
    BY Zenon, <1>2
  <2> QED
    BY <2>1
<1> HIDE DEF t
<1>5. CASE t.amount = Total /\ Send(r, t, CancelCall) /\ UNCHANGED doubted
  BY <1>1, <1>2, <1>4, <1>5, IdleIs, SendStep DEF TypeOK
<1>6. CASE Become(r, NoTask) /\ UNCHANGED <<wire, doubted>>
  BY <1>1, <1>6, IdleIs, IdleIsHarmless, QuietStep DEF TypeOK
<1>7. CASE /\ Send(r, t, RefundCall(t.amount))
           /\ doubted' = (doubted \/ Doubtful(r, RefundCall(t.amount)))
  <2> DEFINE c == RefundCall(t.amount)
  <2>1. c \in Calls /\ c.op = "refund" /\ c.amount = t.amount /\ c.nth = ledger.count
    BY <1>2, LedgerFields DEF RefundCall, Calls
  <2>2. /\ doubted' \in BOOLEAN /\ (doubted => doubted') /\ (doubted' \/ ~Doubtful(r, c))
    BY <1>7 DEF TypeOK
  <2>3. Send(r, t, c)
    BY <1>7
  <2> HIDE DEF c
  <2> QED
    BY <1>1, <1>2, <1>4, <2>1, <2>2, <2>3, SendStep
<1> QED
  BY <1>3, <1>5, <1>6, <1>7

\* What a request writes of the order.
LEMMA WriteStep ==
  ASSUME TypeOK, MoneyInv, NEW r \in Handlers,
         MarkPaid(r) \/ MarkCaptured(r) \/ MarkReleased(r) \/ Settle(r)
  PROVE  TypeOK' /\ MoneyInv'
<1>1. /\ task[r] \in Tasks /\ Sound(task[r]) /\ Earned(r, task[r])
      /\ UNCHANGED <<mode, ledger, wire, hit, doubted>> /\ order \in Orders
      /\ calls' \in 0..MaxCalls /\ portal' \in 0..MaxPortal /\ timeouts' \in 0..MaxTimeouts
  BY DEF TypeOK, TaskInv, MoneyInv, MarkPaid, MarkCaptured, MarkReleased, Settle, Quiet, bounds
<1>2. /\ order.captured => ledger.captured > 0
      /\ order.pay = "failed" => ledger.gone /\ ledger.captured = 0
      /\ order.pay = "refunded" => ledger.gone \/ ledger.refunded = Total
  BY DEF MoneyInv, OrderInv, CapturedIsReal, ReleasedHadNothing, RefundedIsReal
<1>3. ASSUME NEW q \in Tasks, Sound(q), Earned(r, q), Become(r, q), order' \in Orders,
             order'.captured => ledger.captured > 0,
             order'.pay = "failed" => ledger.gone /\ ledger.captured = 0,
             order'.pay = "refunded" => ledger.gone \/ ledger.refunded = Total
      PROVE  TypeOK' /\ MoneyInv'
  <2>1. OrderInv'
    BY <1>1, <1>3 DEF OrderInv, CapturedIsReal, ReleasedHadNothing, RefundedIsReal
  <2> QED
    BY <1>1, <1>3, <2>1, MoveStep
<1>4. CASE MarkPaid(r)
  <2>1. PICK q \in Tasks : Become(r, q) /\ Sound(q) /\ Earned(r, q)
    <3> DEFINE m == [NoTask EXCEPT !.op = "confirm", !.pc = "mark"]
               l == [NoTask EXCEPT !.op = "capture", !.pc = "load"]
    <3>1. /\ m \in Tasks /\ m.op = "confirm" /\ m.pc = "mark" /\ ~m.found
          /\ l \in Tasks /\ l.op = "capture" /\ l.pc = "load" /\ ~l.found
      BY IdleIs DEF Tasks
    <3>2. \/ task[r].found /\ Become(r, m)
          \/ Become(r, l) \/ Become(r, NoTask)
      BY <1>4 DEF MarkPaid
    <3> HIDE DEF m, l
    <3>3. task[r].found => Sound(m) /\ Earned(r, m)
      BY <1>1, <3>1 DEF Sound, Earned
    <3>4. Sound(l) /\ Earned(r, l)
      BY <3>1, Harmless
    <3> QED
      BY <3>1, <3>2, <3>3, <3>4, IdleIs, IdleIsHarmless
  <2>2. order' \in Orders /\ order'.pay = "paid" /\ order'.captured = order.captured
    BY <1>1, <1>4 DEF MarkPaid, Orders, PaymentStatus
  <2>3. order'.captured => ledger.captured > 0
    BY Zenon, <1>2, <2>2
  <2> QED
    BY <1>3, <2>1, <2>2, <2>3
<1>5. CASE MarkCaptured(r)
  <2> DEFINE s == [task[r] EXCEPT !.pc = "settle"]
  <2>1. s \in Tasks /\ s.pc = "settle" /\ s.op = task[r].op /\ s.amount = task[r].amount
        /\ s.call = task[r].call /\ s.found = task[r].found /\ s.crossed = task[r].crossed
    BY <1>1 DEF Tasks
  <2>2. task[r].pc = "mark" /\ ledger.captured > 0
    BY <1>1, <1>5 DEF MarkCaptured, IsAt, Sound
  <2>3. (task[r].op = "refund" /\ Become(r, s)) \/ Become(r, NoTask)
    BY <1>5 DEF MarkCaptured
  <2>4. order' \in Orders /\ order'.pay = order.pay
    BY <1>1, <1>5 DEF MarkCaptured, Orders
  <2> HIDE DEF s
  <2>5. task[r].op = "refund" => Sound(s)
    BY <1>1, <2>1, <2>2 DEF Sound
  <2>6. task[r].op = "refund" => Earned(r, s)
    <3>1. s.crossed <=> task[r].crossed
      BY Zenon, <2>1
    <3> QED
      BY <1>1, <2>1, <2>2, <3>1 DEF Earned
  <2> QED
    BY <1>2, <1>3, <2>1, <2>2, <2>3, <2>4, <2>5, <2>6, IdleIs, IdleIsHarmless
<1>6. CASE MarkReleased(r)
  <2>1. ledger.gone /\ Become(r, NoTask)
    BY <1>1, <1>6 DEF MarkReleased, IsAt, Sound
  <2>2. ledger.captured = 0
    BY <2>1 DEF LedgerInv, MoneyInv
  <2>3. order' \in Orders /\ order'.captured = order.captured
    BY <1>1, <1>6 DEF MarkReleased, Orders, PaymentStatus
  <2>4. order'.captured => ledger.captured > 0
    BY Zenon, <1>2, <2>3
  <2> QED
    BY <1>3, <2>1, <2>2, <2>3, <2>4, IdleIs, IdleIsHarmless
<1>7. CASE Settle(r)
  <2>1. task[r].pc = "settle" /\ Become(r, NoTask)
    BY <1>7 DEF Settle, IsAt
  <2>2. \/ order' = order
        \/ /\ task[r].amount = Total /\ order' \in Orders
           /\ order'.pay = "refunded" /\ order'.captured = order.captured
    BY <1>1, <1>7 DEF Settle, Orders, PaymentStatus
  <2>3. CASE order' = order
    BY <1>1, <1>2, <1>3, <2>1, <2>3, IdleIs, IdleIsHarmless
  <2>4. CASE order' # order
    <3>1. ledger.gone \/ ledger.refunded = Total
      BY <1>1, <2>1, <2>2, <2>4 DEF Sound
    <3>2. order'.captured => ledger.captured > 0
      BY Zenon, <1>2, <2>2, <2>4
    <3> QED
      BY <1>3, <2>1, <2>2, <2>4, <3>1, <3>2, IdleIs, IdleIsHarmless
  <2> QED
    BY <2>3, <2>4
<1> QED
  BY <1>4, <1>5, <1>6, <1>7

LEMMA CloseStep ==
  ASSUME TypeOK, MoneyInv, Close
  PROVE  TypeOK' /\ MoneyInv'
<1>1. /\ order' \in Orders /\ order'.pay = order.pay /\ order'.captured = order.captured
      /\ UNCHANGED <<mode, ledger, wire, task, calls, portal, timeouts, hit, doubted>>
  BY DEF Close, TypeOK, Orders, bounds
<1>2. TypeOK'
  BY <1>1 DEF TypeOK
<1>3. OrderInv'
  BY <1>1 DEF MoneyInv, OrderInv, CapturedIsReal, ReleasedHadNothing, RefundedIsReal
<1>4. LedgerInv' /\ TaskInv' /\ KeyInv'
  BY <1>1 DEF MoneyInv, LedgerInv, TaskInv, KeyInv, Sound, Earned, OneKey, Refunding
<1> QED
  BY <1>2, <1>3, <1>4 DEF MoneyInv

-------------------------------------------------------------------------------
LEMMA InitMoney == Init => TypeOK /\ MoneyInv
<1> SUFFICES ASSUME Init PROVE TypeOK /\ MoneyInv
  OBVIOUS
<1>1. /\ \A r \in Handlers : task[r] = NoTask /\ hit[r] = 0
      /\ task \in [Handlers -> {NoTask}] /\ hit \in [Handlers -> {0}]
      /\ wire = {} /\ mode \in {"on_shipment", "immediate"} /\ doubted = FALSE
      /\ calls = 0 /\ portal = 0 /\ timeouts = 0
  BY DEF Init
<1>2. /\ order = [pay |-> "awaiting_payment", captured |-> FALSE, closed |-> FALSE]
      /\ ledger = [gone |-> FALSE, captured |-> 0, refunded |-> 0, count |-> 0, keys |-> {}]
  BY DEF Init
<1>3. order \in Orders /\ ledger \in Ledgers
  BY <1>2, TotalPos DEF Orders, Ledgers, PaymentStatus
<1>4. TypeOK
  <2>1. calls \in 0..MaxCalls /\ portal \in 0..MaxPortal /\ timeouts \in 0..MaxTimeouts
    BY <1>1, BoundsNat
  <2>2. doubted \in BOOLEAN
    BY Zenon, <1>1
  <2> QED
    BY <1>1, <1>3, <2>1, <2>2, IdleIs DEF TypeOK
<1>5. LedgerInv /\ OrderInv
  BY <1>1, <1>2 DEF LedgerInv, OrderInv, CapturedIsReal, ReleasedHadNothing, RefundedIsReal
<1>6. TaskInv
  BY <1>1, IdleIsHarmless DEF TaskInv
<1>7. KeyInv
  BY <1>1 DEF KeyInv, OneKey, Refunding
<1> QED
  BY <1>4, <1>5, <1>6, <1>7 DEF MoneyInv

LEMMA NextMoney == TypeOK /\ MoneyInv /\ [Next]_vars => TypeOK' /\ MoneyInv'
<1> SUFFICES ASSUME TypeOK, MoneyInv, [Next]_vars PROVE TypeOK' /\ MoneyInv'
  OBVIOUS
<1>1. CASE Kustom
  BY <1>1, PortalStep, ExecuteStep DEF Kustom
<1>2. CASE Close
  BY <1>2, CloseStep
<1>3. ASSUME NEW r \in Handlers, Request(r) \/ Step(r) \/ TimeOut(r) \/ Die(r)
      PROVE  TypeOK' /\ MoneyInv'
  BY <1>3, RequestStep, AskStep, LoadStep, ReadStep, RefundStep, WriteStep DEF Request, Step
<1>4. CASE UNCHANGED vars
  BY <1>4 DEF vars, bounds, TypeOK, MoneyInv, LedgerInv, TaskInv, KeyInv, Sound, Earned, OneKey, Refunding,
              OrderInv, CapturedIsReal, ReleasedHadNothing, RefundedIsReal
<1> QED
  BY <1>1, <1>2, <1>3, <1>4 DEF Next

\* The order, Kustom's ledger, the calls under way and the requests are always
\* of the shape KustomMoney declares: no more is captured than was authorized.
THEOREM Typing == Spec => []TypeOK
BY InitMoney, NextMoney, PTL DEF Spec

\* What our order says of its money is so at Kustom: captured, released and
\* refunded are never written for money that is elsewhere, a refund that is
\* tried again under its key is executed once, and one that is reported moved
\* money (captureOrder, refundOrder, syncReleasedAuthorization).
THEOREM MoneyIsAsKustomHasIt == Spec => []MoneyIsReal
<1>1. TypeOK /\ MoneyInv => MoneyIsReal
  <2> SUFFICES ASSUME TypeOK, MoneyInv PROVE MoneyIsReal
    OBVIOUS
  <2>1. RefundedOnce
    BY DEF RefundedOnce, MoneyInv, KeyInv, OneKey
  <2>2. ReportedIsReal
    BY DEF ReportedIsReal, MoneyInv, TaskInv, Sound, Earned, IsAt
  <2> QED
    BY <2>1, <2>2 DEF MoneyIsReal, MoneyInv, OrderInv
<1> QED
  BY <1>1, InitMoney, NextMoney, PTL DEF Spec


-------------------------------------------------------------------------------
(* The page: typing.                                                        *)

LEMMA Apart ==
  ASSUME NEW q, q \in Kinds
  PROVE  /\ q.op = "open" => q \in Opens \cup Claims
         /\ q.op = "open" /\ q.at # "claim" => q \in Opens
         /\ q.op = "open" /\ q.at = "claim" => q \in Claims
         /\ q.op = "verify" => q \in Verifiers \cup Syncs /\ q.id \in Checkouts
         /\ q.op = "verify" /\ q.at \in {"read", "pay"} => q \in Verifiers
         /\ q.op = "verify" /\ q.at \in {"look", "make", "point", "tell"} => q \in Syncs
         /\ q.op = "verify" /\ q.at \in {"make", "point", "tell"} => q.from \in Typed
BY DEF Kinds, Opens, Claims, Verifiers, Syncs, Idle, Over

LEMMA KindsAre ==
  /\ Opens \subseteq Kinds /\ Claims \subseteq Kinds /\ Verifiers \subseteq Kinds
  /\ Syncs \subseteq Kinds /\ Over \in Kinds /\ Idle \in Kinds
BY DEF Kinds

LEMMA OpenFields ==
  ASSUME NEW q, q \in Opens \cup Claims
  PROVE  /\ q.op = "open" /\ q.held \in Held /\ q.token \in Tokens /\ q.taxed \in BOOLEAN
         /\ q.made \in Held /\ (q \in Claims => q.made \in Checkouts)
BY DEF Opens, Claims, Held

LEMMA KnownIsSession ==
  ASSUME PageTypeOK, NEW c \in Checkouts
  PROVE  /\ c \in Known <=> checkout[c] \in Sessions
         /\ c \in Known => Unknown # checkout[c]
         /\ c \notin Known => checkout[c] = Unknown
BY DEF PageTypeOK, Known, Unknown, Sessions

LEMMA IsKnown ==
  ASSUME NEW c, NEW s, Is(c, s)
  PROVE  c \in Known /\ c \in Checkouts /\ checkout[c].status = s
BY DEF Is, Known

\* A request of the other kinds takes the place of the one that was there.
LEMMA RequestTyping ==
  ASSUME PageTypeOK, NEW r \in Requests, NEW q, q \in Kinds,
         req' = [req EXCEPT ![r] = q]
  PROVE  /\ req' \in [Requests -> Kinds]
         /\ req'[r] = q /\ \A x \in Requests \ {r} : req'[x] = req[x]
BY DEF PageTypeOK

\* Where a request of each kind can go on.
LEMMA OpenMoves ==
  ASSUME NEW q, q \in Opens \cup Claims, NEW at \in {"token", "tax", "existing", "create"},
         NEW h \in Held
  PROVE  [q EXCEPT !.held = h, !.at = at] \in Opens
BY DEF Opens, Claims, Held

LEMMA SyncMoves ==
  ASSUME NEW q, q \in Syncs, q.at \in {"make", "point", "tell"}, NEW at \in {"make", "point", "tell"}
  PROVE  [q EXCEPT !.at = at] \in Syncs
BY DEF Syncs

\* A step of one request, and what else it may write.
LEMMA StepTyping ==
  ASSUME PageTypeOK, NEW r \in Requests, NEW q,
         q \in Kinds,
         req' = [req EXCEPT ![r] = q],
         sale' \in PlacedOrders, checkout' \in [Checkouts -> Sessions \cup {Unknown}],
         book' \in [Typed -> Nat], mismatch' \in BOOLEAN, handed' \subseteq Checkouts,
         cuts' \in 0..MaxCuts, missed' \in BOOLEAN
  PROVE  PageTypeOK'
BY RequestTyping DEF PageTypeOK

LEMMA QuietTyping ==
  ASSUME PageTypeOK, NEW r \in Requests, NEW q,
         q \in Kinds,
         req' = [req EXCEPT ![r] = q],
         UNCHANGED <<sale, checkout, book, mismatch, handed, cuts, missed>>
  PROVE  PageTypeOK'
BY StepTyping DEF PageTypeOK

LEMMA OrderTyping ==
  ASSUME PageTypeOK
  PROVE  /\ sale.held \in Held /\ sale.token \in Tokens /\ sale.taxed \in BOOLEAN
         /\ sale.address \in Typed
         /\ \A h \in Held : [sale EXCEPT !.held = h] \in PlacedOrders
         /\ \A h \in Held : [sale EXCEPT !.held = h, !.pay = "paid"] \in PlacedOrders
         /\ \A a \in Typed : [sale EXCEPT !.address = a] \in PlacedOrders
         /\ \A t \in Tokens : [sale EXCEPT !.token = t] \in PlacedOrders
         /\ [sale EXCEPT !.taxed = TRUE] \in PlacedOrders /\ [sale EXCEPT !.pay = "failed"] \in PlacedOrders
BY DEF PageTypeOK, PlacedOrders

LEMMA CutTyping == ASSUME PageTypeOK, Cut PROVE cuts' \in 0..MaxCuts
BY MaxCutsNat DEF PageTypeOK, Cut

\* The payment page.
LEMMA OpenTyping ==
  ASSUME PageTypeOK, NEW r \in Requests,
         \/ OpenPage(r) \/ WriteToken(r) \/ BackfillTax(r) \/ TakeUp(r) \/ CreateCheckout(r) \/ Claim(r)
  PROVE  PageTypeOK'
<1>1. /\ req[r] \in Kinds
      /\ Over \in Kinds /\ None \in Held
      /\ r \in Tokens /\ Opens \subseteq Kinds /\ Claims \subseteq Kinds /\ Verifiers \subseteq Kinds
  BY KindsAre DEF PageTypeOK, Held, Tokens
<1>2. CASE OpenPage(r)
  <2> DEFINE q == [op |-> "open", at |-> FirstStep(sale.token, sale.taxed), held |-> sale.held,
                   token |-> sale.token, taxed |-> sale.taxed, made |-> None]
  <2>1. q \in Opens
    BY <1>1, OrderTyping DEF Opens, FirstStep
  <2>2. req' = [req EXCEPT ![r] = q] \/ req' = [req EXCEPT ![r] = Over]
    BY <1>2 DEF OpenPage, Ends, Done, Start
  <2> HIDE DEF q
  <2> QED
    BY <1>1, <1>2, <2>1, <2>2, QuietTyping DEF OpenPage
<1>3. CASE WriteToken(r)
  <2> DEFINE q == [req[r] EXCEPT !.token = r, !.at = FirstStep(r, req[r].taxed)]
  <2>1. req[r] \in Opens
    BY <1>1, <1>3, Apart DEF WriteToken, At
  <2>2. q \in Opens
    <3>1. FirstStep(r, req[r].taxed) \in {"token", "tax", "existing", "create"}
      BY DEF FirstStep
    <3> QED
      BY <1>1, <2>1, <3>1 DEF Opens
  <2>3. req' = [req EXCEPT ![r] = q]
    BY <1>3, <2>1 DEF WriteToken, PageTypeOK, Opens
  <2>4. sale' \in PlacedOrders
    BY <1>1, <1>3, OrderTyping DEF WriteToken
  <2> HIDE DEF q
  <2> QED
    BY <1>1, <1>3, <2>2, <2>3, <2>4, StepTyping DEF WriteToken, PageTypeOK
<1>4. CASE BackfillTax(r)
  <2> DEFINE q == [req[r] EXCEPT !.held = sale.held, !.at = "existing"]
  <2>1. req[r] \in Opens
    BY <1>1, <1>4, Apart DEF BackfillTax, At
  <2>2. q \in Opens
    BY <2>1, OpenMoves, OrderTyping
  <2>3. req' = [req EXCEPT ![r] = q]
    BY <1>4, <2>1 DEF BackfillTax, PageTypeOK, Opens
  <2>4. sale' \in PlacedOrders
    BY <1>4, OrderTyping DEF BackfillTax
  <2> HIDE DEF q
  <2> QED
    BY <1>1, <1>4, <2>2, <2>3, <2>4, StepTyping DEF BackfillTax, PageTypeOK
<1>5. CASE TakeUp(r)
  <2> DEFINE c == req[r].held
             q == [req[r] EXCEPT !.at = "create"]
             v == [op |-> "verify", at |-> "read", id |-> c, held |-> sale.held]
  <2>1. req[r] \in Opens /\ c \in Held /\ req[r].made \in Held
    BY <1>1, <1>5, Apart, OpenFields DEF TakeUp, At
  <2>2. q \in Opens
    BY <2>1 DEF Opens
  <2>3. c # None => c \in Checkouts /\ v \in Verifiers
    BY <2>1, OrderTyping DEF Held, Verifiers
  <2>4. req' = [req EXCEPT ![r] = q] \/ req' = [req EXCEPT ![r] = Over]
        \/ (c # None /\ req' = [req EXCEPT ![r] = v])
    BY <1>5 DEF TakeUp, GoesTo, Gives, Verifies, Start, Ends, Done
  <2>5. handed' \subseteq Checkouts
    <3>1. \/ handed' = handed
          \/ req[r].made # None /\ handed' = handed \cup {req[r].made}
          \/ c # None /\ handed' = handed \cup {c}
      BY <1>5 DEF TakeUp, Gives
    <3> QED
      BY <2>1, <3>1 DEF PageTypeOK, Held
  <2>6. checkout' \in [Checkouts -> Sessions \cup {Unknown}]
    <3>1. \/ checkout' = checkout
          \/ c # None /\ checkout' = [checkout EXCEPT ![c].ours = TRUE]
      BY <1>5 DEF TakeUp
    <3>2. \A x \in Checkouts : [checkout[x] EXCEPT !.ours = TRUE] \in Sessions \cup {Unknown}
      BY ZenonT(40) DEF PageTypeOK, Sessions, Unknown
    <3> QED
      BY <2>3, <3>1, <3>2 DEF PageTypeOK
  <2>7. UNCHANGED <<sale, book, mismatch, cuts, missed>>
    BY <1>5 DEF TakeUp
  <2> HIDE DEF q, v, c
  <2> QED
    BY <1>1, <2>2, <2>3, <2>4, <2>5, <2>6, <2>7, StepTyping DEF PageTypeOK
<1>6. CASE CreateCheckout(r)
  <2>1. req[r] \in Opens
    BY <1>1, <1>6, Apart DEF CreateCheckout, At
  <2>2. PICK c \in Checkouts \ Known :
          /\ checkout' = [checkout EXCEPT ![c] =
               [status |-> "incomplete", token |-> req[r].token, ours |-> TRUE,
                address |-> Home, approved |-> FALSE, told |-> FALSE]]
          /\ req' = [req EXCEPT ![r].made = c, ![r].at = "claim"]
    BY <1>6 DEF CreateCheckout
  <2> DEFINE q == [req[r] EXCEPT !.made = c, !.at = "claim"]
  <2>3. q \in Claims
    BY <2>1 DEF Opens, Claims
  <2>4. req' = [req EXCEPT ![r] = q]
    BY <2>1, <2>2 DEF PageTypeOK, Opens
  <2>5. [status |-> "incomplete", token |-> req[r].token, ours |-> TRUE,
         address |-> Home, approved |-> FALSE, told |-> FALSE] \in Sessions
    BY <2>1, NoneIsNothing DEF Opens, Sessions
  <2>6. checkout' \in [Checkouts -> Sessions \cup {Unknown}]
    BY <2>2, <2>5 DEF PageTypeOK
  <2> HIDE DEF q
  <2> QED
    BY <1>1, <1>6, <2>3, <2>4, <2>6, StepTyping DEF CreateCheckout, PageTypeOK
<1>7. CASE Claim(r)
  <2> DEFINE q == [req[r] EXCEPT !.at = "existing", !.held = sale.held]
  <2>1. req[r] \in Claims /\ req[r].made \in Checkouts /\ req[r].made \in Held
    BY <1>1, <1>7, Apart, OpenFields DEF Claim, At
  <2>2. q \in Opens
    BY <2>1, OrderTyping DEF Opens, Claims
  <2>3. \/ /\ sale' = [sale EXCEPT !.held = req[r].made] /\ req' = [req EXCEPT ![r] = Over]
           /\ handed' = handed \cup {req[r].made}
        \/ req' = [req EXCEPT ![r] = q] /\ UNCHANGED <<sale, handed>>
    BY <1>7, <2>1 DEF Claim, Gives, Ends, Done, PageTypeOK, Claims
  <2>4. UNCHANGED <<checkout, book, mismatch, cuts, missed>>
    BY <1>7 DEF Claim
  <2> HIDE DEF q
  <2>5. handed' \subseteq Checkouts
    BY <2>1, <2>3 DEF PageTypeOK
  <2> QED
    BY <1>1, <2>1, <2>2, <2>3, <2>4, <2>5, OrderTyping, StepTyping, ZenonT(40) DEF PageTypeOK
<1> QED
  BY <1>2, <1>3, <1>4, <1>5, <1>6, <1>7

\* Kustom, the customer, and time.
LEMMA KustomTyping ==
  ASSUME PageTypeOK, NEW c \in Checkouts,
         Validate(c) \/ Complete(c) \/ Amend(c) \/ Expire(c) \/ Abandon
  PROVE  PageTypeOK'
<1>1. CASE Abandon
  BY <1>1, OrderTyping DEF Abandon, PageTypeOK
<1>2. ASSUME NEW s \in Sessions, checkout' = [checkout EXCEPT ![c] = s], cuts' \in 0..MaxCuts,
             UNCHANGED <<sale, book, mismatch, handed, req, missed>>
      PROVE  PageTypeOK'
  BY <1>2 DEF PageTypeOK
<1>3. CASE Validate(c) \/ Complete(c) \/ Amend(c) \/ Expire(c)
  <2>1. checkout[c] \in Sessions
    BY <1>3, IsKnown, KnownIsSession DEF Validate, Complete, Amend, Expire
  <2>2. /\ \A a \in Typed : [checkout[c] EXCEPT !.approved = TRUE, !.address = a] \in Sessions
        /\ [checkout[c] EXCEPT !.status = "complete"] \in Sessions
        /\ [checkout[c] EXCEPT !.ours = FALSE] \in Sessions
        /\ [checkout[c] EXCEPT !.status = "expired"] \in Sessions
    BY <2>1 DEF Sessions
  <2>3. \/ \E a \in Typed :
             checkout' = [checkout EXCEPT ![c] = [checkout[c] EXCEPT !.approved = TRUE, !.address = a]]
        \/ checkout' = [checkout EXCEPT ![c] = [checkout[c] EXCEPT !.status = "complete"]]
        \/ checkout' = [checkout EXCEPT ![c] = [checkout[c] EXCEPT !.ours = FALSE]]
        \/ checkout' = [checkout EXCEPT ![c] = [checkout[c] EXCEPT !.status = "expired"]]
    <3>1. CASE Validate(c)
      BY <2>1, <3>1, ZenonT(40) DEF Validate, PageTypeOK, Sessions
    <3>2. CASE Complete(c)
      BY <3>2 DEF Complete
    <3>3. CASE Amend(c)
      BY <3>3 DEF Amend
    <3>4. CASE Expire(c)
      BY <3>4 DEF Expire
    <3> QED
      BY <1>3, <3>1, <3>2, <3>3, <3>4
  <2>4. \E s \in Sessions : checkout' = [checkout EXCEPT ![c] = s]
    BY <2>2, <2>3
  <2>5. UNCHANGED <<sale, book, mismatch, handed, req, missed>> /\ cuts' \in 0..MaxCuts
    BY <1>3, CutTyping DEF Validate, Complete, Amend, Expire, PageTypeOK
  <2> QED
    BY <1>2, <2>4, <2>5
<1> QED
  BY <1>1, <1>3

\* Only a completed checkout is verified.
Verified == \A r \in Requests : req[r].op = "verify" => Is(req[r].id, "complete")
TypeInv  == PageTypeOK /\ Verified

\* The verification of a completed checkout.
LEMMA VerifyTyping ==
  ASSUME PageTypeOK, Verified, NEW r \in Requests,
         \/ \E c \in Checkouts : Push(r, c)
         \/ ConfirmPage(r) \/ ReadLive(r) \/ MarkOrderPaid(r) \/ FindAddress(r) \/ MakeAddress(r)
         \/ PointTo(r) \/ Acknowledge(r) \/ AddressFails(r) \/ Dies(r)
  PROVE  PageTypeOK'
<1>1. /\ req[r] \in Kinds /\ Over \in Kinds /\ None \in Held /\ Verifiers \subseteq Kinds
      /\ Syncs \subseteq Kinds /\ checkout \in [Checkouts -> Sessions \cup {Unknown}]
      /\ book \in [Typed -> Nat]
  BY KindsAre DEF PageTypeOK, Held
<1>2. \A c \in Checkouts :
        [op |-> "verify", at |-> "read", id |-> c, held |-> sale.held] \in Verifiers
  BY OrderTyping DEF Verifiers
<1>3. ASSUME NEW c \in Checkouts, Push(r, c) PROVE PageTypeOK'
  <2> DEFINE q == [op |-> "verify", at |-> "read", id |-> c, held |-> sale.held]
  <2>1. req' = [req EXCEPT ![r] = q] \/ req' = [req EXCEPT ![r] = Over]
    BY <1>3 DEF Push, Verifies, Start, Ends, Done
  <2>2. q \in Kinds
    BY <1>1, <1>2
  <2> HIDE DEF q
  <2> QED
    BY <1>1, <1>3, <2>1, <2>2, QuietTyping DEF Push
<1>4. CASE ConfirmPage(r)
  <2> DEFINE c == sale.held
             q == [op |-> "verify", at |-> "read", id |-> c, held |-> sale.held]
  <2>1. c \in Checkouts
    BY <1>4, OrderTyping DEF ConfirmPage, Held
  <2>2. req' = [req EXCEPT ![r] = q] \/ req' = [req EXCEPT ![r] = Over]
    BY <1>4 DEF ConfirmPage, Verifies, Start, Ends, Done
  <2>3. q \in Kinds
    BY <1>1, <1>2, <2>1
  <2> HIDE DEF q
  <2> QED
    BY <1>1, <1>4, <2>2, <2>3, QuietTyping DEF ConfirmPage
<1>5. CASE ReadLive(r)
  <2> DEFINE q == [req[r] EXCEPT !.at = "pay"]
  <2>1. req[r] \in Verifiers
    BY <1>1, <1>5, Apart DEF ReadLive, At
  <2>2. q \in Kinds
    BY <1>1, <2>1 DEF Verifiers
  <2>3. req' = [req EXCEPT ![r] = q] \/ req' = [req EXCEPT ![r] = Over]
    BY <1>5 DEF ReadLive, GoesTo, Ends, Done
  <2>4. UNCHANGED <<sale, checkout, book, handed, cuts, missed>> /\ mismatch' \in BOOLEAN
    BY <1>5 DEF ReadLive, RecordMismatch, PageTypeOK
  <2> HIDE DEF q
  <2> QED
    BY <1>1, <2>2, <2>3, <2>4, StepTyping DEF PageTypeOK
<1>6. CASE MarkOrderPaid(r)
  <2> DEFINE q == [op |-> "verify", at |-> "look", id |-> req[r].id]
             h == IF req[r].held = None THEN req[r].id ELSE sale.held
  <2>1. req[r] \in Verifiers
    BY <1>1, <1>6, Apart DEF MarkOrderPaid, At
  <2>2. q \in Kinds /\ h \in Held
    BY <1>1, <2>1, OrderTyping DEF Verifiers, Syncs, Held
  <2>3. req' = [req EXCEPT ![r] = q] /\ sale' = [sale EXCEPT !.held = h, !.pay = "paid"]
    BY <1>6 DEF MarkOrderPaid
  <2>4. UNCHANGED <<checkout, book, mismatch, handed, cuts, missed>>
    BY <1>6 DEF MarkOrderPaid
  <2> HIDE DEF q, h
  <2> QED
    BY <2>2, <2>3, <2>4, OrderTyping, StepTyping DEF PageTypeOK
<1>7. CASE FindAddress(r)
  <2> DEFINE at == IF checkout[req[r].id].address = sale.address THEN "tell"
                   ELSE IF book[checkout[req[r].id].address] > 0 THEN "point" ELSE "make"
             q == [op |-> "verify", id |-> req[r].id, from |-> sale.address, at |-> at]
  <2>1. req[r].id \in Checkouts
    BY <1>1, <1>7, Apart DEF FindAddress, At
  <2>2. at \in {"make", "point", "tell"}
    OBVIOUS
  <2>3. req' = [req EXCEPT ![r] = q]
    BY <1>7 DEF FindAddress
  <2> HIDE DEF at
  <2>4. q \in Kinds
    BY <1>1, <2>1, <2>2, OrderTyping DEF Syncs
  <2> HIDE DEF q
  <2> QED
    BY <1>7, <2>3, <2>4, QuietTyping DEF FindAddress
<1>8. ASSUME req[r] \in Syncs, req[r].at \in {"make", "point", "tell"},
             NEW at \in {"make", "point", "tell"}
      PROVE  [req[r] EXCEPT !.at = at] \in Kinds
  BY <1>1, <1>8, SyncMoves
<1>9. CASE MakeAddress(r)
  <2> DEFINE a == checkout[req[r].id].address
             q == [req[r] EXCEPT !.at = "point"]
  <2>1. q \in Kinds
    BY <1>1, <1>8, <1>9, Apart DEF MakeAddress, At
  <2>2. req' = [req EXCEPT ![r] = q] /\ book' = [book EXCEPT ![a] = @ + 1]
    BY <1>9 DEF MakeAddress, GoesTo
  <2> HIDE DEF q
  <2>3. checkout[req[r].id] \in Sessions
    BY <1>9, IsKnown, KnownIsSession DEF MakeAddress, At, Verified
  <2>4. a \in Typed
    BY <2>3 DEF Sessions
  <2> HIDE DEF a
  <2>5. book[a] + 1 \in Nat
    BY <1>1, <2>4
  <2>6. book' \in [Typed -> Nat]
    BY <1>1, <2>2, <2>4, <2>5
  <2> QED
    BY <1>9, <2>1, <2>2, <2>6, StepTyping DEF MakeAddress, PageTypeOK
<1>10. CASE PointTo(r) \/ AddressFails(r)
  <2> DEFINE q == [req[r] EXCEPT !.at = "tell"]
  <2>1. q \in Kinds /\ req[r].id \in Checkouts
    BY <1>1, <1>8, <1>10, Apart DEF PointTo, AddressFails, At
  <2>2. req' = [req EXCEPT ![r] = q]
    BY <1>10 DEF PointTo, AddressFails, GoesTo
  <2> HIDE DEF q
  <2>3. CASE AddressFails(r)
    BY <2>1, <2>2, <2>3, CutTyping, StepTyping DEF AddressFails, PageTypeOK
  <2>4. CASE PointTo(r)
    <3>1. checkout[req[r].id] \in Sessions
      BY <2>1, <2>4, IsKnown, KnownIsSession DEF PointTo, At, Verified
    <3>2. checkout[req[r].id].address \in Typed
      BY <3>1 DEF Sessions
    <3>3. sale' \in PlacedOrders
      BY <2>4, <3>2, OrderTyping DEF PointTo, PageTypeOK
    <3> QED
      BY <2>1, <2>2, <2>4, <3>3, StepTyping DEF PointTo, PageTypeOK
  <2> QED
    BY <1>10, <2>3, <2>4
<1>11. CASE Acknowledge(r)
  <2>1. req[r].id \in Checkouts /\ checkout[req[r].id] \in Sessions
    BY <1>1, <1>11, Apart, IsKnown, KnownIsSession DEF Acknowledge, At, Verified
  <2>2. [checkout[req[r].id] EXCEPT !.told = TRUE] \in Sessions
    BY <2>1 DEF Sessions
  <2>3. checkout' \in [Checkouts -> Sessions \cup {Unknown}]
    BY <1>1, <1>11, <2>1, <2>2 DEF Acknowledge
  <2> QED
    BY <1>1, <1>11, <2>3, StepTyping DEF Acknowledge, Ends, Done, PageTypeOK
<1>12. CASE Dies(r)
  BY <1>1, <1>12, CutTyping, StepTyping DEF Dies, Ends, Done, PageTypeOK
<1> QED
  BY <1>3, <1>4, <1>5, <1>6, <1>7, <1>9, <1>10, <1>11, <1>12

-------------------------------------------------------------------------------
(* What Kustom has under an id, and what a request is about.                 *)

\* A checkout that is known stays known, one that is complete or expired stays
\* so, the approval and the address approved stay, and only what was
\* acknowledged is told.
Stays(c) ==
  /\ c \in Known'
  /\ checkout[c].status # "incomplete" => checkout'[c].status = checkout[c].status
  /\ checkout[c].approved =>
       checkout'[c].approved /\ checkout'[c].address = checkout[c].address

\* Only our validation approves one, only the customer completes it, only time
\* lets it expire, and only we acknowledge it.
Grew(c) ==
  c \in Known' =>
    /\ checkout'[c].approved => (c \in Known /\ checkout[c].approved) \/ Validate(c)
    /\ checkout'[c].status = "complete" => Is(c, "complete") \/ Complete(c)
    /\ checkout'[c].status = "expired" => Is(c, "expired") \/ Expire(c)
    /\ checkout'[c].told => \/ c \in Known /\ checkout[c].told
                           \/ \E r \in Requests : Acknowledge(r) /\ req[r].id = c
Moves == (\A x \in Known : Stays(x)) /\ (\A x \in Checkouts : Grew(x))

LEMMA Keeps ==
  ASSUME PageTypeOK, NEW c \in Known, NEW s \in Sessions,
         checkout' = [checkout EXCEPT ![c] = s],
         checkout[c].status # "incomplete" => s.status = checkout[c].status,
         checkout[c].approved => s.approved /\ s.address = checkout[c].address,
         s.approved => checkout[c].approved \/ Validate(c),
         s.status = checkout[c].status \/ (s.status = "complete" /\ Complete(c))
           \/ (s.status = "expired" /\ Expire(c)),
         s.told => checkout[c].told \/ \E r \in Requests : Acknowledge(r) /\ req[r].id = c
  PROVE  Moves
<1>1. s # Unknown
  BY DEF Sessions, Unknown
<1>2. checkout'[c] = s /\ \A x \in Checkouts \ {c} : checkout'[x] = checkout[x]
  BY DEF Known, PageTypeOK
<1>3. \A x \in Known : Stays(x)
  BY <1>1, <1>2 DEF Stays, Known
<1>4. \A x \in Checkouts \ {c} : Grew(x)
  BY <1>2 DEF Grew, Known, Is
<1>5. Grew(c)
  BY <1>2 DEF Grew, Is
<1> QED
  BY <1>3, <1>4, <1>5 DEF Moves

LEMMA KustomKeeps ==
  ASSUME PageTypeOK, NEW c \in Checkouts,
         Validate(c) \/ Complete(c) \/ Amend(c) \/ Expire(c)
  PROVE  Moves
<1>1. c \in Known /\ checkout[c] \in Sessions
  BY IsKnown, KnownIsSession DEF Validate, Complete, Amend, Expire
<1>2. CASE Validate(c)
  <2>1. PICK a \in Typed : checkout' = [checkout EXCEPT ![c].approved = TRUE, ![c].address = a]
    BY <1>2 DEF Validate
  <2> DEFINE s == [checkout[c] EXCEPT !.approved = TRUE, !.address = a]
  <2>2. s \in Sessions /\ s.status = checkout[c].status /\ ~checkout[c].approved
        /\ s.told = checkout[c].told
    BY <1>1, <1>2 DEF Validate, Sessions
  <2>3. checkout' = [checkout EXCEPT ![c] = s]
    BY <1>1, <2>1 DEF PageTypeOK, Sessions
  <2> HIDE DEF s
  <2> QED
    BY <1>1, <1>2, <2>2, <2>3, Keeps
<1>3. CASE Complete(c)
  <2> DEFINE s == [checkout[c] EXCEPT !.status = "complete"]
  <2>1. s \in Sessions /\ s.approved = checkout[c].approved /\ s.address = checkout[c].address
        /\ checkout[c].status = "incomplete" /\ s.status = "complete" /\ s.told = checkout[c].told
    BY <1>1, <1>3, IsKnown DEF Complete, Sessions
  <2>2. checkout' = [checkout EXCEPT ![c] = s]
    BY <1>3 DEF Complete
  <2> HIDE DEF s
  <2> QED
    BY <1>1, <1>3, <2>1, <2>2, Keeps
<1>4. CASE Amend(c)
  <2> DEFINE s == [checkout[c] EXCEPT !.ours = FALSE]
  <2>1. s \in Sessions /\ s.approved = checkout[c].approved /\ s.address = checkout[c].address
        /\ s.status = checkout[c].status /\ s.told = checkout[c].told
    BY <1>1 DEF Sessions
  <2>2. checkout' = [checkout EXCEPT ![c] = s]
    BY <1>4 DEF Amend
  <2> HIDE DEF s
  <2> QED
    BY <1>1, <2>1, <2>2, Keeps
<1>5. CASE Expire(c)
  <2> DEFINE s == [checkout[c] EXCEPT !.status = "expired"]
  <2>1. s \in Sessions /\ ~checkout[c].approved /\ checkout[c].status = "incomplete"
        /\ s.approved = checkout[c].approved /\ s.status = "expired" /\ s.told = checkout[c].told
    BY <1>1, <1>5, IsKnown DEF Expire, Sessions
  <2>2. checkout' = [checkout EXCEPT ![c] = s]
    BY <1>5 DEF Expire
  <2> HIDE DEF s
  <2> QED
    BY <1>1, <1>5, <2>1, <2>2, Keeps
<1> QED
  BY <1>2, <1>3, <1>4, <1>5

LEMMA TakeUpKeeps ==
  ASSUME PageTypeOK, NEW r \in Requests, TakeUp(r)
  PROVE  Moves
<1> DEFINE c == req[r].held
           s == [checkout[c] EXCEPT !.ours = TRUE]
<1>1. CASE checkout' = checkout
  BY <1>1 DEF Moves, Stays, Grew, Known, Is
<1>2. CASE checkout' # checkout
  <2>1. c # None /\ checkout' = [checkout EXCEPT ![c] = s]
    BY <1>2 DEF TakeUp
  <2>2. c \in Checkouts
    BY <2>1, Apart, OpenFields DEF TakeUp, At, PageTypeOK, Held
  <2>3. c \in Known
    <3>1. c \notin Known => checkout[c] = Unknown
      BY <2>2, KnownIsSession
    <3>2. [Unknown EXCEPT !.ours = TRUE] = Unknown
      BY DEF Unknown
    <3>3. c \notin Known => checkout' = checkout
      BY <2>1, <2>2, <3>1, <3>2 DEF PageTypeOK
    <3> QED
      BY <1>2, <3>3
  <2>4. checkout[c] \in Sessions
    BY <2>2, <2>3, KnownIsSession
  <2>5. s \in Sessions /\ s.approved = checkout[c].approved /\ s.address = checkout[c].address
        /\ s.status = checkout[c].status /\ s.told = checkout[c].told
    BY <2>4 DEF Sessions
  <2> HIDE DEF s, c
  <2> QED
    BY <2>1, <2>3, <2>5, Keeps
<1> QED
  BY <1>1, <1>2

LEMMA AcknowledgeKeeps ==
  ASSUME PageTypeOK, Verified, NEW r \in Requests, Acknowledge(r)
  PROVE  Moves
<1> DEFINE c == req[r].id
           s == [checkout[c] EXCEPT !.told = TRUE]
<1>1. c \in Known /\ checkout[c] \in Sessions
  BY IsKnown, KnownIsSession DEF Acknowledge, At, Verified
<1>2. s \in Sessions /\ s.approved = checkout[c].approved /\ s.address = checkout[c].address
      /\ s.status = checkout[c].status
  BY <1>1 DEF Sessions
<1>3. checkout' = [checkout EXCEPT ![c] = s]
  BY DEF Acknowledge
<1>4. Acknowledge(r) /\ req[r].id = c
  OBVIOUS
<1> HIDE DEF s, c
<1> QED
  BY <1>1, <1>2, <1>3, <1>4, Keeps

LEMMA CreateKeeps ==
  ASSUME PageTypeOK, NEW r \in Requests, CreateCheckout(r)
  PROVE  Moves
<1>1. PICK c \in Checkouts \ Known : checkout' = [checkout EXCEPT ![c] =
        [status |-> "incomplete", token |-> req[r].token, ours |-> TRUE,
         address |-> Home, approved |-> FALSE, told |-> FALSE]]
  BY DEF CreateCheckout
<1> DEFINE s == [status |-> "incomplete", token |-> req[r].token, ours |-> TRUE,
                 address |-> Home, approved |-> FALSE, told |-> FALSE]
<1>2. s.status = "incomplete" /\ ~s.approved /\ ~s.told
  OBVIOUS
<1>3. checkout' = [checkout EXCEPT ![c] = s]
  BY <1>1
<1> HIDE DEF s
<1>4. checkout'[c] = s /\ \A x \in Checkouts \ {c} : checkout'[x] = checkout[x]
  BY <1>3 DEF PageTypeOK
<1>5. \A x \in Known : Stays(x)
  BY <1>4 DEF Known, Stays
<1>6. \A x \in Checkouts \ {c} : Grew(x)
  BY <1>4 DEF Grew, Known, Is
<1>7. Grew(c)
  BY <1>2, <1>4 DEF Grew
<1> QED
  BY <1>5, <1>6, <1>7 DEF Moves

\* A step of the next-state relation, by what it does to the checkouts.
PageRequestStep(r) ==
  \/ OpenPage(r) \/ ConfirmPage(r) \/ PageStep(r) \/ AddressFails(r) \/ Dies(r)
  \/ \E c \in Checkouts : Push(r, c)
KustomStep == (\E c \in Checkouts : Validate(c) \/ Complete(c) \/ Amend(c) \/ Expire(c)) \/ Abandon

LEMMA NextIs == PageNext <=> (\E r \in Requests : PageRequestStep(r)) \/ KustomStep
BY Zenon DEF PageNext, PageRequestStep, KustomStep

LEMMA EveryStepKeeps ==
  ASSUME TypeInv, PageNext
  PROVE  Moves
<1>1. ASSUME checkout' = checkout PROVE Moves
  BY <1>1 DEF Moves, Stays, Grew, Known, Is
<1>2. ASSUME NEW r \in Requests, PageRequestStep(r)
      PROVE  Moves
  <2>1. CASE TakeUp(r)
    BY <2>1, TakeUpKeeps DEF TypeInv
  <2>2. CASE CreateCheckout(r)
    BY <2>2, CreateKeeps DEF TypeInv
  <2>3. CASE Acknowledge(r)
    BY <2>3, AcknowledgeKeeps DEF TypeInv
  <2>4. \/ TakeUp(r) \/ CreateCheckout(r) \/ Acknowledge(r)
        \/ checkout' = checkout
    BY <1>2 DEF PageRequestStep, PageStep, OpenPage, ConfirmPage, AddressFails, Dies, Push, WriteToken,
                BackfillTax, Claim, ReadLive, MarkOrderPaid, FindAddress, MakeAddress, PointTo
  <2> QED
    BY <1>1, <2>1, <2>2, <2>3, <2>4
<1>3. CASE KustomStep
  BY <1>1, <1>3, KustomKeeps DEF KustomStep, Abandon, TypeInv
<1> QED
  BY <1>2, <1>3, NextIs

\* A checkout that is complete or expired is so after the step.
LEMMA Settled ==
  ASSUME TypeInv, PageNext, NEW c, NEW s \in {"complete", "expired"}, Is(c, s)
  PROVE  Is(c, s)'
<1>1. c \in Known /\ checkout[c].status = s
  BY IsKnown
<1>2. Stays(c)
  BY <1>1, EveryStepKeeps DEF Moves
<1> QED
  BY <1>1, <1>2 DEF Stays, Is

\* A verification is about the checkout it was about, or begins with one that
\* is complete.
LEMMA VerifierMoves ==
  ASSUME TypeInv, NEW r \in Requests, PageRequestStep(r)
  PROVE  /\ \A x \in Requests \ {r} : req'[x] = req[x]
         /\ req'[r].op = "verify" =>
              \/ req[r].op = "verify" /\ req'[r].id = req[r].id
              \/ Is(req'[r].id, "complete")
<1> DEFINE Goal == /\ \A x \in Requests \ {r} : req'[x] = req[x]
                   /\ req'[r].op = "verify" =>
                        \/ req[r].op = "verify" /\ req'[r].id = req[r].id
                        \/ Is(req'[r].id, "complete")
<1> SUFFICES Goal
  OBVIOUS
<1>1. req \in [Requests -> Kinds]
  BY DEF TypeInv, PageTypeOK
<1>2. ASSUME NEW q, req' = [req EXCEPT ![r] = q],
             q.op = "verify" => \/ req[r].op = "verify" /\ q.id = req[r].id
                                \/ Is(q.id, "complete")
      PROVE  Goal
  <2>1. req'[r] = q
    BY <1>1, <1>2
  <2>2. \A x \in Requests \ {r} : req'[x] = req[x]
    BY <1>1, <1>2
  <2>3. req'[r].op = "verify" =>
          \/ req[r].op = "verify" /\ req'[r].id = req[r].id
          \/ Is(req'[r].id, "complete")
    <3> HIDE DEF Goal
    <3>1. SUFFICES ASSUME q.op = "verify"
                   PROVE  \/ req[r].op = "verify" /\ q.id = req[r].id
                          \/ Is(q.id, "complete")
      BY Zenon, <2>1
    <3> QED
      BY <1>2, <3>1
  <2> QED
    BY <2>2, <2>3
<1> HIDE DEF Goal
<1>3. ASSUME req' = [req EXCEPT ![r] = Over] PROVE Goal
  <2>1. Over.op # "verify"
    BY DEF Over
  <2> QED
    BY <1>2, <1>3, <2>1
<1>4. ASSUME NEW c, Verifies(r, c), Is(c, "complete") PROVE Goal
  <2> DEFINE q == [op |-> "verify", at |-> "read", id |-> c, held |-> sale.held]
  <2>1. req' = [req EXCEPT ![r] = q] /\ q.id = c
    BY <1>4 DEF Verifies, Start
  <2> HIDE DEF q
  <2> QED
    BY <1>2, <1>4, <2>1
<1>5. ASSUME NEW at, GoesTo(r, at) PROVE Goal
  <2> DEFINE q == [req[r] EXCEPT !.at = at]
  <2>1. req' = [req EXCEPT ![r] = q]
    BY <1>5 DEF GoesTo
  <2>2. q.op = req[r].op /\ (req[r].op = "verify" => q.id = req[r].id)
    BY Apart, <1>1 DEF Verifiers, Syncs, Opens, Claims, Kinds, Idle, Over
  <2> HIDE DEF q
  <2> QED
    BY <1>2, <2>1, <2>2
<1>6. CASE OpenPage(r)
  <2> DEFINE q == [op |-> "open", at |-> FirstStep(sale.token, sale.taxed), held |-> sale.held,
                   token |-> sale.token, taxed |-> sale.taxed, made |-> None]
  <2>1. req' = [req EXCEPT ![r] = q] \/ req' = [req EXCEPT ![r] = Over]
    BY <1>6 DEF OpenPage, Ends, Done, Start
  <2>2. q.op # "verify"
    OBVIOUS
  <2> HIDE DEF q
  <2> QED
    BY <1>2, <1>3, <2>1, <2>2
<1>7. ASSUME NEW q, q.op = req[r].op, req[r].op = "open", req' = [req EXCEPT ![r] = q] PROVE Goal
  BY <1>2, <1>7
<1>8. CASE WriteToken(r)
  <2> DEFINE q == [req[r] EXCEPT !.token = r, !.at = FirstStep(r, req[r].taxed)]
  <2>1. req[r] \in Opens /\ req[r].op = "open"
    BY <1>1, <1>8, Apart DEF WriteToken, At
  <2>2. q.op = req[r].op /\ req' = [req EXCEPT ![r] = q]
    BY <1>1, <1>8, <2>1 DEF WriteToken, Opens
  <2> HIDE DEF q
  <2> QED
    BY <1>7, <2>1, <2>2
<1>9. CASE BackfillTax(r)
  <2> DEFINE q == [req[r] EXCEPT !.held = sale.held, !.at = "existing"]
  <2>1. req[r] \in Opens /\ req[r].op = "open"
    BY <1>1, <1>9, Apart DEF BackfillTax, At
  <2>2. q.op = req[r].op /\ req' = [req EXCEPT ![r] = q]
    BY <1>1, <1>9, <2>1 DEF BackfillTax, Opens
  <2> HIDE DEF q
  <2> QED
    BY <1>7, <2>1, <2>2
<1>10. CASE TakeUp(r)
  BY <1>3, <1>4, <1>5, <1>10 DEF TakeUp, Gives, Ends, Done
<1>11. CASE CreateCheckout(r)
  <2>1. PICK c : req' = [req EXCEPT ![r].made = c, ![r].at = "claim"]
    BY <1>11 DEF CreateCheckout
  <2> DEFINE q == [req[r] EXCEPT !.made = c, !.at = "claim"]
  <2>2. req[r] \in Opens /\ req[r].op = "open"
    BY <1>1, <1>11, Apart DEF CreateCheckout, At
  <2>3. q.op = req[r].op /\ req' = [req EXCEPT ![r] = q]
    BY <1>1, <2>1, <2>2 DEF Opens
  <2> HIDE DEF q
  <2> QED
    BY <1>7, <2>2, <2>3
<1>12. CASE Claim(r)
  <2> DEFINE q == [req[r] EXCEPT !.at = "existing", !.held = sale.held]
  <2>1. req[r] \in Claims /\ req[r].op = "open"
    BY <1>1, <1>12, Apart DEF Claim, At
  <2>2. q.op = req[r].op
    BY <2>1 DEF Claims
  <2>3. req' = [req EXCEPT ![r] = q] \/ req' = [req EXCEPT ![r] = Over]
    BY <1>1, <1>12, <2>1 DEF Claim, Gives, Ends, Done, Claims
  <2> HIDE DEF q
  <2> QED
    BY <1>3, <1>7, <2>1, <2>2, <2>3
<1>13. CASE MarkOrderPaid(r)
  <2> DEFINE q == [op |-> "verify", at |-> "look", id |-> req[r].id]
  <2>1. req' = [req EXCEPT ![r] = q] /\ q.id = req[r].id /\ req[r].op = "verify"
    BY <1>13 DEF MarkOrderPaid, At
  <2> HIDE DEF q
  <2> QED
    BY <1>2, <2>1
<1>14. CASE FindAddress(r)
  <2>1. PICK at : req' = [req EXCEPT ![r] =
                     [op |-> "verify", id |-> req[r].id, from |-> sale.address, at |-> at]]
    BY <1>14 DEF FindAddress
  <2> DEFINE q == [op |-> "verify", id |-> req[r].id, from |-> sale.address, at |-> at]
  <2>2. req' = [req EXCEPT ![r] = q] /\ q.id = req[r].id /\ req[r].op = "verify"
    BY <1>14, <2>1 DEF FindAddress, At
  <2> HIDE DEF q
  <2> QED
    BY <1>2, <2>2
<1>15. CASE ConfirmPage(r)
  BY <1>3, <1>4, <1>15 DEF ConfirmPage, Ends, Done
<1>16. CASE \E c \in Checkouts : Push(r, c)
  BY <1>3, <1>4, <1>16 DEF Push, Ends, Done
<1>17. CASE ReadLive(r)
  BY <1>3, <1>5, <1>17 DEF ReadLive, Ends, Done
<1>18. CASE MakeAddress(r) \/ PointTo(r) \/ AddressFails(r)
  BY <1>5, <1>18 DEF MakeAddress, PointTo, AddressFails
<1>19. CASE Acknowledge(r) \/ Dies(r)
  BY <1>3, <1>19 DEF Acknowledge, Dies, Ends, Done
<1> QED
  BY <1>6, <1>8, <1>9, <1>10, <1>11, <1>12, <1>13, <1>14, <1>15, <1>16, <1>17, <1>18, <1>19
     DEF PageRequestStep, PageStep

-------------------------------------------------------------------------------
LEMMA InitTyping == PageInit => TypeInv
<1> SUFFICES ASSUME PageInit PROVE TypeInv
  OBVIOUS
<1>1. \A r \in Requests : req[r] = Idle
  BY DEF PageInit, NoRequests
<1>2. Verified
  BY <1>1 DEF Verified, Idle
<1>3. sale \in PlacedOrders
  BY NoneIsNothing DEF PageInit, PlacedOrders, Tokens, Held
<1>4. checkout \in [Checkouts -> Sessions \cup {Unknown}] /\ book \in [Typed -> Nat]
  BY DEF PageInit
<1>6. mismatch \in BOOLEAN /\ handed \subseteq Checkouts /\ cuts \in 0..MaxCuts /\ missed \in BOOLEAN
  <2>1. mismatch = FALSE /\ handed = {} /\ cuts = 0 /\ missed = FALSE
    BY Zenon DEF PageInit
  <2>2. cuts \in 0..MaxCuts
    BY <2>1, MaxCutsNat
  <2> QED
    BY Zenon, <2>1, <2>2
<1>5. req \in [Requests -> Kinds]
  BY KindsAre DEF PageInit, NoRequests
<1> QED
  BY <1>2, <1>3, <1>4, <1>5, <1>6 DEF TypeInv, PageTypeOK

LEMMA NextTyping == TypeInv /\ [PageNext]_pageVars => TypeInv'
<1> SUFFICES ASSUME TypeInv, [PageNext]_pageVars PROVE TypeInv'
  OBVIOUS
<1>1. CASE PageNext
  <2>1. PageTypeOK'
    <3>1. ASSUME NEW r \in Requests, PageRequestStep(r) PROVE PageTypeOK'
      BY <3>1, OpenTyping, VerifyTyping DEF PageRequestStep, PageStep, TypeInv
    <3>2. CASE \E c \in Checkouts : Validate(c) \/ Complete(c) \/ Amend(c) \/ Expire(c)
      BY <3>2, KustomTyping DEF TypeInv
    <3>3. CASE Abandon
      BY <3>3, OrderTyping DEF Abandon, TypeInv, PageTypeOK
    <3> QED
      BY <1>1, <3>1, <3>2, <3>3, NextIs DEF KustomStep
  <2>2. Verified'
    <3> SUFFICES ASSUME NEW x \in Requests, req'[x].op = "verify"
                 PROVE  Is(req[x].id, "complete")'
      BY DEF Verified
    <3>1. Is(req'[x].id, "complete")
      <4>1. CASE KustomStep
        BY <4>1 DEF KustomStep, Validate, Complete, Amend, Expire, Abandon, TypeInv, Verified
      <4>2. ASSUME NEW r \in Requests, PageRequestStep(r) PROVE Is(req'[x].id, "complete")
        BY <4>2, VerifierMoves DEF TypeInv, Verified
      <4> QED
        BY <1>1, <4>1, <4>2, NextIs
    <3> QED
      BY <1>1, <3>1, Settled
  <2> QED
    BY <2>1, <2>2 DEF TypeInv
<1>2. CASE UNCHANGED pageVars
  BY <1>2 DEF pageVars, TypeInv, PageTypeOK, Verified, Is, Known
<1> QED
  BY <1>1, <1>2

\* Every request, order and checkout is of the shape KustomOrder declares, and
\* only a completed checkout is ever verified.
THEOREM WellTyped == PageSpec => []TypeInv
BY InitTyping, NextTyping, PTL DEF PageSpec

-------------------------------------------------------------------------------
(* The customer pays where the order looks.                                  *)

\* Once a page was handed out the order holds a checkout; only the checkout it
\* holds is ever approved; and a request that has read one, or has made one and
\* lost, knows that the order holds one, and replaces only an expired one.
HandedIsHeld   == handed # {} => sale.held # None
ApprovedIsHeld ==
  \A c \in Known : /\ checkout[c].approved => sale.held = c /\ checkout[c].status # "expired"
                   /\ checkout[c].status = "complete" => checkout[c].approved
KnowsHeld(q) ==
  /\ q.held # None => sale.held # None
  /\ q.at \in {"create", "claim"} => q.held = None \/ Is(q.held, "expired")
  /\ q.made # None => q.at = "claim" \/ sale.held # None
PageInv ==
  /\ HandedIsHeld /\ ApprovedIsHeld
  /\ \A r \in Requests : req[r].op = "open" => KnowsHeld(req[r])

LEMMA CompleteIsHeld ==
  ASSUME PageInv, NEW c, Is(c, "complete")
  PROVE  sale.held = c /\ c \in Known /\ checkout[c].approved
BY IsKnown DEF PageInv, ApprovedIsHeld

\* The order changes to another checkout only from none or an expired one.
Replaces(r) ==
  /\ sale.held = None \/ Is(sale.held, "expired")
  /\ sale'.held = req[r].made /\ req[r].made # None

LEMMA HeldMoves ==
  ASSUME TypeInv, PageInv, PageNext
  PROVE  sale'.held = sale.held \/ \E r \in Requests : Replaces(r)
<1>1. sale.held \in Held /\ sale \in PlacedOrders
  BY OrderTyping DEF TypeInv, PageTypeOK
<1>2. ASSUME NEW r \in Requests, PageRequestStep(r)
      PROVE  sale'.held = sale.held \/ \E x \in Requests : Replaces(x)
  <2>1. CASE Claim(r)
    <3>1. req[r] \in Claims /\ req[r].op = "open" /\ req[r].made \in Checkouts
      BY <2>1, Apart, OpenFields DEF Claim, At, TypeInv, PageTypeOK
    <3>2. req[r].held = None \/ Is(req[r].held, "expired")
      BY <2>1, <3>1 DEF PageInv, KnowsHeld, Claim, At
    <3>3. CASE sale.held \in {None, req[r].held}
      <4>1. sale'.held = req[r].made
        BY <1>1, <2>1, <3>3 DEF Claim, PlacedOrders
      <4> QED
        BY <2>1, <3>1, <3>2, <3>3, <4>1, NoneIsNothing DEF Replaces
    <3>4. CASE sale.held \notin {None, req[r].held}
      BY <2>1, <3>4 DEF Claim
    <3> QED
      BY <3>3, <3>4
  <2>2. CASE MarkOrderPaid(r)
    <3>1. Is(req[r].id, "complete")
      BY <2>2 DEF MarkOrderPaid, At, TypeInv, Verified
    <3>2. sale.held = req[r].id
      BY <3>1, CompleteIsHeld
    <3>3. sale'.held = IF req[r].held = None THEN req[r].id ELSE sale.held
      BY <1>1, <2>2 DEF MarkOrderPaid, PlacedOrders
    <3> QED
      BY <3>2, <3>3
  <2>3. CASE WriteToken(r)
    BY <1>1, <2>3 DEF WriteToken, PlacedOrders
  <2>4. CASE BackfillTax(r)
    BY <1>1, <2>4 DEF BackfillTax, PlacedOrders
  <2>5. CASE PointTo(r)
    BY <1>1, <2>5 DEF PointTo, PlacedOrders
  <2>6. \/ Claim(r) \/ MarkOrderPaid(r) \/ WriteToken(r) \/ BackfillTax(r) \/ PointTo(r)
        \/ sale' = sale
    BY <1>2 DEF PageRequestStep, PageStep, OpenPage, ConfirmPage, AddressFails, Dies, Push, TakeUp,
                CreateCheckout, ReadLive, FindAddress, MakeAddress, Acknowledge
  <2> QED
    BY <2>1, <2>2, <2>3, <2>4, <2>5, <2>6
<1>3. CASE KustomStep
  <2>1. CASE Abandon
    BY <1>1, <2>1 DEF Abandon, PlacedOrders
  <2> QED
    BY <1>3, <2>1 DEF KustomStep, Validate, Complete, Amend, Expire
<1> QED
  BY <1>2, <1>3, NextIs

LEMMA HeldStays ==
  ASSUME TypeInv, PageInv, PageNext
  PROVE  /\ sale.held # None => sale'.held # None
         /\ \A c \in Known : checkout[c].approved => sale'.held = c
<1>1. ASSUME NEW r \in Requests, Replaces(r), NEW c \in Known, checkout[c].approved
      PROVE  FALSE
  <2>1. sale.held = c /\ checkout[c].status # "expired" /\ c \in Checkouts
    BY <1>1 DEF PageInv, ApprovedIsHeld, Known
  <2> QED
    BY <1>1, <2>1, IsKnown, NoneIsNothing DEF Replaces
<1> QED
  BY <1>1, HeldMoves DEF Replaces, PageInv, ApprovedIsHeld

LEMMA HandedStays ==
  ASSUME TypeInv, PageInv, PageNext
  PROVE  HandedIsHeld'
<1>1. ASSUME NEW r \in Requests, PageRequestStep(r)
      PROVE  handed' = handed \/ sale.held # None \/ sale'.held # None
  <2>1. CASE TakeUp(r)
    <3>1. req[r].op = "open" /\ KnowsHeld(req[r]) /\ req[r].at = "existing"
      BY <2>1 DEF TakeUp, At, PageInv
    <3> QED
      BY <2>1, <3>1 DEF TakeUp, KnowsHeld
  <2>2. CASE Claim(r)
    <3>1. req[r].made \in Checkouts /\ sale \in PlacedOrders
      BY <2>2, Apart, OpenFields DEF Claim, At, TypeInv, PageTypeOK
    <3> QED
      BY <2>2, <3>1, NoneIsNothing DEF Claim, PlacedOrders
  <2> QED
    BY <1>1, <2>1, <2>2 DEF PageRequestStep, PageStep, OpenPage, ConfirmPage, AddressFails, Dies, Push, MarkOrderPaid,
        CreateCheckout, ReadLive, FindAddress, MakeAddress, Acknowledge, WriteToken, BackfillTax, PointTo
<1>2. CASE KustomStep
  BY <1>2, HeldStays DEF KustomStep, Validate, Complete, Amend, Expire, Abandon, HandedIsHeld, PageInv
<1> QED
  BY <1>1, <1>2, NextIs, HeldStays DEF HandedIsHeld, PageInv

LEMMA ApprovedStays ==
  ASSUME TypeInv, PageInv, PageNext
  PROVE  ApprovedIsHeld'
<1> SUFFICES ASSUME NEW c \in Known'
             PROVE  /\ checkout'[c].approved => sale'.held = c /\ checkout'[c].status # "expired"
                    /\ checkout'[c].status = "complete" => checkout'[c].approved
  BY DEF ApprovedIsHeld
<1>1. c \in Checkouts /\ Grew(c) /\ (c \in Known => Stays(c))
  BY EveryStepKeeps DEF Known, Moves
<1>2. ASSUME Validate(c)
      PROVE  /\ sale'.held = c /\ checkout'[c].status = "incomplete"
  <2>1. sale.held = c /\ sale' = sale
    BY <1>2 DEF Validate, Accepted, PageInv, HandedIsHeld
  <2>2. c \in Known /\ checkout[c] \in Sessions /\ checkout[c].status = "incomplete"
    BY <1>1, <1>2, IsKnown, KnownIsSession DEF Validate, TypeInv
  <2>3. checkout'[c].status = checkout[c].status
    BY <1>2, <2>2 DEF Validate, Sessions, TypeInv, PageTypeOK, Known
  <2> QED
    BY <2>1, <2>2, <2>3
<1>3. ASSUME Complete(c)
      PROVE  c \in Known /\ checkout[c].approved
  BY <1>3, IsKnown DEF Complete
<1>4. ASSUME Expire(c), c \in Known
      PROVE  ~checkout'[c].approved
  <2>1. checkout[c] \in Sessions
    BY <1>1, <1>4, KnownIsSession DEF TypeInv
  <2> QED
    BY <1>4, <2>1 DEF Expire, Sessions, TypeInv, PageTypeOK, Known
<1>5. checkout'[c].approved => sale'.held = c
  BY <1>1, <1>2, HeldStays DEF Grew
<1>6. checkout'[c].approved => checkout'[c].status # "expired"
  <2> SUFFICES ASSUME checkout'[c].approved, checkout'[c].status = "expired"
               PROVE  FALSE
    OBVIOUS
  <2>1. ~Validate(c)
    BY <1>2
  <2>2. c \in Known /\ checkout[c].approved
    BY <1>1, <2>1 DEF Grew
  <2>3. ~Expire(c)
    BY <1>4, <2>2
  <2>4. Is(c, "expired")
    BY <1>1, <2>3 DEF Grew
  <2> QED
    BY <2>2, <2>4, IsKnown DEF PageInv, ApprovedIsHeld
<1>7. checkout'[c].status = "complete" => checkout'[c].approved
  <2> SUFFICES ASSUME checkout'[c].status = "complete" PROVE checkout'[c].approved
    OBVIOUS
  <2>1. c \in Known /\ checkout[c].approved
    BY <1>1, <1>3, CompleteIsHeld DEF Grew
  <2> QED
    BY <1>1, <2>1 DEF Stays
<1> QED
  BY <1>5, <1>6, <1>7

LEMMA RequestKnows ==
  ASSUME TypeInv, PageInv, NEW r \in Requests, PageRequestStep(r), req'[r].op = "open"
  PROVE  KnowsHeld(req'[r])
<1>1. req[r] \in Kinds /\ (req[r].op = "open" => KnowsHeld(req[r])) /\ req \in [Requests -> Kinds]
  BY DEF PageInv, TypeInv, PageTypeOK
<1>2. CASE OpenPage(r)
  <2> DEFINE q == [op |-> "open", at |-> FirstStep(sale.token, sale.taxed), held |-> sale.held,
                   token |-> sale.token, taxed |-> sale.taxed, made |-> None]
  <2>1. req' = [req EXCEPT ![r] = q] \/ req' = [req EXCEPT ![r] = Over]
    BY <1>2 DEF OpenPage, Ends, Done, Start
  <2>2. q.at \notin {"create", "claim"} /\ q.held = sale.held /\ q.made = None
    BY DEF FirstStep
  <2> HIDE DEF q
  <2>3. req'[r] = q \/ req'[r] = Over
    BY <1>1, <2>1
  <2> QED
    BY <2>2, <2>3 DEF KnowsHeld, Over
<1>3. ASSUME NEW q, req' = [req EXCEPT ![r] = q], req[r].op = "open",
             q.held = req[r].held, q.made = req[r].made,
             q.at \notin {"create", "claim"}, req[r].at # "claim"
      PROVE  KnowsHeld(req'[r])
  <2>1. req'[r] = q
    BY <1>1, <1>3
  <2> QED
    BY <1>1, <1>3, <2>1 DEF KnowsHeld
<1>4. CASE WriteToken(r)
  <2> DEFINE q == [req[r] EXCEPT !.token = r, !.at = FirstStep(r, req[r].taxed)]
  <2>1. req[r] \in Opens /\ req[r].op = "open" /\ req[r].at = "token"
    BY <1>1, <1>4, Apart DEF WriteToken, At
  <2>2. q.held = req[r].held /\ q.made = req[r].made /\ q.at \notin {"create", "claim"}
    BY <2>1 DEF Opens, FirstStep
  <2>3. req' = [req EXCEPT ![r] = q]
    BY <1>1, <1>4, <2>1 DEF WriteToken, Opens
  <2> HIDE DEF q
  <2> QED
    BY <1>3, <2>1, <2>2, <2>3
<1>5. ASSUME NEW q, req' = [req EXCEPT ![r] = q], q.at = "existing", q.held = sale.held,
             q.made # None => sale.held # None
      PROVE  KnowsHeld(req'[r])
  <2>1. req'[r] = q
    BY <1>1, <1>5
  <2> QED
    BY <1>5, <2>1 DEF KnowsHeld
<1>6. CASE BackfillTax(r)
  <2> DEFINE q == [req[r] EXCEPT !.held = sale.held, !.at = "existing"]
  <2>1. req[r] \in Opens /\ req[r].op = "open" /\ req[r].at = "tax"
    BY <1>1, <1>6, Apart DEF BackfillTax, At
  <2>2. q.held = sale.held /\ q.made = req[r].made /\ q.at = "existing"
    BY <2>1 DEF Opens
  <2>3. req' = [req EXCEPT ![r] = q]
    BY <1>1, <1>6, <2>1 DEF BackfillTax, Opens
  <2>4. q.made # None => sale.held # None
    BY <1>1, <2>1, <2>2 DEF KnowsHeld
  <2> HIDE DEF q
  <2> QED
    BY <1>5, <2>2, <2>3, <2>4
<1>7. CASE Claim(r)
  <2> DEFINE q == [req[r] EXCEPT !.at = "existing", !.held = sale.held]
  <2>1. req[r] \in Claims
    BY <1>1, <1>7, Apart DEF Claim, At
  <2>2. q.held = sale.held /\ q.at = "existing"
    BY <2>1 DEF Claims
  <2>3. \/ req' = [req EXCEPT ![r] = q] /\ sale.held # None
        \/ req' = [req EXCEPT ![r] = Over]
    BY <1>1, <1>7, <2>1 DEF Claim, Gives, Ends, Done, Claims
  <2>4. req'[r] # Over
    BY DEF Over
  <2> HIDE DEF q
  <2> QED
    BY <1>1, <1>5, <2>2, <2>3, <2>4
<1>8. CASE TakeUp(r)
  <2> DEFINE q == [req[r] EXCEPT !.at = "create"]
             c == req[r].held
  <2>1. req[r] \in Opens
    BY <1>1, <1>8, Apart DEF TakeUp, At
  <2>2. q.held = req[r].held /\ q.made = req[r].made /\ q.at = "create"
    BY <2>1 DEF Opens
  <2>3. \/ req' = [req EXCEPT ![r] = q] /\ (c = None \/ Is(c, "expired")) /\ req[r].made = None
        \/ \E v : v.op # "open" /\ req' = [req EXCEPT ![r] = v]
    <3>1. Over.op # "open"
      BY DEF Over
    <3>2. ASSUME NEW x, Verifies(r, x)
          PROVE  \E v : v.op # "open" /\ req' = [req EXCEPT ![r] = v]
      <4>1. [op |-> "verify", at |-> "read", id |-> x, held |-> sale.held].op # "open"
        OBVIOUS
      <4> QED
        BY <3>2, <4>1 DEF Verifies, Start
    <3> QED
      BY <1>8, <3>1, <3>2 DEF TakeUp, Gives, GoesTo, Ends, Done
  <2>4. ASSUME NEW v, v.op # "open", req' = [req EXCEPT ![r] = v] PROVE FALSE
    BY <1>1, <2>4
  <2> HIDE DEF q
  <2>5. req'[r] = q
    BY <1>1, <2>3, <2>4
  <2>6. KnowsHeld(req[r])
    BY <1>1, <2>1 DEF Opens
  <2> QED
    BY <2>2, <2>3, <2>4, <2>5, <2>6 DEF KnowsHeld
<1>9. CASE CreateCheckout(r)
  <2>1. PICK c : req' = [req EXCEPT ![r].made = c, ![r].at = "claim"]
    BY <1>9 DEF CreateCheckout
  <2> DEFINE q == [req[r] EXCEPT !.made = c, !.at = "claim"]
  <2>2. req[r] \in Opens /\ req[r].at = "create" /\ req[r].op = "open"
    BY <1>1, <1>9, Apart DEF CreateCheckout, At
  <2>3. q.held = req[r].held /\ q.at = "claim"
    BY <2>2 DEF Opens
  <2>4. req' = [req EXCEPT ![r] = q]
    BY <1>1, <2>1, <2>2 DEF Opens
  <2> HIDE DEF q
  <2>5. req'[r] = q
    BY <1>1, <2>4
  <2> QED
    BY <1>1, <2>2, <2>3, <2>5 DEF KnowsHeld
<1>10. CASE req[r].op = "verify" \/ (\E c \in Checkouts : Push(r, c)) \/ ConfirmPage(r) \/ Dies(r)
  <2>1. ASSUME NEW q, req' = [req EXCEPT ![r] = q], q.op # "open" PROVE FALSE
    BY <1>1, <2>1
  <2>2. ASSUME NEW x, Verifies(r, x) PROVE FALSE
    <3>1. [op |-> "verify", at |-> "read", id |-> x, held |-> sale.held].op # "open"
      OBVIOUS
    <3> QED
      BY <2>1, <2>2, <3>1 DEF Verifies, Start
  <2>3. ~Ends(r)
    <3>1. Over.op # "open"
      BY DEF Over
    <3> QED
      BY <2>1, <3>1 DEF Ends, Done
  <2>4. ASSUME NEW at, GoesTo(r, at), req[r].op = "verify" PROVE FALSE
    <3>1. [req[r] EXCEPT !.at = at].op = "verify"
      BY <1>1, <2>4, Apart DEF Verifiers, Syncs
    <3> QED
      BY <2>1, <2>4, <3>1 DEF GoesTo
  <2>5. CASE MarkOrderPaid(r)
    <3>1. [op |-> "verify", at |-> "look", id |-> req[r].id].op # "open"
      OBVIOUS
    <3> QED
      BY <2>1, <2>5, <3>1 DEF MarkOrderPaid
  <2>6. CASE FindAddress(r)
    <3>1. \A at : [op |-> "verify", id |-> req[r].id, from |-> sale.address, at |-> at].op # "open"
      OBVIOUS
    <3> QED
      BY <2>1, <2>6, <3>1 DEF FindAddress
  <2>7. CASE ConfirmPage(r) \/ \E c \in Checkouts : Push(r, c)
    BY <2>2, <2>3, <2>7 DEF ConfirmPage, Push
  <2>8. CASE Dies(r)
    BY <2>3, <2>8 DEF Dies
  <2>9. CASE req[r].op = "verify"
    <3>1. CASE ReadLive(r)
      BY <2>3, <2>4, <2>9, <3>1 DEF ReadLive
    <3>2. CASE MakeAddress(r) \/ PointTo(r) \/ AddressFails(r)
      BY <2>4, <2>9, <3>2 DEF MakeAddress, PointTo, AddressFails
    <3>3. CASE Acknowledge(r)
      BY <2>3, <3>3 DEF Acknowledge
    <3>4. ~ \/ OpenPage(r) \/ WriteToken(r) \/ BackfillTax(r) \/ TakeUp(r) \/ CreateCheckout(r)
            \/ Claim(r)
      BY <2>9 DEF OpenPage, WriteToken, BackfillTax, TakeUp, CreateCheckout, Claim, At, Arrives, Idle
    <3> QED
      BY <2>5, <2>6, <2>7, <2>8, <3>1, <3>2, <3>3, <3>4 DEF PageRequestStep, PageStep
  <2> QED
    BY <1>10, <2>7, <2>8, <2>9
<1> QED
  BY <1>2, <1>4, <1>6, <1>7, <1>8, <1>9, <1>10 DEF PageRequestStep, PageStep, ReadLive, MarkOrderPaid, FindAddress,
       MakeAddress, PointTo, Acknowledge, AddressFails, At

LEMMA NextPage == TypeInv /\ PageInv /\ [PageNext]_pageVars => PageInv'
<1> SUFFICES ASSUME TypeInv, PageInv, [PageNext]_pageVars PROVE PageInv'
  OBVIOUS
<1>1. CASE PageNext
  <2> SUFFICES ASSUME NEW x \in Requests, req'[x].op = "open" PROVE KnowsHeld(req[x])'
    BY <1>1, HandedStays, ApprovedStays DEF PageInv
  <2>1. KnowsHeld(req'[x])
    <3>1. CASE KustomStep
      BY <3>1 DEF KustomStep, Validate, Complete, Amend, Expire, Abandon, PageInv
    <3>2. ASSUME NEW r \in Requests, PageRequestStep(r) PROVE KnowsHeld(req'[x])
      BY <3>2, RequestKnows, VerifierMoves DEF PageInv
    <3> QED
      BY <1>1, <3>1, <3>2, NextIs
  <2>2. Is(req'[x].held, "expired") => Is(req[x].held, "expired")'
    BY <1>1, Settled
  <2> QED
    BY <1>1, <2>1, <2>2, HeldStays DEF KnowsHeld
<1>2. CASE UNCHANGED pageVars
  BY <1>2 DEF pageVars, PageInv, HandedIsHeld, ApprovedIsHeld, KnowsHeld, Is, Known
<1> QED
  BY <1>1, <1>2

LEMMA InitPage == PageInit => PageInv
<1> SUFFICES ASSUME PageInit PROVE PageInv
  OBVIOUS
<1>1. handed = {} /\ (\A r \in Requests : req[r] = Idle) /\ checkout = [c \in Checkouts |-> Unknown]
  BY Zenon DEF PageInit, NoRequests
<1>2. Known = {}
  BY <1>1 DEF Known
<1> QED
  BY <1>1, <1>2 DEF PageInv, HandedIsHeld, ApprovedIsHeld, Idle

\* The customer pays at most once for an order, in the checkout the order
\* holds, however often the payment page is opened at once, whenever a checkout
\* expires and whichever request dies (createSession's claim, and the approval
\* Kustom asks for in handleValidation).
THEOREM PaidOnceAndFound == PageSpec => []PaidWhereHeld
<1>1. PageInv => PaidWhereHeld
  BY CompleteIsHeld DEF PaidWhereHeld
<1> QED
  BY <1>1, InitTyping, NextTyping, InitPage, NextPage, PTL DEF PageSpec

-------------------------------------------------------------------------------
(* Kustom stops pushing only about an order that is whole.                   *)

\* The order goes to the address it was placed with or to the one of a completed
\* checkout; what is acknowledged is whole; and a verification has found the
\* order paid, knows the first address when it replaces it, and is done with the
\* address when it tells.
GoesSomewhere ==
  sale.address = Home \/ \E c \in Checkouts : Is(c, "complete") /\ sale.address = checkout[c].address
ToldIsWhole ==
  \A c \in Known : checkout[c].told =>
    /\ Is(c, "complete") /\ sale.pay = "paid"
    /\ missed \/ sale.address = checkout[c].address
Ready(q) ==
  /\ q.at \in {"look", "make", "point", "tell"} => sale.pay = "paid"
  /\ q.at = "tell" => missed \/ sale.address = checkout[q.id].address
  /\ q.at \in {"make", "point"} => q.from = Home /\ checkout[q.id].address # Home
AddressInv ==
  /\ GoesSomewhere /\ ToldIsWhole
  /\ \A r \in Requests : req[r].op = "verify" => Ready(req[r])

\* Two completed checkouts are one.
LEMMA OneComplete ==
  ASSUME PageInv, NEW c, NEW d, Is(c, "complete"), Is(d, "complete")
  PROVE  c = d
BY CompleteIsHeld

\* What a completed checkout says stays.
LEMMA CompleteStays ==
  ASSUME TypeInv, PageInv, PageNext, NEW c, Is(c, "complete")
  PROVE  Is(c, "complete")' /\ checkout'[c].address = checkout[c].address /\ c \in Checkouts
<1>1. c \in Known /\ checkout[c].approved /\ c \in Checkouts
  BY CompleteIsHeld DEF Known
<1>2. Stays(c)
  BY <1>1, EveryStepKeeps DEF Moves
<1> QED
  BY <1>1, <1>2, Settled DEF Stays

\* A paid order stays paid, an address missed stays missed, and the address
\* changes only to the one of a completed checkout, from the one that was read.
Points(r) ==
  /\ At(r, "verify", "point") /\ sale.address = req[r].from
  /\ sale'.address = checkout[req[r].id].address

LEMMA OrderMoves ==
  ASSUME TypeInv, PageNext
  PROVE  /\ sale.pay = "paid" => sale'.pay = "paid"
         /\ missed => missed'
         /\ sale'.address = sale.address \/ \E r \in Requests : Points(r)
<1>1. sale \in PlacedOrders
  BY DEF TypeInv, PageTypeOK
<1> DEFINE Goal == /\ sale.pay = "paid" => sale'.pay = "paid"
                   /\ missed => missed'
                   /\ sale'.address = sale.address \/ \E r \in Requests : Points(r)
<1> SUFFICES Goal
  OBVIOUS
<1>2. ASSUME NEW r \in Requests, PageRequestStep(r) PROVE Goal
  <2>1. CASE Claim(r)
    BY <1>1, <2>1 DEF Claim, PlacedOrders
  <2>2. CASE MarkOrderPaid(r)
    BY <1>1, <2>2 DEF MarkOrderPaid, PlacedOrders
  <2>3. CASE WriteToken(r)
    BY <1>1, <2>3 DEF WriteToken, PlacedOrders
  <2>4. CASE BackfillTax(r)
    BY <1>1, <2>4 DEF BackfillTax, PlacedOrders
  <2>5. CASE PointTo(r)
    BY <1>1, <2>5 DEF PointTo, PlacedOrders, Points
  <2>6. \/ Claim(r) \/ MarkOrderPaid(r) \/ WriteToken(r) \/ BackfillTax(r) \/ PointTo(r)
        \/ sale' = sale
    BY <1>2 DEF PageRequestStep, PageStep, OpenPage, ConfirmPage, AddressFails, Dies, Push, TakeUp,
                CreateCheckout, ReadLive, FindAddress, MakeAddress, Acknowledge
  <2>7. missed => missed'
    BY <1>2 DEF PageRequestStep, PageStep, OpenPage, ConfirmPage, AddressFails, Dies, Push, TakeUp, Claim, MarkOrderPaid,
                CreateCheckout, ReadLive, FindAddress, MakeAddress, Acknowledge, WriteToken,
                BackfillTax, PointTo
  <2> QED
    BY <2>1, <2>2, <2>3, <2>4, <2>5, <2>6, <2>7
<1>3. CASE KustomStep
  <2>1. CASE Abandon
    BY <1>1, <2>1 DEF Abandon, PlacedOrders
  <2>2. CASE \E c \in Checkouts : Validate(c) \/ Complete(c) \/ Amend(c) \/ Expire(c)
    <3>1. sale' = sale /\ (missed => missed')
      BY <2>2 DEF Validate, Complete, Amend, Expire
    <3> QED
      BY <3>1
  <2> QED
    BY <1>3, <2>1, <2>2 DEF KustomStep
<1> QED
  BY <1>2, <1>3, NextIs

\* An order that goes to the address of a completed checkout goes on to do so.
LEMMA AddressStays ==
  ASSUME TypeInv, PageInv, PageNext, NEW c, Is(c, "complete"), sale.address = checkout[c].address
  PROVE  sale'.address = checkout'[c].address
<1>1. ASSUME NEW r \in Requests, Points(r) PROVE sale'.address = checkout[c].address
  <2>1. Is(req[r].id, "complete")
    BY <1>1 DEF Points, At, TypeInv, Verified
  <2> QED
    BY <1>1, <2>1, OneComplete DEF Points
<1> QED
  BY <1>1, OrderMoves, CompleteStays

LEMMA SomewhereStays ==
  ASSUME TypeInv, PageInv, GoesSomewhere, PageNext
  PROVE  GoesSomewhere'
<1>1. ASSUME NEW c, Is(c, "complete"), sale'.address = checkout[c].address
      PROVE  GoesSomewhere'
  BY <1>1, CompleteStays DEF GoesSomewhere
<1>2. ASSUME NEW r \in Requests, Points(r) PROVE GoesSomewhere'
  BY <1>1, <1>2 DEF Points, At, TypeInv, Verified
<1>3. CASE sale'.address = sale.address
  BY <1>1, <1>3 DEF GoesSomewhere
<1> QED
  BY <1>2, <1>3, OrderMoves

LEMMA ToldStays ==
  ASSUME TypeInv, PageInv, AddressInv, PageNext
  PROVE  ToldIsWhole'
<1> SUFFICES ASSUME NEW c \in Known', checkout'[c].told
             PROVE  /\ Is(c, "complete")' /\ sale'.pay = "paid"
                    /\ missed' \/ sale'.address = checkout'[c].address
  BY DEF ToldIsWhole
<1>1. /\ Is(c, "complete") /\ sale.pay = "paid"
      /\ missed \/ sale.address = checkout[c].address
  <2>1. c \in Checkouts /\ Grew(c)
    BY EveryStepKeeps DEF Known, Moves
  <2>2. CASE c \in Known /\ checkout[c].told
    BY <2>2 DEF AddressInv, ToldIsWhole
  <2>3. ASSUME NEW r \in Requests, Acknowledge(r), req[r].id = c
        PROVE  /\ Is(c, "complete") /\ sale.pay = "paid"
               /\ missed \/ sale.address = checkout[c].address
    BY <2>3 DEF Acknowledge, At, AddressInv, Ready, TypeInv, Verified
  <2> QED
    BY <2>1, <2>2, <2>3 DEF Grew
<1> QED
  BY <1>1, CompleteStays, AddressStays, OrderMoves

\* What another request does leaves a verification ready.
LEMMA ReadyStays ==
  ASSUME TypeInv, PageInv, PageNext, NEW q, Is(q.id, "complete"), Ready(q)
  PROVE  /\ q.at \in {"look", "make", "point", "tell"} => sale'.pay = "paid"
         /\ q.at = "tell" => missed' \/ sale'.address = checkout'[q.id].address
         /\ q.at \in {"make", "point"} => q.from = Home /\ checkout'[q.id].address # Home
BY CompleteStays, AddressStays, OrderMoves DEF Ready

LEMMA VerifierReady ==
  ASSUME TypeInv, PageInv, AddressInv, NEW r \in Requests, PageRequestStep(r),
         req'[r].op = "verify"
  PROVE  /\ req'[r].at \in {"look", "make", "point", "tell"} => sale'.pay = "paid"
         /\ req'[r].at = "tell" => missed' \/ sale'.address = checkout'[req'[r].id].address
         /\ req'[r].at \in {"make", "point"} =>
              req'[r].from = Home /\ checkout'[req'[r].id].address # Home
<1> DEFINE Goal == /\ req'[r].at \in {"look", "make", "point", "tell"} => sale'.pay = "paid"
                   /\ req'[r].at = "tell" => missed' \/ sale'.address = checkout'[req'[r].id].address
                   /\ req'[r].at \in {"make", "point"} =>
                        req'[r].from = Home /\ checkout'[req'[r].id].address # Home
<1> SUFFICES Goal
  OBVIOUS
<1>1. req \in [Requests -> Kinds] /\ req[r] \in Kinds /\ sale \in PlacedOrders
  BY DEF TypeInv, PageTypeOK
<1>2. req[r].op = "verify" =>
        Ready(req[r]) /\ Is(req[r].id, "complete") /\ req[r] \in Verifiers \cup Syncs
  BY <1>1, Apart DEF AddressInv, TypeInv, Verified
<1>3. ASSUME NEW q, req' = [req EXCEPT ![r] = q], q.op # "verify" \/ q.at \in {"read", "pay"}
      PROVE  Goal
  BY <1>1, <1>3
<1> HIDE DEF Goal
<1>4. ~Ends(r)
  <2>1. Over.op # "verify"
    BY DEF Over
  <2> QED
    BY <1>1, <2>1 DEF Ends, Done
<1>5. ASSUME NEW c, Verifies(r, c) PROVE Goal
  <2> DEFINE q == [op |-> "verify", at |-> "read", id |-> c, held |-> sale.held]
  <2>1. req' = [req EXCEPT ![r] = q] /\ q.at = "read"
    BY <1>5 DEF Verifies, Start
  <2> HIDE DEF q
  <2> QED
    BY <1>3, <2>1
<1>6. CASE ReadLive(r)
  <2> DEFINE q == [req[r] EXCEPT !.at = "pay"]
  <2>1. q.at = "pay"
    BY <1>1, <1>6, Apart DEF ReadLive, At, Verifiers
  <2>2. req' = [req EXCEPT ![r] = q]
    BY <1>4, <1>6 DEF ReadLive, GoesTo
  <2> HIDE DEF q
  <2> QED
    BY <1>3, <2>1, <2>2
<1>7. CASE MarkOrderPaid(r)
  <2> DEFINE q == [op |-> "verify", at |-> "look", id |-> req[r].id]
  <2>1. req' = [req EXCEPT ![r] = q] /\ q.at = "look"
    BY <1>7 DEF MarkOrderPaid
  <2>2. sale'.pay = "paid"
    BY <1>1, <1>7 DEF MarkOrderPaid, PlacedOrders
  <2> HIDE DEF q
  <2>3. req'[r].at = "look"
    BY <1>1, <2>1
  <2> QED
    BY <2>2, <2>3 DEF Goal
<1>8. CASE FindAddress(r)
  <2> DEFINE at == IF checkout[req[r].id].address = sale.address THEN "tell"
                   ELSE IF book[checkout[req[r].id].address] > 0 THEN "point" ELSE "make"
             q  == [op |-> "verify", id |-> req[r].id, from |-> sale.address, at |-> at]
  <2>1. req' = [req EXCEPT ![r] = q] /\ q.at = at /\ q.id = req[r].id /\ q.from = sale.address
    BY <1>8 DEF FindAddress
  <2>2. Ready(req[r]) /\ Is(req[r].id, "complete") /\ sale.pay = "paid"
    BY <1>2, <1>8 DEF FindAddress, At, Ready
  <2>3. checkout[req[r].id].address # sale.address => sale.address = Home
    BY <2>2, OneComplete DEF AddressInv, GoesSomewhere
  <2>4. /\ at = "tell" => checkout[req[r].id].address = sale.address
        /\ at \in {"make", "point"} => checkout[req[r].id].address # sale.address
    OBVIOUS
  <2> HIDE DEF q, at
  <2>5. req'[r] = q
    BY <1>1, <2>1
  <2>6. UNCHANGED <<sale, checkout, missed>>
    BY <1>8 DEF FindAddress
  <2> QED
    BY <2>1, <2>2, <2>3, <2>4, <2>5, <2>6 DEF Goal
<1>9. CASE MakeAddress(r) \/ PointTo(r) \/ AddressFails(r)
  <2>1. req[r] \in Syncs /\ req[r].op = "verify" /\ req[r].at \in {"make", "point"}
        /\ checkout' = checkout
    BY <1>1, <1>9, Apart DEF MakeAddress, PointTo, AddressFails, At
  <2>2. sale.pay = "paid" /\ req[r].from = Home /\ checkout[req[r].id].address # Home
        /\ Is(req[r].id, "complete")
    BY <1>2, <2>1 DEF Ready
  <2>3. CASE MakeAddress(r)
    <3> DEFINE q == [req[r] EXCEPT !.at = "point"]
    <3>1. q.at = "point" /\ q.id = req[r].id /\ q.from = req[r].from
      BY <2>1 DEF Syncs
    <3>2. req'[r] = q /\ sale' = sale
      BY <1>1, <2>3 DEF MakeAddress, GoesTo
    <3> HIDE DEF q
    <3> QED
      BY <2>1, <2>2, <3>1, <3>2 DEF Goal
  <2> DEFINE q == [req[r] EXCEPT !.at = "tell"]
  <2>4. q.at = "tell" /\ q.id = req[r].id
    BY <2>1 DEF Syncs
  <2>5. ASSUME PointTo(r) \/ AddressFails(r) PROVE req'[r] = q
    BY <1>1, <2>5 DEF PointTo, AddressFails, GoesTo
  <2> HIDE DEF q
  <2>6. CASE AddressFails(r)
    <3>1. sale' = sale /\ missed' = TRUE
      BY <2>6 DEF AddressFails
    <3>2. missed'
      BY Zenon, <3>1
    <3> QED
      BY <2>2, <2>4, <2>5, <2>6, <3>1, <3>2 DEF Goal
  <2>7. CASE PointTo(r)
    <3>1. sale'.address = checkout[req[r].id].address
      <4>1. CASE sale.address = req[r].from
        BY <1>1, <2>7, <4>1 DEF PointTo, PlacedOrders
      <4>2. CASE sale.address # req[r].from
        <5>1. sale' = sale
          BY <2>7, <4>2 DEF PointTo
        <5> QED
          BY <2>2, <4>2, <5>1, OneComplete DEF AddressInv, GoesSomewhere
      <4> QED
        BY <4>1, <4>2
    <3>2. sale'.pay = "paid"
      BY <1>1, <2>2, <2>7 DEF PointTo, PlacedOrders
    <3> QED
      BY <2>1, <2>4, <2>5, <2>7, <3>1, <3>2 DEF Goal
  <2> QED
    BY <1>9, <2>3, <2>6, <2>7
<1>10. CASE ConfirmPage(r) \/ \E c \in Checkouts : Push(r, c)
  BY <1>4, <1>5, <1>10 DEF ConfirmPage, Push
<1>11. CASE TakeUp(r)
  <2>1. ~GoesTo(r, "create")
    <3>1. req[r] \in Opens
      BY <1>1, <1>11, Apart DEF TakeUp, At
    <3>2. [req[r] EXCEPT !.at = "create"].op = "open"
      BY <3>1 DEF Opens
    <3> QED
      BY <1>1, <3>2 DEF GoesTo
  <2> QED
    BY <1>4, <1>5, <1>11, <2>1 DEF TakeUp, Gives
<1>12. ASSUME OpenPage(r) \/ WriteToken(r) \/ BackfillTax(r) \/ CreateCheckout(r) \/ Claim(r)
       PROVE  req'[r].op # "verify"
  <2>1. CASE OpenPage(r)
    <3> DEFINE q == [op |-> "open", at |-> FirstStep(sale.token, sale.taxed), held |-> sale.held,
                     token |-> sale.token, taxed |-> sale.taxed, made |-> None]
    <3>1. req' = [req EXCEPT ![r] = q] /\ q.op = "open"
      BY <1>4, <2>1 DEF OpenPage, Start
    <3> HIDE DEF q
    <3> QED
      BY <1>1, <3>1
  <2>2. CASE WriteToken(r)
    BY <1>1, <2>2, Apart DEF WriteToken, At, Opens
  <2>3. CASE BackfillTax(r)
    BY <1>1, <2>3, Apart DEF BackfillTax, At, Opens
  <2>4. CASE CreateCheckout(r)
    <3>1. PICK c : req' = [req EXCEPT ![r].made = c, ![r].at = "claim"]
      BY <2>4 DEF CreateCheckout
    <3> QED
      BY <1>1, <2>4, <3>1, Apart DEF CreateCheckout, At, Opens
  <2>5. CASE Claim(r)
    BY <1>1, <1>4, <2>5, Apart DEF Claim, At, Claims, Gives
  <2> QED
    BY <1>12, <2>1, <2>2, <2>3, <2>4, <2>5
<1> QED
  BY <1>4, <1>6, <1>7, <1>8, <1>9, <1>10, <1>11, <1>12 DEF PageRequestStep, PageStep, Acknowledge, Dies

LEMMA NextAddress == TypeInv /\ PageInv /\ AddressInv /\ [PageNext]_pageVars => AddressInv'
<1> SUFFICES ASSUME TypeInv, PageInv, AddressInv, [PageNext]_pageVars PROVE AddressInv'
  OBVIOUS
<1>1. CASE PageNext
  <2> SUFFICES ASSUME NEW x \in Requests, req'[x].op = "verify" PROVE Ready(req[x])'
    BY <1>1, SomewhereStays, ToldStays DEF AddressInv
  <2>1. ASSUME req'[x] = req[x] PROVE Ready(req[x])'
    <3>1. Is(req[x].id, "complete") /\ Ready(req[x])
      BY <2>1 DEF AddressInv, TypeInv, Verified
    <3> QED
      BY <1>1, <2>1, <3>1, ReadyStays DEF Ready
  <2>2. CASE KustomStep
    BY <2>1, <2>2 DEF KustomStep, Validate, Complete, Amend, Expire, Abandon
  <2>3. ASSUME NEW r \in Requests, PageRequestStep(r) PROVE Ready(req[x])'
    <3>1. CASE x = r
      BY <2>3, <3>1, VerifierReady DEF Ready
    <3>2. CASE x # r
      BY <2>1, <2>3, <3>2, VerifierMoves
    <3> QED
      BY <3>1, <3>2
  <2> QED
    BY <1>1, <2>2, <2>3, NextIs
<1>2. CASE UNCHANGED pageVars
  BY <1>2 DEF pageVars, AddressInv, GoesSomewhere, ToldIsWhole, Ready, Is, Known
<1> QED
  BY <1>1, <1>2

LEMMA InitAddress == PageInit => AddressInv
<1> SUFFICES ASSUME PageInit PROVE AddressInv
  OBVIOUS
<1>1. /\ \A r \in Requests : req[r] = Idle
      /\ checkout = [c \in Checkouts |-> Unknown] /\ sale.address = Home
  BY DEF PageInit, NoRequests
<1>2. Known = {}
  BY <1>1 DEF Known
<1> QED
  BY <1>1, <1>2 DEF AddressInv, GoesSomewhere, ToldIsWhole, Idle

\* We acknowledge a checkout, and Kustom stops pushing, only when the order is
\* paid and goes to the address its customer typed there, unless that address
\* could not be saved (processCompletedCheckout, syncShippingAddress).
THEOREM WholeWhenAcknowledged == PageSpec => []AcknowledgedIsWhole
<1>1. AddressInv => AcknowledgedIsWhole
  BY DEF AddressInv, ToldIsWhole, AcknowledgedIsWhole
<1> QED
  BY <1>1, InitTyping, NextTyping, InitPage, NextPage, InitAddress, NextAddress, PTL DEF PageSpec

===============================================================================
