------------------------------ MODULE KustomMoney ------------------------------
(***************************************************************************)
(* The money of one Kustom order                                           *)
(* (src/src/modules/payments/kustom/kustom.service.ts).                    *)
(*                                                                         *)
(* Kustom keeps the ledger: what was authorized, captured and refunded.    *)
(* Our order keeps payment_status and kustom_captured_at.  Pushes and page *)
(* reloads (processCompletedCheckout), captures (by hand, on shipment, or  *)
(* at once), refunds and looks at the live state run concurrently; each    *)
(* reads the order, reads or calls Kustom and then writes the order.  The  *)
(* merchant may also work in Kustom's portal, of which we are not told.  A *)
(* call may time out and still be executed later; it carries an            *)
(* idempotency key, and Kustom answers a key it has executed as it did the *)
(* first time.                                                             *)
(*                                                                         *)
(* Stock, commission and timeline of these transitions are in OrderPayment *)
(* or left out; each mark... method is one step here.                      *)
(***************************************************************************)
EXTENDS Integers, FiniteSets

CONSTANTS
  Handlers,     \* requests in flight at the same time
  Nobody,       \* the sender of a call that nobody waits for any more
  Total,        \* the order's total
  MaxCalls,     \* bound: captures, refunds and retries asked for
  MaxPortal,    \* bound: captures and refunds made in the portal
  MaxTimeouts   \* bound: calls that time out, reads that fail

ASSUME RequestsFinite == IsFiniteSet(Handlers) /\ Nobody \notin Handlers
ASSUME TotalPos       == Total \in Nat \ {0}
ASSUME BoundsNat      == MaxCalls \in Nat /\ MaxPortal \in Nat /\ MaxTimeouts \in Nat

VARIABLES
  mode,      \* Creator.kustom_capture_mode
  order,     \* the order row
  ledger,    \* the order as Kustom holds it
  wire,      \* calls under way to Kustom
  task,      \* the requests in flight
  calls, portal, timeouts,  \* counters of the bounds
  hit,       \* history: how often the refund a request is after was executed
  doubted    \* history: a refund was tried again under another key

vars   == <<mode, order, ledger, wire, task, calls, portal, timeouts, hit, doubted>>
bounds == <<calls, portal, timeouts>>

\* closed: the order status is terminal.
PaymentStatus == {"awaiting_payment", "paid", "failed", "refunded"}
Orders  == [pay : PaymentStatus, captured : BOOLEAN, closed : BOOLEAN]
Rows    == [pay : PaymentStatus, captured : BOOLEAN]
Calls   == [op : {"capture", "cancel", "refund"}, amount : 1..Total, nth : Nat]
\* gone: cancelled or expired; keys: the calls executed.
Ledgers == [gone : BOOLEAN, captured : 0..Total, refunded : 0..Total,
            count : Nat, keys : SUBSET Calls]
NoCall  == [op |-> "capture", amount |-> Total, nth |-> 0]

\* seen: the row as loaded; found: Kustom had captured something when asked;
\* crossed: another refund was executed since.
Tasks == [pc : {"idle", "load", "read", "wait", "recheck", "paid", "mark",
                "release", "settle", "gaveUp"},
          op : {"none", "confirm", "look", "capture", "refund"},
          amount : 0..Total, seen : Rows, call : Calls,
          found : BOOLEAN, crossed : BOOLEAN]
Fresh == [pay |-> "awaiting_payment", captured |-> FALSE]
NoTask  == [pc |-> "idle", op |-> "none", amount |-> 0, seen |-> Fresh,
          call |-> NoCall, found |-> FALSE, crossed |-> FALSE]

TypeOK ==
  /\ mode \in {"on_shipment", "immediate"} /\ order \in Orders /\ ledger \in Ledgers
  /\ wire \subseteq [by : Handlers \cup {Nobody}, call : Calls]
  /\ task \in [Handlers -> Tasks]
  /\ calls \in 0..MaxCalls /\ portal \in 0..MaxPortal /\ timeouts \in 0..MaxTimeouts
  /\ hit \in [Handlers -> Nat] /\ doubted \in BOOLEAN

\* The customer has paid; no push has arrived.
Init ==
  /\ mode \in {"on_shipment", "immediate"} /\ order = [pay |-> "awaiting_payment", captured |-> FALSE, closed |-> FALSE]
  /\ ledger = [gone |-> FALSE, captured |-> 0, refunded |-> 0, count |-> 0, keys |-> {}]
  /\ wire = {} /\ task = [r \in Handlers |-> NoTask]
  /\ calls = 0 /\ portal = 0 /\ timeouts = 0
  /\ hit = [r \in Handlers |-> 0] /\ doubted = FALSE

-------------------------------------------------------------------------------
IsAt(r, pc)    == task[r].pc = pc
Become(r, t) == task' = [task EXCEPT ![r] = t]
Goto(r, pc)  == Become(r, [task[r] EXCEPT !.pc = pc])
Called       == calls < MaxCalls /\ calls' = calls + 1 /\ UNCHANGED <<portal, timeouts>>
Late         == timeouts < MaxTimeouts /\ timeouts' = timeouts + 1 /\ UNCHANGED <<calls, portal>>
Quiet        == UNCHANGED <<mode, ledger, wire, bounds, hit, doubted>>

LiveStatus == IF ledger.gone THEN "CANCELLED"
              ELSE IF ledger.captured = 0 THEN "AUTHORIZED"
              ELSE IF ledger.captured < Total THEN "PART_CAPTURED" ELSE "CAPTURED"
PaidStatuses == {"AUTHORIZED", "PART_CAPTURED", "CAPTURED"}

-------------------------------------------------------------------------------
(***************************************************************************)
(* Kustom: the portal, and the calls it executes                           *)
(***************************************************************************)
InPortal == /\ portal < MaxPortal /\ portal' = portal + 1
            /\ UNCHANGED <<mode, order, wire, task, calls, timeouts, hit, doubted>>

PortalCapture(a) ==
  /\ InPortal /\ ~ledger.gone /\ ledger.captured + a <= Total
  /\ ledger' = [ledger EXCEPT !.captured = @ + a]

PortalRefund(a) ==
  /\ InPortal /\ ledger.refunded + a <= ledger.captured
  /\ ledger' = [ledger EXCEPT !.refunded = @ + a, !.count = @ + 1]

\* The authorization is cancelled in the portal, or it expires.
Release ==
  /\ ~ledger.gone /\ ledger.captured = 0 /\ ledger' = [ledger EXCEPT !.gone = TRUE]
  /\ UNCHANGED <<mode, order, wire, task, bounds, hit, doubted>>

Allowed(c) ==
  CASE c.op = "capture" -> ~ledger.gone /\ ledger.captured + c.amount <= Total
    [] c.op = "cancel"  -> ~ledger.gone /\ ledger.captured = 0
    [] c.op = "refund"  -> ledger.refunded + c.amount <= ledger.captured

Booked(c) ==
  CASE c.op = "capture" -> [ledger EXCEPT !.captured = @ + c.amount, !.keys = @ \cup {c}]
    [] c.op = "cancel"  -> [ledger EXCEPT !.gone = TRUE, !.keys = @ \cup {c}]
    [] c.op = "refund"  -> [ledger EXCEPT !.refunded = @ + c.amount, !.count = @ + 1,
                                          !.keys = @ \cup {c}]

\* Where a request goes on: 2xx, or refused with 403 or 409.
Answered(t, ok) ==
  CASE t.op = "capture" -> [t EXCEPT !.pc = IF ok THEN "mark" ELSE "recheck"]
    [] t.op = "refund"  -> IF ~ok THEN NoTask
                           ELSE [t EXCEPT !.pc = IF t.found /\ ~t.seen.captured
                                                 THEN "mark" ELSE "settle",
                                          !.seen = Fresh, !.found = FALSE]

\* A call arrives.  Its sender may still be waiting for this very call, or not.
Execute(w) ==
  LET c    == w.call
      new  == c \notin ledger.keys /\ Allowed(c)
      ok   == c \in ledger.keys \/ new
      mine == new /\ c.op = "refund"
      awaited(r)  == r = w.by /\ IsAt(r, "wait") /\ task[r].call = c
      crossing(r) == mine /\ r # w.by /\ IsAt(r, "wait") /\ task[r].op = "refund"
  IN
  /\ w \in wire /\ wire' = wire \ {w}
  /\ ledger' = IF new THEN Booked(c) ELSE ledger
  /\ task' = [r \in Handlers |->
                IF awaited(r) THEN Answered(task[r], ok)
                ELSE [task[r] EXCEPT !.crossed = @ \/ crossing(r)]]
  /\ hit' = [r \in Handlers |-> IF mine /\ r = w.by THEN hit[r] + 1 ELSE hit[r]]
  /\ UNCHANGED <<mode, order, bounds, doubted>>

-------------------------------------------------------------------------------
(***************************************************************************)
(* Requests                                                                *)
(***************************************************************************)
Begins(r, op, pc) == Become(r, [NoTask EXCEPT !.op = op, !.pc = pc])

\* A push, or the confirmation page.
Confirm(r) == IsAt(r, "idle") /\ Begins(r, "confirm", "read") /\ Quiet /\ UNCHANGED order

\* getLiveStatus
Look(r) == IsAt(r, "idle") /\ Begins(r, "look", "load") /\ Quiet /\ UNCHANGED order

\* A dashboard, or the shipped hook.
AskCapture(r) ==
  /\ IsAt(r, "idle") /\ Called /\ Begins(r, "capture", "load")
  /\ UNCHANGED <<mode, order, ledger, wire, hit, doubted>>

\* A refund of a, by an administrator or the creator.
AskRefund(r, a) ==
  /\ IsAt(r, "idle") \/ IsAt(r, "gaveUp")
  /\ Called /\ Become(r, [NoTask EXCEPT !.op = "refund", !.pc = "load", !.amount = a])
  /\ hit' = [hit EXCEPT ![r] = 0]
  /\ wire' = {[w EXCEPT !.by = IF @ = r THEN Nobody ELSE @] : w \in wire}
  /\ UNCHANGED <<mode, order, ledger, doubted>>

\* The same refund once more, after a timeout.
Retry(r) ==
  /\ IsAt(r, "gaveUp") /\ Called
  /\ Become(r, [NoTask EXCEPT !.op = "refund", !.pc = "load", !.amount = task[r].amount])
  /\ UNCHANGED <<mode, order, ledger, wire, hit, doubted>>

\* The order reaches a terminal status, whoever sets it.
Close ==
  /\ ~order.closed /\ order' = [order EXCEPT !.closed = TRUE]
  /\ UNCHANGED <<mode, ledger, wire, task, bounds, hit, doubted>>

\* A request sends its call and waits.
Send(r, t, c) ==
  /\ wire' = wire \cup {[by |-> r, call |-> c]}
  /\ Become(r, [t EXCEPT !.pc = "wait", !.call = c])

\* loadManagedOrder, and what captureOrder and refundOrder refuse at once.
Load(r) ==
  LET t == [task[r] EXCEPT !.seen = [pay |-> order.pay, captured |-> order.captured]] IN
  /\ IsAt(r, "load")
  /\ CASE t.op = "look" -> Become(r, [t EXCEPT !.pc = "read"]) /\ UNCHANGED wire
       [] t.op = "refund" -> /\ Become(r, IF order.pay = "paid" THEN [t EXCEPT !.pc = "read"] ELSE NoTask)
                             /\ UNCHANGED wire
       [] t.op = "capture" -> IF order.captured \/ order.pay # "paid"
                              THEN Become(r, NoTask) /\ UNCHANGED wire
                              ELSE Send(r, t, NoCall)
  /\ UNCHANGED <<mode, order, ledger, bounds, hit, doubted>>

\* MUTANT: nothing is ever found to be gone.
SyncedNever(t) == NoTask

\* syncReleasedAuthorization, up to markAuthorizationReleased.
Synced(t) == IF ledger.gone /\ ledger.captured = 0 /\ ~t.seen.captured /\ t.seen.pay = "paid"
             THEN [NoTask EXCEPT !.op = t.op, !.pc = "release"] ELSE NoTask

LookLive(r) ==
  /\ IsAt(r, "read") /\ task[r].op = "look" /\ Become(r, Synced(task[r]))
  /\ Quiet /\ UNCHANGED order

\* processCompletedCheckout reads the order and goes on if it is authorized.
ConfirmLive(r) ==
  /\ IsAt(r, "read") /\ task[r].op = "confirm"
  /\ Become(r, IF LiveStatus \in PaidStatuses
               THEN [task[r] EXCEPT !.pc = "paid", !.found = LiveStatus = "CAPTURED"]
               ELSE NoTask)
  /\ Quiet /\ UNCHANGED order

\* MUTANT: the key names the amount only.
RefundCallByAmount(a) == [op |-> "refund", amount |-> a, nth |-> 0]

\* The key names the amount and how many refunds Kustom already holds.
RefundCall(a) == [op |-> "refund", amount |-> a, nth |-> ledger.count]

CancelCall == [op |-> "cancel", amount |-> Total, nth |-> 0]

\* The retry of a refund has another key: the first attempt was executed since,
\* or another refund was.
Doubtful(r, c) ==
  hit[r] > 0 \/ \E w \in wire : w.by = r /\ w.call.op = "refund" /\ w.call # c

\* refundOrder reads the order: nothing captured, too much asked, or a refund.
RefundLive(r) ==
  LET t == [task[r] EXCEPT !.found = ledger.captured > 0] IN
  /\ IsAt(r, "read") /\ task[r].op = "refund"
  /\ \/ ledger.captured = 0 /\ t.amount = Total /\ Send(r, t, CancelCall) /\ UNCHANGED doubted
     \/ ledger.captured = 0 /\ t.amount < Total /\ Become(r, NoTask) /\ UNCHANGED <<wire, doubted>>
     \/ /\ ledger.captured > 0 /\ t.amount > ledger.captured - ledger.refunded
        /\ Become(r, NoTask) /\ UNCHANGED <<wire, doubted>>
     \/ /\ ledger.captured > 0 /\ t.amount <= ledger.captured - ledger.refunded
        /\ Send(r, t, RefundCall(t.amount))
        /\ doubted' = (doubted \/ Doubtful(r, RefundCall(t.amount)))
  /\ UNCHANGED <<mode, order, ledger, bounds, hit>>

\* markOrderPaid; then a capture made in the portal is recorded, or the store
\* wants the money at once.
MarkPaid(r) ==
  /\ IsAt(r, "paid") /\ order' = [order EXCEPT !.pay = "paid"]
  /\ Become(r, IF task[r].found THEN [NoTask EXCEPT !.op = "confirm", !.pc = "mark"]
               ELSE IF mode = "immediate" THEN [NoTask EXCEPT !.op = "capture", !.pc = "load"]
               ELSE NoTask)
  /\ Quiet

\* captureOrder was refused and reads the order.
Recheck(r) ==
  /\ IsAt(r, "recheck")
  /\ Become(r, IF ledger.captured >= Total THEN [task[r] EXCEPT !.pc = "mark"] ELSE Synced(task[r]))
  /\ Quiet /\ UNCHANGED order

\* markCaptured, or the same write in processCompletedCheckout.
MarkCaptured(r) ==
  /\ IsAt(r, "mark") /\ order' = [order EXCEPT !.captured = TRUE]
  /\ Become(r, IF task[r].op = "refund" THEN [task[r] EXCEPT !.pc = "settle"] ELSE NoTask)
  /\ Quiet

\* markAuthorizationReleased
MarkReleased(r) ==
  /\ IsAt(r, "release") /\ Become(r, NoTask) /\ Quiet
  /\ order' = IF order.pay = "paid" /\ ~order.closed
              THEN [order EXCEPT !.pay = "failed", !.closed = TRUE] ELSE order

\* markOrderRefunded after a full refund; a partial one leaves the order alone.
Settle(r) ==
  /\ IsAt(r, "settle") /\ Become(r, NoTask) /\ Quiet
  /\ order' = IF task[r].amount = Total /\ order.pay # "refunded"
              THEN [order EXCEPT !.pay = "refunded", !.closed = TRUE] ELSE order

-------------------------------------------------------------------------------
(***************************************************************************)
(* Failures                                                                *)
(***************************************************************************)
\* No answer in time.  The call stays under way.
TimeOut(r) ==
  /\ IsAt(r, "wait") /\ Late
  /\ Become(r, IF task[r].op = "refund"
               THEN [NoTask EXCEPT !.op = "refund", !.pc = "gaveUp", !.amount = task[r].amount]
               ELSE NoTask)
  /\ UNCHANGED <<mode, order, ledger, wire, hit, doubted>>

\* A read of Kustom fails, or the process dies.
Die(r) ==
  /\ ~IsAt(r, "idle") /\ ~IsAt(r, "gaveUp") /\ Late /\ Become(r, NoTask)
  /\ UNCHANGED <<mode, order, ledger, wire, hit, doubted>>

-------------------------------------------------------------------------------
Step(r) == \/ Load(r) \/ LookLive(r) \/ ConfirmLive(r) \/ RefundLive(r) \/ MarkPaid(r)
           \/ Recheck(r) \/ MarkCaptured(r) \/ MarkReleased(r) \/ Settle(r)

Request(r) == \/ Confirm(r) \/ Look(r) \/ AskCapture(r) \/ Retry(r)
              \/ \E a \in 1..Total : AskRefund(r, a)

Kustom == \/ Release \/ \E a \in 1..Total : PortalCapture(a) \/ PortalRefund(a)
          \/ \E w \in wire : Execute(w)

Next == Kustom \/ Close \/ \E r \in Handlers : Request(r) \/ Step(r) \/ TimeOut(r) \/ Die(r)

Spec == Init /\ [][Next]_vars

\* A request goes on, a call gets its answer, the merchant looks at the order
\* now and then.
Fairness ==
  /\ \A r \in Handlers : WF_vars(Step(r))
  /\ WF_vars(\E w \in wire : Execute(w))
  /\ SF_vars(\E r \in Handlers : Look(r))

FairSpec == Spec /\ Fairness

-------------------------------------------------------------------------------
\* kustom_captured_at is never set for money Kustom has not captured, an order
\* is cancelled as "no money was taken" only if none ever is, and it is refunded
\* only when all of the money has gone back or the authorization was let go.
CapturedIsReal     == order.captured => ledger.captured > 0
ReleasedHadNothing == order.pay = "failed" => ledger.gone /\ ledger.captured = 0
RefundedIsReal     == order.pay = "refunded" => ledger.gone \/ ledger.refunded = Total

\* A retry of a refund after a timeout is deduplicated, unless that refund or
\* another was executed before the retry reads the order, which gives it a key
\* of its own.
RefundedOnce == doubted \/ \A r \in Handlers : hit[r] <= 1

\* A refund reported as done has moved money of its own: a deliberate second
\* refund of the same amount is not taken for the first, unless the two were
\* under way together.
ReportedIsReal ==
  \A r \in Handlers : IsAt(r, "settle") /\ task[r].call.op = "refund" => hit[r] > 0 \/ task[r].crossed

\* What we say of the money is so at Kustom, however captures, refunds,
\* cancellations, refusals and timeouts cross.
MoneyIsReal ==
  CapturedIsReal /\ ReleasedHadNothing /\ RefundedIsReal /\ RefundedOnce /\ ReportedIsReal

\* Kustom does not tell us that an authorization is gone; an order that stays
\* paid is brought in line by a look at it, unless its status is terminal.
GoneIsNoticed == ledger.gone /\ order.pay = "paid" ~> order.pay # "paid" \/ order.closed
================================================================================
