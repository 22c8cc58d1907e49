----------------------------- MODULE OrderPayment -----------------------------
(***************************************************************************)
(* The payment life of one order (src/src/modules/orders/orders.service.ts).*)
(*                                                                         *)
(* An order row carries payment_status and status; its lines hold units    *)
(* taken out of the products' stock; a commission row records whether the  *)
(* sale counts as earnings.  Four methods move payment_status:             *)
(* markOrderPaid, markOrderFailed, markAuthorizationReleased and           *)
(* markOrderRefunded.  Each one reads the row, decides on what it read,    *)
(* flips the row with a conditional updateMany and then, in statements of  *)
(* their own, updates the commission and moves the stock line by line.     *)
(* They are called by webhooks, pushes, page reloads and dashboards, at    *)
(* least once, late and in any order; any of those requests may be cut     *)
(* short between two statements.  One database statement is one step here. *)
(*                                                                         *)
(* Every transition addresses one order by id and moves that order's lines *)
(* only, so one order is modelled; the shared stock pool and the checkout  *)
(* that creates orders are in module Checkout.                             *)
(***************************************************************************)
EXTENDS Integers, FiniteSets

CONSTANTS
  Items,          \* the order's lines whose product tracks inventory
  Handlers,       \* requests in flight about the order at the same time
  AdminStatuses,  \* the statuses an ADMIN's updateStatus may write
  MaxStarts,      \* bound: requests other than payment confirmations
  MaxInterrupts   \* bound: requests cut short, or lines whose update fails

OrderStatus == {"PENDING", "CONFIRMED", "PROCESSING", "MANUFACTURING",
                "QUALITY_CHECK", "SHIPPED", "DELIVERED", "CANCELLED",
                "REFUNDED", "RETURNED"}

ASSUME ItemsFinite      == IsFiniteSet(Items)
ASSUME HandlersFinite   == IsFiniteSet(Handlers)
ASSUME AdminStatusesOK  == AdminStatuses \subseteq OrderStatus
ASSUME BoundsNat        == MaxStarts \in Nat /\ MaxInterrupts \in Nat

VARIABLES
  method,      \* Order.payment_method: "STRIPE" or "KUSTOM"
  pay,         \* Order.payment_status
  status,      \* Order.status
  commission,  \* OrderCommission.status
  taken,       \* per line: units this order holds out of stock, in quantities
  psp,         \* what the payment provider really did with the money
  inbox,       \* notifications the provider emitted; each may arrive any time
  task,        \* the requests in flight
  starts, interrupts,   \* counters of the two bounds
  raced,       \* history: a transition was applied against the stock it assumed
  crossed,     \* history: two writers of the order status overlapped
  interrupted  \* history: a request was cut short after its flip

row     == <<pay, status>>
history == <<raced, crossed, interrupted>>
vars    == <<method, pay, status, commission, taken, psp, inbox, task,
             starts, interrupts, raced, crossed, interrupted>>

PaymentStatus == {"awaiting_payment", "paid", "failed", "refunded"}
Kinds         == {"paid", "failed", "released", "refunded"}

Idle == [pc |-> "idle", op |-> "none", pay |-> "awaiting_payment",
         status |-> "PENDING", todo |-> {}]
Tasks == [pc     : {"idle", "read", "flip", "commission", "stock"},
          op     : Kinds \cup {"none", "admin"},
          pay    : PaymentStatus,    \* payment_status as the request read it
          status : OrderStatus,      \* status as read, or the one to write
          todo   : SUBSET Items]     \* lines whose stock is still to be moved

TypeOK ==
  /\ method \in {"STRIPE", "KUSTOM"}
  /\ pay \in PaymentStatus
  /\ status \in OrderStatus
  /\ commission \in {"PENDING", "COMPLETED", "FAILED"}
  /\ taken \in [Items -> Int]
  /\ psp \in {"open", "charged", "refunded", "released"}
  /\ inbox \subseteq Kinds
  /\ task \in [Handlers -> Tasks]
  /\ starts \in 0..MaxStarts
  /\ interrupts \in 0..MaxInterrupts
  /\ raced \in BOOLEAN /\ crossed \in BOOLEAN /\ interrupted \in BOOLEAN

(***************************************************************************)
(* deriveCommissionStatus: what an order status means for the earnings.    *)
(***************************************************************************)
deriveCommissionStatus(st) ==
  IF st = "DELIVERED" THEN "COMPLETED"
  ELSE IF st \in {"CANCELLED", "REFUNDED", "RETURNED"} THEN "FAILED"
  ELSE "PENDING"

\* An online order is created awaiting payment, its stock already taken.
Init ==
  /\ method \in {"STRIPE", "KUSTOM"}
  /\ pay = "awaiting_payment" /\ status = "PENDING" /\ commission = "PENDING"
  /\ taken = [i \in Items |-> 1]
  /\ psp = "open" /\ inbox = {}
  /\ task = [k \in Handlers |-> Idle]
  /\ starts = 0 /\ interrupts = 0
  /\ raced = FALSE /\ crossed = FALSE /\ interrupted = FALSE

-------------------------------------------------------------------------------
(* The payment provider (external).  A declined attempt leaves the intent    *)
(* open for another try; a full refund or a released authorization is final. *)

PspStep(to, notices) ==
  /\ psp' = to
  /\ inbox' = inbox \cup notices
  /\ UNCHANGED <<method, row, commission, taken, task, starts, interrupts,
                 history>>

PspDecline == psp = "open"    /\ method = "STRIPE" /\ PspStep("open", {"failed"})
PspCharge  == psp = "open"                         /\ PspStep("charged", {"paid"})
PspRefund  == psp = "charged"                      /\ PspStep("refunded", {"refunded"})
\* Kustom: the merchant portal cancels the authorization, or it expires.
PspRelease == psp = "charged" /\ method = "KUSTOM" /\ PspStep("released", {"released"})
\* Kustom: refundOrder on an uncaptured order cancels the authorization.
PspCancel  == /\ psp = "charged" /\ method = "KUSTOM"
              /\ PspStep("released", {"released", "refunded"})

-------------------------------------------------------------------------------
(* Requests reaching the service.                                            *)

Begin(k, t) ==
  /\ task[k].pc = "idle"
  /\ task' = [task EXCEPT ![k] = t]
  /\ UNCHANGED <<method, row, commission, taken, psp, inbox, interrupts, history>>

Counted == starts < MaxStarts /\ starts' = starts + 1
Call(op) == [Idle EXCEPT !.pc = "read", !.op = op]

\* onPaymentSucceeded and processCompletedCheckout act only on what the
\* provider reports live; an intent stays succeeded, and a Kustom order stays
\* CAPTURED, after a full refund.
ReceivePaid(k) ==
  /\ "paid" \in inbox /\ psp \in {"charged", "refunded"}
  /\ Begin(k, Call("paid"))
  /\ UNCHANGED starts

\* onPaymentFailed trusts the event: the intent is not read again.
ReceiveFailed(k) == "failed" \in inbox /\ Counted /\ Begin(k, Call("failed"))

\* The abandonment sweep lists unpaid orders, then fails them one by one.
Sweep(k) == pay = "awaiting_payment" /\ Counted /\ Begin(k, Call("failed"))

\* syncReleasedAuthorization, from the dashboard or from a refused capture.
ReceiveReleased(k) ==
  /\ "released" \in inbox /\ psp = "released"
  /\ Counted /\ Begin(k, Call("released"))

\* onChargeRefunded re-reads the charge; refundOrder has just cancelled or
\* refunded it.
ReceiveRefunded(k) ==
  /\ "refunded" \in inbox /\ psp \in {"refunded", "released"}
  /\ Counted /\ Begin(k, Call("refunded"))

\* updateStatus by an ADMIN: any status, whatever the order's state.
AdminUpdateStatus(k) ==
  \E st \in AdminStatuses :
    /\ Counted
    /\ Begin(k, [Idle EXCEPT !.pc = "flip", !.op = "admin", !.status = st])

-------------------------------------------------------------------------------
(* The read: an early return, or the row as it is remembered until the flip. *)

ReadRow(k, op, refuses) ==
  /\ task[k].pc = "read" /\ task[k].op = op
  /\ task' = [task EXCEPT ![k] =
                IF refuses THEN Idle
                ELSE [task[k] EXCEPT !.pc = "flip", !.pay = pay, !.status = status]]
  /\ UNCHANGED <<method, row, commission, taken, psp, inbox, starts,
                 interrupts, history>>

\* MUTANT: a payment that lands on a written-off order is ignored.
PaidReadRefusesFailed(k) == ReadRow(k, "paid", pay \in {"paid", "failed"})

PaidRead(k)     == ReadRow(k, "paid", pay = "paid")
FailedRead(k)   == ReadRow(k, "failed", pay \in {"paid", "failed"})
ReleasedRead(k) == ReadRow(k, "released",
                     \/ pay # "paid"
                     \/ status \in {"CANCELLED", "REFUNDED", "RETURNED", "DELIVERED"})
RefundedRead(k) == ReadRow(k, "refunded", pay = "refunded")

-------------------------------------------------------------------------------
(* The flip: one conditional updateMany.  When its condition fails the       *)
(* request returns without effect.                                           *)

\* Another request has written the status but not yet the commission.
CommissionPending(k) == \E j \in Handlers \ {k} : task[j].pc = "commission"

Lost(k) ==
  /\ task' = [task EXCEPT ![k] = Idle]
  /\ UNCHANGED <<row, raced, crossed>>

Flips(k, to, st, next) ==
  /\ pay' = to /\ status' = st
  /\ task' = [task EXCEPT ![k] = next]

Frame == UNCHANGED <<method, commission, taken, psp, inbox, starts, interrupts,
                     interrupted>>

Moving(k) == IF Items = {} THEN Idle
             ELSE [task[k] EXCEPT !.pc = "stock", !.todo = Items]

\* A freshly placed order moves forward; any later status stays.
Forward(st) == IF st = "PENDING" THEN "CONFIRMED" ELSE st

\* MUTANT: update({ where: { id } }), the flip without its payment_status guard.
PaidFlipUnguarded(k) ==
  /\ task[k].pc = "flip" /\ task[k].op = "paid" /\ Frame
  /\ Flips(k, "paid", Forward(task[k].status),
           IF task[k].pay = "failed" THEN Moving(k) ELSE Idle)
  /\ UNCHANGED <<raced, crossed>>

\* The status written is computed from the row as it was read; stock is taken
\* again only if that row was failed.
PaidFlip(k) ==
  /\ task[k].pc = "flip" /\ task[k].op = "paid" /\ Frame
  /\ \/ /\ pay = "paid" /\ Lost(k)
     \/ /\ pay # "paid"
        /\ LET st == Forward(task[k].status)
           IN  /\ Flips(k, "paid", st,
                        IF task[k].pay = "failed" THEN Moving(k) ELSE Idle)
               /\ crossed' = (crossed \/ st # Forward(status))
        /\ raced' = (\/ raced \/ pay = "refunded"
                     \/ pay = "failed" /\ task[k].pay # "failed")

\* MUTANT: where payment_status is not 'paid', forgetting 'failed'.
FailedFlipTwice(k) ==
  /\ task[k].pc = "flip" /\ task[k].op = "failed" /\ Frame
  /\ \/ /\ pay = "paid" /\ Lost(k)
     \/ /\ pay # "paid"
        /\ Flips(k, "failed", status, Moving(k))
        /\ raced' = (raced \/ pay = "refunded")
        /\ UNCHANGED crossed

\* MUTANT: where payment_status is not 'failed', trusting the read for 'paid'.
FailedFlipOverPaid(k) ==
  /\ task[k].pc = "flip" /\ task[k].op = "failed" /\ Frame
  /\ \/ /\ pay = "failed" /\ Lost(k)
     \/ /\ pay # "failed"
        /\ Flips(k, "failed", status, Moving(k))
        /\ UNCHANGED <<raced, crossed>>

FailedFlip(k) ==
  /\ task[k].pc = "flip" /\ task[k].op = "failed" /\ Frame
  /\ \/ /\ pay \in {"paid", "failed"} /\ Lost(k)
     \/ /\ pay \notin {"paid", "failed"}
        /\ Flips(k, "failed", status, Moving(k))
        /\ raced' = (raced \/ pay = "refunded")
        /\ UNCHANGED crossed

ThenCommission(k, st) == [task[k] EXCEPT !.pc = "commission", !.status = st]

\* MUTANT: the order is cancelled and its commission row forgotten.
ReleasedFlipNoCommission(k) ==
  /\ task[k].pc = "flip" /\ task[k].op = "released" /\ Frame
  /\ \/ /\ pay # "paid" /\ Lost(k)
     \/ /\ pay = "paid"
        /\ Flips(k, "failed", "CANCELLED", Moving(k))
        /\ UNCHANGED <<raced, crossed>>

ReleasedFlip(k) ==
  /\ task[k].pc = "flip" /\ task[k].op = "released" /\ Frame
  /\ \/ /\ pay # "paid" /\ Lost(k)
     \/ /\ pay = "paid"
        /\ Flips(k, "failed", "CANCELLED", ThenCommission(k, "CANCELLED"))
        /\ crossed' = (crossed \/ CommissionPending(k))
        /\ UNCHANGED raced

RefundedFlip(k) ==
  /\ task[k].pc = "flip" /\ task[k].op = "refunded" /\ Frame
  /\ \/ /\ pay = "refunded" /\ Lost(k)
     \/ /\ pay # "refunded"
        /\ Flips(k, "refunded", "REFUNDED", ThenCommission(k, "REFUNDED"))
        /\ raced' = (raced \/ pay = "failed")
        /\ crossed' = (crossed \/ CommissionPending(k))

AdminWrite(k) ==
  /\ task[k].pc = "flip" /\ task[k].op = "admin" /\ Frame
  /\ status' = task[k].status
  /\ task' = [task EXCEPT ![k] = ThenCommission(k, task[k].status)]
  /\ crossed' = (crossed \/ CommissionPending(k))
  /\ UNCHANGED <<pay, raced>>

-------------------------------------------------------------------------------
(* After the flip: the commission row, then the stock, one line at a time.   *)

WriteCommission(k) ==
  /\ task[k].pc = "commission"
  /\ commission' = deriveCommissionStatus(task[k].status)
  /\ task' = [task EXCEPT ![k] =
                IF task[k].op = "admin" THEN Idle ELSE Moving(k)]
  /\ UNCHANGED <<method, row, taken, psp, inbox, starts, interrupts, history>>

LineDone(k, i) ==
  task' = [task EXCEPT ![k] =
             IF task[k].todo = {i} THEN Idle
             ELSE [task[k] EXCEPT !.todo = task[k].todo \ {i}]]

\* decrementOrderItemsStock for a payment, restoreOrderItemsStock otherwise.
MoveStock(k, i) ==
  /\ task[k].pc = "stock" /\ i \in task[k].todo
  /\ taken' = [taken EXCEPT ![i] = IF task[k].op = "paid" THEN @ + 1 ELSE @ - 1]
  /\ LineDone(k, i)
  /\ UNCHANGED <<method, row, commission, psp, inbox, starts, interrupts, history>>

-------------------------------------------------------------------------------
(* Failures between two statements.                                          *)

Cut == interrupts < MaxInterrupts /\ interrupts' = interrupts + 1

\* A statement throws, or the process dies: the rest of the request is lost.
Interrupt(k) ==
  /\ task[k].pc # "idle" /\ Cut
  /\ interrupted' = (interrupted \/ task[k].pc \in {"commission", "stock"})
  /\ task' = [task EXCEPT ![k] = Idle]
  /\ UNCHANGED <<method, row, commission, taken, psp, inbox, starts, raced,
                 crossed>>

\* One line's update fails; it is logged and the loop goes on.
LineFails(k, i) ==
  /\ task[k].pc = "stock" /\ i \in task[k].todo /\ Cut
  /\ interrupted' = TRUE
  /\ LineDone(k, i)
  /\ UNCHANGED <<method, row, commission, taken, psp, inbox, starts, raced,
                 crossed>>

-------------------------------------------------------------------------------
Provider == PspDecline \/ PspCharge \/ PspRefund \/ PspRelease \/ PspCancel

Receive(k) ==
  \/ ReceivePaid(k) \/ ReceiveFailed(k) \/ Sweep(k)
  \/ ReceiveReleased(k) \/ ReceiveRefunded(k) \/ AdminUpdateStatus(k)

Proceed(k) ==
  \/ PaidRead(k) \/ FailedRead(k) \/ ReleasedRead(k) \/ RefundedRead(k)
  \/ PaidFlip(k) \/ FailedFlip(k) \/ ReleasedFlip(k) \/ RefundedFlip(k)
  \/ AdminWrite(k) \/ WriteCommission(k)
  \/ \E i \in Items : MoveStock(k, i)

Fail(k) == Interrupt(k) \/ \E i \in Items : LineFails(k, i)

Next == Provider \/ \E k \in Handlers : Receive(k) \/ Proceed(k) \/ Fail(k)

Spec == Init /\ [][Next]_vars

\* A request that is running goes on; Stripe repeats a webhook and Kustom a
\* push until it is answered, so a confirmation keeps being delivered.
Fairness ==
  /\ \A k \in Handlers : WF_vars(Proceed(k))
  /\ SF_vars(\E k \in Handlers : ReceivePaid(k))

FairSpec == Spec /\ Fairness

-------------------------------------------------------------------------------
(* Properties.                                                               *)

\* Stock loops in flight that will still take, or hand back, line i.
Taking(i)    == {k \in Handlers : i \in task[k].todo /\ task[k].op = "paid"}
Restoring(i) == {k \in Handlers : i \in task[k].todo /\ task[k].op # "paid"}

\* What a commission-then-stock request will still hand back.
WillRestore == {k \in Handlers : task[k].pc = "commission" /\ task[k].op # "admin"}

\* The units of line i the order holds once every request in flight is done.
Settled(i) == taken[i] + Cardinality(Taking(i)) - Cardinality(Restoring(i))
                       - Cardinality(WillRestore)

Held(p) == IF p \in {"awaiting_payment", "paid"} THEN 1 ELSE 0

\* Unless a request was cut short, an order never takes a line's stock twice:
\* markOrderPaid takes it again only after an earlier write-off gave it back,
\* however many confirmations, declines and refunds overlap.
NeverTakenTwice == ~interrupted => \A i \in Items : Settled(i) <= 1

\* The order's stock is exactly what its payment_status says (held while it is
\* payable or paid, none once written off or refunded), unless one of the four
\* races that "raced" records has happened: a confirmation flipping an order
\* written off after it was read, a confirmation flipping a refunded order, a
\* refund of a written-off order, a decline flipping a refunded order.
StockFollowsPayment ==
  ~raced /\ ~interrupted => \A i \in Items : Settled(i) = Held(pay)

\* Once no commission write is outstanding the commission agrees with the order
\* status, unless two writers of the status overlapped or one was cut short:
\* cancelled and refunded sales do not stay counted as earnings.
CommissionFollowsStatus ==
  \/ crossed \/ interrupted
  \/ \E k \in Handlers : task[k].pc = "commission"
  \/ commission = deriveCommissionStatus(status)

\* A paid order leaves "paid" only when the provider has really given the money
\* back or let the authorization go: no stale decline, sweep or replay can
\* write it off, whatever that request had read before the payment landed.
PaidOnlyLostWithTheMoney ==
  [][pay = "paid" /\ pay' # "paid" => psp \in {"refunded", "released"}]_vars

\* Money the provider holds for the order is recognised: a charged order becomes
\* paid (even after a decline or the sweep wrote it off), or the money is no
\* longer there.  Retried deliveries and requests that proceed are assumed.
ChargeIsRecognised == psp = "charged" ~> (pay = "paid" \/ psp # "charged")
================================================================================
