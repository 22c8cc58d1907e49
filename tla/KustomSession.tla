----------------------------- MODULE KustomSession -----------------------------
(***************************************************************************)
(* The session-first Kustom checkout                                       *)
(* (src/src/modules/payments/kustom/kustom-checkout.service.ts).           *)
(*                                                                         *)
(* One checkout session: our KustomCheckoutSession row, the orders created *)
(* from it and the checkout Kustom holds.  The shopper edits the session   *)
(* from the storefront (updateSession) and changes the address in Kustom's *)
(* iframe (handleCheckoutUpdate); before taking the money Kustom asks us   *)
(* to validate (handleValidation), which creates the order; afterwards it  *)
(* pushes until we acknowledge.  An edit after validation detaches the     *)
(* unpaid order and reopens the session.  Any of these run at the same     *)
(* time; one database statement or Kustom call is one step.                *)
(*                                                                         *)
(* An amount is what a snapshot of items costs when sent to a destination: *)
(* the pair <<cost, destination>>; two snapshots may cost the same.  The   *)
(* stock and coupon counters behind create() and markOrderFailed are in    *)
(* module Checkout.                                                        *)
(***************************************************************************)
EXTENDS Integers, FiniteSets

CONSTANTS
  Items,        \* what the session may contain (lines, coupon, notes)
  Cost,         \* what each of them costs, shipping apart
  Dests,        \* destinations and shipping options the shopper may choose
  Requests,     \* requests in flight at the same time
  None,         \* no request
  MaxOrders,    \* bound: orders created from the session
  MaxCalls,     \* bound: validations, callbacks and edits
  MaxFailures   \* bound: requests that die, statements that fail

ASSUME SetsNonempty   == Items # {} /\ Dests # {}
ASSUME CostNat        == Cost \in [Items -> Nat]
ASSUME RequestsFinite == IsFiniteSet(Requests) /\ None \notin Requests
ASSUME BoundsNat      == MaxOrders \in Nat /\ MaxCalls \in Nat /\ MaxFailures \in Nat

VARIABLES
  session,    \* the KustomCheckoutSession row
  orders,     \* the orders created from it
  placed,     \* how many there are
  kustom,     \* the checkout as Kustom holds it
  task,       \* the requests in flight
  calls, failures,  \* counters of the bounds
  stray,      \* history: two edits overlapped, Kustom stopped waiting for a
              \* request that still runs, an edit set out to replace a pending
              \* order of the very amount it told Kustom, or a callback gave
              \* Kustom back the amount of an order an edit was replacing
  died        \* history: a request died or one of its statements failed

vars    == <<session, orders, placed, kustom, task, calls, failures, stray, died>>
history == <<stray, died>>
bounds  == <<calls, failures>>

OrderIds == 1..MaxOrders
Amounts  == {Cost[i] : i \in Items} \X Dests
Items1   == CHOOSE i \in Items : TRUE
Dest1    == CHOOSE d \in Dests : TRUE
Amount1  == <<Cost[Items1], Dest1>>

\* stale: claimed more than 30 s ago; late: past expires_at.
Sessions == [status : {"open", "ordering", "ordered", "expired"},
             order : 0..MaxOrders, items : Items, dest : Dests,
             stale : BOOLEAN, late : BOOLEAN]
Snapshots == [status : {"open", "ordering", "ordered", "expired"},
              order : 0..MaxOrders, items : Items]
Blank     == [status |-> "open", order |-> 0, items |-> Items1]

\* linked: it holds the checkout's kustom_order_id, which is unique; coupon:
\* its PromotionUsage row exists; swept: failed by the abandonment sweep.
Orders == [pay : {"none", "awaiting_payment", "paid", "failed"}, total : Amounts,
           linked : BOOLEAN, coupon : BOOLEAN, swept : BOOLEAN]

\* A verdict on an amount: refused, approved after comparing it with an order's
\* total, or approved without having compared it.
Verdicts == {"no", "checked", "unchecked"}

\* waiting: the callback Kustom expects an answer to; approved: the verdict on
\* the amount it holds; complete: the money is authorized, done: and we have
\* acknowledged that.
Checkouts == [status : {"incomplete", "complete", "done"}, amount : Amounts,
              dest : Dests, waiting : Requests \cup {None}, approved : Verdicts]

\* posted: the amount Kustom asks about; items, dest: what the caller prices;
\* snap: the session as loaded; order: the order created, to detach or to pay.
Tasks == [pc : {"idle", "load", "pending", "update", "claim", "await", "create",
                "link", "detach", "failRead", "failFlip", "coupon", "unlink",
                "restore", "release", "store", "answer", "verify", "mark"},
          kind : {"none", "validation", "callback", "edit", "push"},
          posted : Amounts, items : Items, dest : Dests, snap : Snapshots,
          order : 0..MaxOrders, ok : Verdicts]

TypeOK ==
  /\ session \in Sessions /\ orders \in [OrderIds -> Orders] /\ placed \in 0..MaxOrders
  /\ kustom \in Checkouts /\ task \in [Requests -> Tasks]
  /\ calls \in 0..MaxCalls /\ failures \in 0..MaxFailures
  /\ stray \in BOOLEAN /\ died \in BOOLEAN

\* A finished request leaves nothing behind.
Idle == [pc |-> "idle", kind |-> "none", posted |-> Amount1,
         items |-> Items1, dest |-> Dest1, snap |-> Blank, order |-> 0, ok |-> "no"]

\* createSession: the row, then the checkout at Kustom for the same amount.
Init ==
  /\ session = [status |-> "open", order |-> 0, items |-> Items1, dest |-> Dest1,
                stale |-> FALSE, late |-> FALSE]
  /\ orders = [o \in OrderIds |-> [pay |-> "none", total |-> Amount1,
                 linked |-> FALSE, coupon |-> FALSE, swept |-> FALSE]]
  /\ placed = 0
  /\ kustom = [status |-> "incomplete", amount |-> Amount1,
               dest |-> Dest1, waiting |-> None, approved |-> "no"]
  /\ task = [r \in Requests |-> Idle]
  /\ calls = 0 /\ failures = 0 /\ stray = FALSE /\ died = FALSE

-------------------------------------------------------------------------------
At(r, pc)    == task[r].pc = pc
Become(r, t) == task' = [task EXCEPT ![r] = t]
Goto(r, pc)  == Become(r, [task[r] EXCEPT !.pc = pc])
Row(r)       == orders[task[r].order]
SetRow(r, x) == orders' = [orders EXCEPT ![task[r].order] = x]
InFlight(kind) == \E r \in Requests : task[r].kind = kind

\* Only Kustom's callbacks get an answer; the others just end.
Answering(t, ok) == IF t.kind \in {"validation", "callback"}
                    THEN [t EXCEPT !.pc = "answer", !.ok = ok] ELSE Idle

\* pendingOrderOf: the order of the session as loaded, while nobody paid it.
Pending(t) == /\ t.snap.status = "ordered" /\ t.snap.order # 0
              /\ orders[t.snap.order].pay = "awaiting_payment"

Price(t) == <<Cost[t.items], t.dest>>

\* A pending order that no longer matches what the shopper is buying.
Changed(t) == orders[t.order].total # Price(t) \/ t.items # t.snap.items

\* What follows detachPendingOrder: a validation refuses the amount, and
\* approves it when there was nothing to detach; the others write or give up.
Detached(t, done) ==
  IF t.kind = "validation" THEN Answering(t, IF done THEN "no" ELSE "unchecked")
  ELSE IF done THEN [t EXCEPT !.pc = "store"] ELSE Answering(t, "no")

\* abandonOrder serves detachPendingOrder and a validation whose new order
\* could not be linked.
AfterAbandon(t, failed) ==
  IF t.snap.status = "ordered"
  THEN [t EXCEPT !.pc = IF failed THEN "unlink" ELSE "restore"]
  ELSE [t EXCEPT !.pc = "release"]

-------------------------------------------------------------------------------
(***************************************************************************)
(* Kustom, the shopper, the clock and the sweep                            *)
(***************************************************************************)
Free(r) == At(r, "idle") /\ kustom.waiting # r

Start(r, t) ==
  /\ Free(r) /\ calls < MaxCalls /\ calls' = calls + 1
  /\ Become(r, [t EXCEPT !.pc = "load"])

Ask(r, kind, dest) ==
  /\ kustom.status = "incomplete" /\ kustom.waiting = None
  /\ Start(r, [Idle EXCEPT !.kind = kind, !.posted = kustom.amount, !.dest = dest])
  /\ kustom' = [kustom EXCEPT !.waiting = r, !.approved = "no", !.dest = dest]
  /\ UNCHANGED <<session, orders, placed, failures, history>>

SendValidation(r) == Ask(r, "validation", kustom.dest)
SendUpdate(r)     == \E d \in Dests : Ask(r, "callback", d)

\* Kustom's 3 s (validation) or 10 s (update) are over.
GiveUp ==
  /\ kustom.waiting # None
  /\ kustom' = [kustom EXCEPT !.waiting = None]
  /\ stray' = (stray \/ ~At(kustom.waiting, "idle"))
  /\ UNCHANGED <<session, orders, placed, task, bounds, died>>

\* The purchase goes through at the amount that was approved.
Complete ==
  /\ kustom.status = "incomplete" /\ kustom.waiting = None /\ kustom.approved # "no"
  /\ kustom' = [kustom EXCEPT !.status = "complete"]
  /\ UNCHANGED <<session, orders, placed, task, bounds, history>>

\* Kustom pushes until it gets a 200; the confirmation page takes the same path.
Push(r) ==
  /\ kustom.status = "complete" /\ Free(r) /\ ~InFlight("push")
  /\ Become(r, [Idle EXCEPT !.kind = "push", !.pc = "load"])
  /\ UNCHANGED <<session, orders, placed, kustom, bounds, history>>

Edit(r) ==
  /\ \E i \in Items : Start(r, [Idle EXCEPT !.kind = "edit", !.items = i])
  /\ stray' = (stray \/ InFlight("edit"))
  /\ UNCHANGED <<session, orders, placed, kustom, failures, died>>

GoStale ==
  /\ session.status = "ordering" /\ ~session.stale
  /\ session' = [session EXCEPT !.stale = TRUE]
  /\ UNCHANGED <<orders, placed, kustom, task, bounds, history>>

Expire ==
  /\ ~session.late /\ session' = [session EXCEPT !.late = TRUE]
  /\ UNCHANGED <<orders, placed, kustom, task, bounds, history>>

\* releaseExpiredAwaitingPaymentOrders, hours after the order was placed: no
\* validation is still creating it.  It leaves the coupon alone.
Sweep(o) ==
  /\ orders[o].pay = "awaiting_payment"
  /\ \A r \in Requests : task[r].kind = "validation" /\ task[r].order = o
                            => task[r].snap.status = "ordered"
  /\ orders' = [orders EXCEPT ![o] = [@ EXCEPT !.pay = "failed", !.swept = TRUE]]
  /\ UNCHANGED <<session, placed, kustom, task, bounds, history>>

-------------------------------------------------------------------------------
(***************************************************************************)
(* loadSession and the early returns on what it found                      *)
(***************************************************************************)
Expired == session.late \/ session.status = "expired"

Loaded(t) ==
  [t EXCEPT !.snap  = [status |-> session.status, order |-> session.order,
                       items |-> session.items],
            !.items = IF t.kind = "edit" THEN t.items ELSE session.items,
            !.dest  = IF t.kind = "edit" THEN session.dest ELSE t.dest]

Load(r) ==
  LET t == Loaded(task[r]) IN
  /\ At(r, "load")
  /\ \/ /\ t.kind = "validation" /\ session.status = "ordered"
        /\ Become(r, [t EXCEPT !.pc = "pending"]) /\ UNCHANGED session
     \/ /\ t.kind = "validation" /\ session.status # "ordered"
        /\ Become(r, IF Expired THEN Answering(t, "no") ELSE [t EXCEPT !.pc = "claim"])
        /\ UNCHANGED session
     \/ /\ t.kind = "callback"
        /\ Become(r, IF Expired THEN Answering(t, "no") ELSE [t EXCEPT !.pc = "pending"])
        /\ UNCHANGED session
     \/ /\ t.kind = "edit"
        /\ Become(r, IF Expired THEN Idle ELSE [t EXCEPT !.pc = "pending"])
        /\ session' = IF Expired /\ session.status = "open"
                      THEN [session EXCEPT !.status = "expired"] ELSE session
     \/ /\ t.kind = "push"   \* no order yet: 503, Kustom retries
        /\ Become(r, IF session.order = 0 THEN Idle
                     ELSE [t EXCEPT !.pc = "verify", !.order = session.order])
        /\ UNCHANGED session
  /\ UNCHANGED <<orders, placed, kustom, bounds, history>>

\* MUTANT: a pending order is approved whatever amount Kustom holds.
RevalidateAny(r) ==
  /\ At(r, "pending") /\ task[r].kind = "validation"
  /\ Become(r, IF Pending(task[r]) THEN Answering(task[r], "checked")
               ELSE Answering(task[r], "unchecked"))
  /\ UNCHANGED <<session, orders, placed, kustom, bounds, history>>

\* revalidateOrdered
Revalidate(r) ==
  LET t == task[r] IN
  /\ At(r, "pending") /\ t.kind = "validation"
  /\ Become(r, IF ~Pending(t) THEN Answering(t, "unchecked")
               ELSE IF orders[t.snap.order].total = t.posted THEN Answering(t, "checked")
               ELSE [t EXCEPT !.pc = "detach", !.order = t.snap.order])
  /\ UNCHANGED <<session, orders, placed, kustom, bounds, history>>

\* updateSession and handleCheckoutUpdate: an order that is not pending any
\* more settles the session; otherwise price the new amount.
PendingRead(r) ==
  LET t == [task[r] EXCEPT !.order = IF Pending(task[r]) THEN task[r].snap.order ELSE 0]
  IN
  /\ At(r, "pending") /\ t.kind \in {"edit", "callback"}
  /\ Become(r, IF t.snap.status # "open" /\ t.order = 0 THEN Answering(t, "no")
               ELSE IF t.kind = "edit" THEN [t EXCEPT !.pc = "update"]
               ELSE IF t.order # 0 /\ Changed(t) THEN [t EXCEPT !.pc = "detach"]
               ELSE [t EXCEPT !.pc = "store"])
  /\ UNCHANGED <<session, orders, placed, kustom, bounds, history>>

-------------------------------------------------------------------------------
(***************************************************************************)
(* updateSession: Kustom first, then the pending order, then our row       *)
(***************************************************************************)
Asking(kind) == kustom.waiting # None /\ task[kustom.waiting].kind = kind

SameAmount(t) == t.order # 0 /\ Changed(t) /\ orders[t.order].total = Price(t)

\* Kustom refuses to update a completed checkout; an update voids the
\* validation of the amount it replaces.
Update(r) ==
  LET t == task[r] IN
  /\ At(r, "update")
  /\ \/ /\ kustom.status # "incomplete" /\ Become(r, Idle)
        /\ UNCHANGED <<kustom, stray>>
     \/ /\ kustom.status = "incomplete"
        /\ kustom' = [kustom EXCEPT !.amount = Price(t), !.approved = "no",
                         !.waiting = IF Asking("validation") THEN None ELSE @]
        /\ stray' = (stray \/ Asking("validation") \/ SameAmount(t))
        /\ Become(r, IF t.order = 0 THEN [t EXCEPT !.pc = "store"]
                     ELSE IF Changed(t) THEN [t EXCEPT !.pc = "detach"] ELSE Idle)
  /\ UNCHANGED <<session, orders, placed, bounds, died>>

\* Only an open session takes the new snapshot.  A callback is answered with
\* its amounts even when nothing was written.
Store(r) ==
  LET t == task[r] IN
  /\ At(r, "store")
  /\ session' = IF session.status # "open" THEN session
                ELSE IF t.kind = "edit"
                THEN [session EXCEPT !.items = t.items, !.dest = t.dest]
                ELSE [session EXCEPT !.dest = t.dest]
  /\ Become(r, Answering(t, "checked"))
  /\ UNCHANGED <<orders, placed, kustom, bounds, history>>

-------------------------------------------------------------------------------
(***************************************************************************)
(* handleValidation: claim, compare, create, link                          *)
(***************************************************************************)
Claimable == \/ session.status = "open"
             \/ session.status = "ordering" /\ session.stale

Claim(r) ==
  LET t == task[r] IN
  /\ At(r, "claim")
  /\ \/ /\ Claimable
        /\ session' = [session EXCEPT !.status = "ordering", !.stale = FALSE]
        /\ Goto(r, IF t.posted = Price(t) THEN "create" ELSE "release")
     \/ /\ ~Claimable /\ Goto(r, "await") /\ UNCHANGED session
  /\ UNCHANGED <<orders, placed, kustom, bounds, history>>

\* awaitConcurrentValidation: the status seen last, at any moment.
Await(r) ==
  /\ At(r, "await")
  /\ Become(r, Answering(task[r], IF session.status = "ordered" THEN "unchecked" ELSE "no"))
  /\ UNCHANGED <<session, orders, placed, kustom, bounds, history>>

\* OrdersService.create, from the snapshot; it may refuse (stock, coupon).
Create(r) ==
  /\ At(r, "create")
  /\ \/ /\ placed < MaxOrders /\ placed' = placed + 1
        /\ orders' = [orders EXCEPT ![placed'] =
                        [pay |-> "awaiting_payment", total |-> Price(task[r]),
                         linked |-> FALSE, coupon |-> TRUE, swept |-> FALSE]]
        /\ Become(r, [task[r] EXCEPT !.pc = "link", !.order = placed'])
     \/ /\ Goto(r, "release") /\ UNCHANGED <<orders, placed>>
  /\ UNCHANGED <<session, kustom, bounds, history>>

Taken(o) == \E p \in OrderIds \ {o} : orders[p].linked

Linking(r) ==
  /\ SetRow(r, [Row(r) EXCEPT !.linked = TRUE])
  /\ session' = [session EXCEPT !.status = "ordered", !.order = task[r].order,
                    !.dest = task[r].dest, !.stale = FALSE]
  /\ Become(r, Answering([task[r] EXCEPT !.order = 0], "checked"))

\* MUTANT: an order that could not be linked is left behind.
LinkLeaves(r) ==
  /\ At(r, "link")
  /\ \/ ~Taken(task[r].order) /\ Linking(r)
     \/ Taken(task[r].order) /\ Goto(r, "release") /\ UNCHANGED <<session, orders>>
  /\ UNCHANGED <<placed, kustom, bounds, history>>

\* One transaction; the unique kustom_order_id makes a duplicate fail.
Link(r) ==
  /\ At(r, "link")
  /\ \/ ~Taken(task[r].order) /\ Linking(r)
     \/ Taken(task[r].order) /\ Goto(r, "failRead") /\ UNCHANGED <<session, orders>>
  /\ UNCHANGED <<placed, kustom, bounds, history>>

\* The finally block of a validation that did not link an order.
Release(r) ==
  /\ At(r, "release")
  /\ session' = IF session.status = "ordering"
                THEN [session EXCEPT !.status = "open", !.stale = FALSE] ELSE session
  /\ Become(r, Answering([task[r] EXCEPT !.order = 0], "no"))
  /\ UNCHANGED <<orders, placed, kustom, bounds, history>>

-------------------------------------------------------------------------------
(***************************************************************************)
(* detachPendingOrder and abandonOrder                                     *)
(***************************************************************************)
Detach(r) ==
  LET t == task[r] IN
  /\ At(r, "detach")
  /\ \/ /\ session.status = "ordered" /\ session.order = t.order
        /\ session' = [session EXCEPT !.status = "open", !.order = 0]
        /\ Goto(r, "failRead")
     \/ /\ ~(session.status = "ordered" /\ session.order = t.order)
        /\ Become(r, Detached(t, FALSE)) /\ UNCHANGED session
  /\ UNCHANGED <<orders, placed, kustom, bounds, history>>

\* markOrderFailed: a paid order is refused, a failed one needs no flip.
FailRead(r) ==
  /\ At(r, "failRead")
  /\ Become(r, IF Row(r).pay = "paid" THEN AfterAbandon(task[r], FALSE)
               ELSE [task[r] EXCEPT !.pc = IF Row(r).pay = "failed" THEN "coupon"
                                            ELSE "failFlip"])
  /\ UNCHANGED <<session, orders, placed, kustom, bounds, history>>

FailFlip(r) ==
  /\ At(r, "failFlip")
  /\ \/ /\ Row(r).pay = "awaiting_payment"
        /\ SetRow(r, [Row(r) EXCEPT !.pay = "failed"]) /\ Goto(r, "coupon")
     \/ /\ Row(r).pay # "awaiting_payment"
        /\ Become(r, AfterAbandon(task[r], FALSE)) /\ UNCHANGED orders
  /\ UNCHANGED <<session, placed, kustom, bounds, history>>

\* releaseOrderCoupon
FreeCoupon(r) ==
  /\ At(r, "coupon") /\ SetRow(r, [Row(r) EXCEPT !.coupon = FALSE])
  /\ Become(r, AfterAbandon(task[r], TRUE))
  /\ UNCHANGED <<session, placed, kustom, bounds, history>>

\* Only a failed order gives up its Kustom link.
Unlink(r) ==
  /\ At(r, "unlink")
  /\ SetRow(r, [Row(r) EXCEPT !.linked = @ /\ Row(r).pay # "failed"])
  /\ Become(r, Detached(task[r], TRUE))
  /\ UNCHANGED <<session, placed, kustom, bounds, history>>

\* The order was settled meanwhile: the session takes it back.
Restore(r) ==
  /\ At(r, "restore")
  /\ session' = IF session.status = "open" /\ session.order = 0
                THEN [session EXCEPT !.status = "ordered", !.order = task[r].order]
                ELSE session
  /\ Become(r, Detached(task[r], FALSE))
  /\ UNCHANGED <<orders, placed, kustom, bounds, history>>

-------------------------------------------------------------------------------
(***************************************************************************)
(* Answers, the push and failures                                          *)
(***************************************************************************)
\* An edit that told Kustom its amount has still to detach the order whose
\* amount this answer carries.
HandsBack(t) == /\ t.kind = "callback" /\ t.ok # "no"
                /\ \E e \in Requests : /\ At(e, "detach") /\ task[e].kind = "edit"
                                      /\ orders[task[e].order].total = Price(t)

\* Kustom takes the answer if it still waits for it: new amounts from a
\* callback, the verdict from a validation.
Answer(r) ==
  LET t == task[r] IN
  /\ At(r, "answer") /\ Become(r, Idle)
  /\ stray' = (stray \/ (kustom.waiting = r /\ HandsBack(t)))
  /\ kustom' = IF kustom.waiting # r THEN kustom
               ELSE IF t.kind = "validation"
               THEN [kustom EXCEPT !.waiting = None, !.approved = t.ok]
               ELSE [kustom EXCEPT !.waiting = None,
                       !.amount = IF t.ok = "no" THEN @ ELSE Price(t)]
  /\ UNCHANGED <<session, orders, placed, bounds, died>>

\* handlePush and processCompletedCheckout up to markOrderPaid: a bad token is
\* a 404, a mismatch is recorded and acknowledged.
Verify(r) ==
  LET o == task[r].order IN
  /\ At(r, "verify")
  /\ \/ /\ ~orders[o].linked /\ Become(r, Idle) /\ UNCHANGED kustom
     \/ /\ orders[o].linked /\ session.order = o /\ orders[o].total = kustom.amount
        /\ Goto(r, "mark") /\ UNCHANGED kustom
     \/ /\ orders[o].linked /\ (session.order # o \/ orders[o].total # kustom.amount)
        /\ Become(r, Idle) /\ kustom' = [kustom EXCEPT !.status = "done"]
  /\ UNCHANGED <<session, orders, placed, bounds, history>>

\* MUTANT: an order written off by the sweep is not revived.
MarkAwaitingOnly(r) ==
  /\ At(r, "mark")
  /\ SetRow(r, [Row(r) EXCEPT !.pay = IF @ = "awaiting_payment" THEN "paid" ELSE @])
  /\ kustom' = [kustom EXCEPT !.status = "done"] /\ Become(r, Idle)
  /\ UNCHANGED <<session, placed, bounds, history>>

\* markOrderPaid, from awaiting_payment and from failed alike; then the 200.
Mark(r) ==
  /\ At(r, "mark") /\ SetRow(r, [Row(r) EXCEPT !.pay = "paid"])
  /\ kustom' = [kustom EXCEPT !.status = "done"] /\ Become(r, Idle)
  /\ UNCHANGED <<session, placed, bounds, history>>

Fails(r) == /\ failures < MaxFailures /\ failures' = failures + 1
            /\ died' = TRUE /\ UNCHANGED <<placed, calls, stray>>

\* The process dies, or a statement outside every try throws.
Die(r) == /\ Fails(r) /\ ~At(r, "idle") /\ Become(r, Idle)
          /\ UNCHANGED <<session, orders, kustom>>

\* markOrderFailed throws: the order counts as kept.
FailThrows(r) == /\ Fails(r) /\ (At(r, "failRead") \/ At(r, "failFlip"))
                 /\ Become(r, AfterAbandon(task[r], FALSE))
                 /\ UNCHANGED <<session, orders, kustom>>

\* The unlink is caught: the replaced order keeps the checkout's id.
UnlinkThrows(r) == /\ Fails(r) /\ At(r, "unlink") /\ Become(r, Detached(task[r], TRUE))
                   /\ UNCHANGED <<session, orders, kustom>>

\* The transaction throws, or the stored total is not the amount quoted.
LinkThrows(r) == /\ Fails(r) /\ At(r, "link") /\ Goto(r, "failRead")
                 /\ UNCHANGED <<session, orders, kustom>>

-------------------------------------------------------------------------------
Step(r) == \/ Load(r) \/ Revalidate(r) \/ PendingRead(r) \/ Update(r) \/ Store(r)
           \/ Claim(r) \/ Await(r) \/ Create(r) \/ Link(r) \/ Release(r)
           \/ Detach(r) \/ FailRead(r) \/ FailFlip(r) \/ FreeCoupon(r)
           \/ Unlink(r) \/ Restore(r) \/ Answer(r) \/ Verify(r) \/ Mark(r)

Request(r) == SendValidation(r) \/ SendUpdate(r) \/ Edit(r)
Failure(r) == Die(r) \/ FailThrows(r) \/ UnlinkThrows(r) \/ LinkThrows(r)

Next == \/ GiveUp \/ Complete \/ GoStale \/ Expire
        \/ \E o \in OrderIds : Sweep(o)
        \/ \E r \in Requests : Request(r) \/ Push(r) \/ Step(r) \/ Failure(r)

Spec == Init /\ [][Next]_vars

\* A request that got through runs to its end; Kustom keeps pushing.
FairSpec == /\ Spec /\ \A r \in Requests : WF_vars(Step(r))
            /\ WF_vars(\E r \in Requests : Push(r)) /\ WF_vars(GiveUp)

-------------------------------------------------------------------------------
Quiescent == \A r \in Requests : At(r, "idle")

Backed == /\ session.status = "ordered" /\ session.order # 0
          /\ orders[session.order].linked /\ orders[session.order].total = kustom.amount

\* An amount handleValidation approved after comparing it stays backed by the
\* session's own order, linked and of that total, until Kustom asks again:
\* whatever edits, callbacks and sweeps run in between.
ApprovedHasOrder == kustom.approved = "checked" /\ ~stray => Backed

\* An order still awaiting its payment is the one its session holds: none is
\* left behind, holding stock, by a validation or an edit that lost a race.
NoOrphans ==
  Quiescent /\ ~died => \A o \in OrderIds : orders[o].pay = "awaiting_payment" =>
     orders[o].linked /\ session.status = "ordered" /\ session.order = o

\* detachPendingOrder never takes a paid order away from its session, not even
\* for a moment: the order keeps its Kustom link and coupon.
PaidKeepsSession ==
  ~stray => \A o \in OrderIds : orders[o].pay = "paid" =>
     orders[o].linked /\ orders[o].coupon /\ session.status = "ordered" /\ session.order = o

\* A replaced or duplicate order has given back its coupon and, unless the
\* sweep got to it first, its place in the checkout.
ReplacedIsFreed ==
  Quiescent /\ ~died => \A o \in OrderIds :
     orders[o].pay = "failed" /\ ~orders[o].swept => ~orders[o].coupon /\ ~orders[o].linked

\* The order and its session find each other, whatever edits, callbacks and
\* sweeps crossed.
SessionHoldsOrder == NoOrphans /\ PaidKeepsSession /\ ReplacedIsFreed

\* Money authorized on a compared amount is recognised: some push finds the
\* order and marks it paid, however many edits are still on their way.
AuthorizedIsPaid ==
  (kustom.status = "complete" /\ kustom.approved = "checked" /\ ~stray)
     ~> (\E o \in OrderIds : orders[o].pay = "paid") \/ stray
================================================================================
