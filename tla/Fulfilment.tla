------------------------------- MODULE Fulfilment -------------------------------
(***************************************************************************)
(* How an order moves from placed to delivered                             *)
(* (src/src/modules/orders/orders.service.ts).                             *)
(*                                                                         *)
(* Each line is fulfilled by a provider or by a creator, who advance their *)
(* own lines; the status of the order follows its slowest line.  An        *)
(* administrator sets the status and cascades it onto the lines; payments  *)
(* confirm or refund the order.  A status that changes is written on the   *)
(* commission row, is mailed to the customer, and when it is SHIPPED runs  *)
(* the shipped hooks, one of which captures a Kustom authorization.  All   *)
(* of these are separate statements of concurrent requests.                *)
(*                                                                         *)
(* The payment side of markOrderPaid and markOrderRefunded (their flips,   *)
(* the stock) is in OrderPayment.                                          *)
(***************************************************************************)
EXTENDS Integers, FiniteSets, FiniteSetsExt

CONSTANTS
  Items,        \* the lines of the order
  Fulfiller,    \* Items -> the provider or creator who fulfils the line
  Requests,     \* requests in flight at the same time
  AdminSets,    \* members of Statuses an administrator sets
  FulfillerSets,\* members of Statuses a fulfiller asks for
  Stages,       \* members of AllStages a fulfiller sets on one line
  MaxJobs,      \* bound: requests
  MaxCuts       \* bound: requests cut short

Progress == <<"PENDING", "CONFIRMED", "PROCESSING", "MANUFACTURING",
              "QUALITY_CHECK", "SHIPPED", "DELIVERED">>
Terminal == {"CANCELLED", "REFUNDED", "RETURNED"}
Statuses == {Progress[r] : r \in DOMAIN Progress} \cup Terminal
StageSeq == <<"PENDING", "PROCESSING", "MANUFACTURING", "SHIPPED", "DELIVERED">>
AllStages == {StageSeq[r] : r \in DOMAIN StageSeq}

\* What the proofs use of them.
ConstantsOK ==
  /\ Items # {}
  /\ AdminSets \subseteq Statuses /\ FulfillerSets \subseteq Statuses /\ Stages \subseteq AllStages
  /\ MaxJobs \in Nat /\ MaxCuts \in Nat

VARIABLES
  pay,         \* Order.payment_status
  status,      \* Order.status
  stage,       \* OrderItem.fulfillment_status
  commission,  \* OrderCommission.status
  hooked,      \* the shipped hooks have been run
  mailed,      \* statuses the customer was written about
  job,         \* the requests in flight
  jobs, cuts,  \* counters of the bounds
  shipped,     \* history: lines that were ever shipped, or said to be
  overwritten, \* history: a status was written over a newer one
  byHand,      \* history: the status stands since an administrator set it
  interrupted  \* history: a request was cut between two of its statements

wayRows    == <<pay, status, stage, commission>>
effects    == <<hooked, mailed>>
wayHistory == <<shipped, overwritten, byHand, interrupted>>
wayVars    == <<pay, status, stage, commission, hooked, mailed, job, jobs, cuts,
             shipped, overwritten, byHand, interrupted>>

RankIn(seq, x) == CHOOSE r \in DOMAIN seq : seq[r] = x
OrderRank(st)  == RankIn(Progress, st)
StageRank(fs)  == RankIn(StageSeq, fs) - 1

\* What an order status means for the earnings.
deriveCommissionStatus(st) ==
  IF st = "DELIVERED" THEN "COMPLETED"
  ELSE IF st \in Terminal THEN "FAILED" ELSE "PENDING"

\* ... and for the lines; a terminal status leaves them as they are.
deriveFulfillmentStatus(st) ==
  CASE st = "PENDING" -> "PENDING"
    [] st \in {"CONFIRMED", "PROCESSING"} -> "PROCESSING"
    [] st \in {"MANUFACTURING", "QUALITY_CHECK"} -> "MANUFACTURING"
    [] st \in {"SHIPPED", "DELIVERED"} -> st
    [] OTHER -> "none"

\* MUTANT: the order follows its fastest line.
FastestStage(items) == Max({StageRank(items[i]) : i \in Items})

\* The slowest line, and the order status it stands for ("none": still pending).
SlowestStage(items) == Min({StageRank(items[i]) : i \in Items})
CandidateFor(items) ==
  LET slowest == SlowestStage(items)
  IN IF slowest = 0 THEN "none" ELSE <<"PROCESSING", "MANUFACTURING", "SHIPPED",
                                       "DELIVERED">>[slowest]

\* pc: the next statement.  from: the status read; to: the one to write.
NoJob == [pc |-> "idle", op |-> "none", from |-> "PENDING", to |-> "PENDING"]
Jobs == [pc : {"idle", "read", "items", "write", "commission", "cascade",
               "hook", "mail"},
         op : {"none", "admin", "recompute", "paid", "refunded"},
         from : Statuses, to : Statuses]

WayTypeOK ==
  /\ pay \in {"awaiting_payment", "paid", "refunded"}
  /\ status \in Statuses
  /\ stage \in [Items -> AllStages]
  /\ commission \in {"PENDING", "COMPLETED", "FAILED"}
  /\ hooked \in BOOLEAN /\ mailed \subseteq {"SHIPPED", "DELIVERED", "CANCELLED", "REFUNDED"}
  /\ job \in [Requests -> Jobs]
  /\ jobs \in 0..MaxJobs /\ cuts \in 0..MaxCuts
  /\ shipped \in SUBSET Items /\ overwritten \in BOOLEAN
  /\ byHand \in BOOLEAN /\ interrupted \in BOOLEAN

WayInit ==
  /\ pay = "awaiting_payment"
  /\ status = "PENDING" /\ stage = [i \in Items |-> "PENDING"]
  /\ commission = "PENDING" /\ hooked = FALSE /\ mailed = {}
  /\ job = [r \in Requests |-> NoJob]
  /\ jobs = 0 /\ cuts = 0
  /\ shipped = {} /\ overwritten = FALSE /\ byHand = FALSE /\ interrupted = FALSE

-------------------------------------------------------------------------------
(* Requests.                                                                 *)

Doing(r, pc, op) == job[r].pc = pc /\ job[r].op = op
Become(r, t)  == job' = [job EXCEPT ![r] = t]
Goto(r, pc)   == Become(r, [job[r] EXCEPT !.pc = pc])
Finish(r)     == Become(r, NoJob)

Begin(r, t) ==
  /\ job[r].pc = "idle"
  /\ jobs < MaxJobs /\ jobs' = jobs + 1
  /\ Become(r, t)

\* Lines the writes below bring to SHIPPED or beyond.
Reached(items) == {i \in Items : StageRank(items[i]) >= StageRank("SHIPPED")}

\* updateStatus by a provider or creator: the lines that are theirs, whatever
\* stage they are in; nobody without a line gets past it.
AdvanceOwn(r, f, st) ==
  /\ deriveFulfillmentStatus(st) # "none"
  /\ \E i \in Items : Fulfiller[i] = f
  /\ stage' = [i \in Items |-> IF Fulfiller[i] = f THEN deriveFulfillmentStatus(st)
                               ELSE stage[i]]
  /\ shipped' = shipped \cup Reached(stage')
  /\ Begin(r, [NoJob EXCEPT !.pc = "read", !.op = "recompute"])
  /\ UNCHANGED <<pay, status, commission, effects, cuts, overwritten, byHand,
                 interrupted>>

\* updateFulfillment by the fulfiller of the line.
AdvanceLine(r, i, fs) ==
  /\ stage' = [stage EXCEPT ![i] = fs]
  /\ shipped' = shipped \cup Reached(stage')
  /\ Begin(r, [NoJob EXCEPT !.pc = "read", !.op = "recompute"])
  /\ UNCHANGED <<pay, status, commission, effects, cuts, overwritten, byHand,
                 interrupted>>

\* updateStatus by an administrator: the order is read, for the mail.
AdminSetsStatus(r, st) ==
  /\ Begin(r, [pc |-> "write", op |-> "admin", from |-> status, to |-> st])
  /\ UNCHANGED <<wayRows, effects, cuts, wayHistory>>

\* markOrderPaid: an order that is not paid is read; a pending one is confirmed.
Confirm(r) ==
  /\ pay # "paid"
  /\ Begin(r, [pc |-> "write", op |-> "paid", from |-> status,
               to |-> IF status = "PENDING" THEN "CONFIRMED" ELSE status])
  /\ UNCHANGED <<wayRows, effects, cuts, wayHistory>>

\* markOrderRefunded, of an order that was paid.
Refund(r) ==
  /\ pay = "paid"
  /\ Begin(r, [pc |-> "write", op |-> "refunded", from |-> status, to |-> "REFUNDED"])
  /\ UNCHANGED <<wayRows, effects, cuts, wayHistory>>

-------------------------------------------------------------------------------
(* recomputeOrderStatusFromItems.                                            *)

ReadOrder(r) ==
  /\ Doing(r, "read", "recompute")
  /\ IF status \in Terminal THEN Finish(r)
     ELSE Become(r, [job[r] EXCEPT !.pc = "items", !.from = status])
  /\ UNCHANGED <<wayRows, effects, jobs, cuts, wayHistory>>

\* Advance only, against the status read before the lines.
ReadItems(r) ==
  /\ Doing(r, "items", "recompute")
  /\ LET to == CandidateFor(stage)
     IN IF to = "none" \/ OrderRank(IF to = "none" THEN "PENDING" ELSE to)
                          <= OrderRank(job[r].from)
        THEN Finish(r)
        ELSE Become(r, [job[r] EXCEPT !.pc = "write", !.to = to])
  /\ UNCHANGED <<wayRows, effects, jobs, cuts, wayHistory>>

-------------------------------------------------------------------------------
(* The writes.                                                               *)

\* Another request has written the status and not yet what follows from it.
Pending(r) == \E q \in Requests \ {r} : job[q].pc \in {"commission", "cascade"}

\* The payment status a request flips, once.
Flipped(r) == IF job[r].op \in {"paid", "refunded"} THEN job[r].op ELSE pay

\* The status is written whatever it is by now; a payment or a refund is given
\* up when another request has flipped the payment already.
WriteStatus(r) ==
  /\ job[r].pc = "write"
  /\ IF job[r].op \in {"paid", "refunded"} /\ pay = job[r].op
     THEN Finish(r) /\ UNCHANGED <<pay, status, overwritten, byHand, shipped>>
     ELSE /\ pay' = Flipped(r) /\ status' = job[r].to
          /\ overwritten' = (overwritten \/ Pending(r) \/ status # job[r].from)
          /\ byHand' = (job[r].op = "admin" \/ (byHand /\ status' = status))
          /\ shipped' = IF job[r].op = "admin" /\ job[r].to \in {"SHIPPED", "DELIVERED"}
                        THEN Items ELSE shipped
          /\ IF job[r].op = "paid" THEN Finish(r) ELSE Goto(r, "commission")
  /\ UNCHANGED <<stage, commission, effects, jobs, cuts, interrupted>>

WriteCommission(r) ==
  /\ job[r].pc = "commission"
  /\ commission' = deriveCommissionStatus(job[r].to)
  /\ Goto(r, IF job[r].op = "admin" THEN "cascade" ELSE "hook")
  /\ UNCHANGED <<pay, status, stage, effects, jobs, cuts, wayHistory>>

\* The administrator's status on all lines, unless it is a terminal one.
Cascade(r) ==
  /\ Doing(r, "cascade", "admin")
  /\ LET to == deriveFulfillmentStatus(job[r].to)
     IN stage' = IF to = "none" THEN stage ELSE [i \in Items |-> to]
  /\ shipped' = shipped \cup Reached(stage')
  /\ Goto(r, "hook")
  /\ UNCHANGED <<pay, status, commission, effects, jobs, cuts, overwritten, byHand,
                 interrupted>>

\* The shipped hooks, when the status was not SHIPPED before.
RunHooks(r) ==
  /\ job[r].pc = "hook"
  /\ hooked' = \/ hooked
               \/ (job[r].to = "SHIPPED" /\ job[r].from # "SHIPPED")
  /\ Goto(r, "mail")
  /\ UNCHANGED <<wayRows, mailed, jobs, cuts, wayHistory>>

\* The mail about a status that changed.
SendMail(r) ==
  /\ job[r].pc = "mail"
  /\ mailed' = IF job[r].from = job[r].to THEN mailed
               ELSE mailed \cup ({job[r].to} \cap
                                 {"SHIPPED", "DELIVERED", "CANCELLED", "REFUNDED"})
  /\ Finish(r)
  /\ UNCHANGED <<wayRows, hooked, jobs, cuts, wayHistory>>

\* The process dies, or a statement throws.
CutShort(r) ==
  /\ job[r].pc # "idle"
  /\ cuts < MaxCuts /\ cuts' = cuts + 1
  /\ interrupted' = TRUE
  /\ Finish(r)
  /\ UNCHANGED <<wayRows, effects, jobs, shipped, overwritten, byHand>>

-------------------------------------------------------------------------------
Receive(r) ==
  \/ \E f \in {Fulfiller[i] : i \in Items}, st \in FulfillerSets : AdvanceOwn(r, f, st)
  \/ \E i \in Items, fs \in Stages : AdvanceLine(r, i, fs)
  \/ \E st \in AdminSets : AdminSetsStatus(r, st)
  \/ Confirm(r) \/ Refund(r)

Proceed(r) ==
  \/ ReadOrder(r) \/ ReadItems(r) \/ WriteStatus(r) \/ WriteCommission(r)
  \/ Cascade(r) \/ RunHooks(r) \/ SendMail(r)

WayNext == \E r \in Requests : Receive(r) \/ Proceed(r) \/ CutShort(r)

WaySpec == WayInit /\ [][WayNext]_wayVars

-------------------------------------------------------------------------------
(* Properties.                                                               *)

Quiet == \A r \in Requests : job[r].pc = "idle"

\* The status of the order is never ahead of what was done: it is shipped, its
\* authorization captured and its customer told so, only once every line was
\* shipped or an administrator said so, however the fulfillers interleave.
ShippedWhenAllShipped ==
  /\ status \in {"SHIPPED", "DELIVERED"} => shipped = Items
  /\ hooked \/ mailed \cap {"SHIPPED", "DELIVERED"} # {} => shipped = Items

\* Whenever no request is in flight the order has caught up: it is at least as
\* far as its slowest line, the commission is that of its status, and a shipped
\* order has had its hooks run and its mail sent, unless a status was written
\* over one written since it was read, or a request was cut short.  CONFIRMED set
\* by an administrator puts the lines one stage ahead, to PROCESSING.
Behind == /\ status \notin Terminal /\ CandidateFor(stage) # "none"
          /\ OrderRank(status) < OrderRank(CandidateFor(stage))
Ahead  == byHand /\ status = "CONFIRMED" /\ CandidateFor(stage) = "PROCESSING"
CaughtUp ==
  Quiet /\ ~overwritten /\ ~interrupted =>
    /\ commission = deriveCommissionStatus(status)
    /\ Behind => Ahead
    /\ status = "SHIPPED" => hooked /\ "SHIPPED" \in mailed

OrderFollowsLines == ShippedWhenAllShipped /\ CaughtUp
===============================================================================
