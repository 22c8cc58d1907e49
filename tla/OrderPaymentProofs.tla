-------------------------- MODULE OrderPaymentProofs ---------------------------
(***************************************************************************)
(* Proofs about OrderPayment, for any set of lines, any number of requests *)
(* in flight and any bounds.                                               *)
(***************************************************************************)
EXTENDS OrderPayment, FiniteSetTheorems, TLAPS

-------------------------------------------------------------------------------
(* Typing.                                                                   *)

\* Every record a request passes through is a task.
LEMMA TaskTyping ==
  /\ Idle \in Tasks
  /\ \A op \in Kinds : Call(op) \in Tasks
  /\ \A st \in OrderStatus :
       [Idle EXCEPT !.pc = "flip", !.op = "admin", !.status = st] \in Tasks
BY DEF Idle, Tasks, Call, Kinds, PaymentStatus, OrderStatus

LEMMA CommissionTyping ==
  ASSUME NEW st \in OrderStatus
  PROVE  deriveCommissionStatus(st) \in {"PENDING", "COMPLETED", "FAILED"}
BY DEF deriveCommissionStatus

LEMMA MovingTyping ==
  ASSUME TypeOK, NEW k \in Handlers
  PROVE  Moving(k) \in Tasks
BY TaskTyping, ZenonT(40) DEF TypeOK, Moving, Tasks

LEMMA ThenCommissionTyping ==
  ASSUME TypeOK, NEW k \in Handlers, NEW st \in OrderStatus
  PROVE  ThenCommission(k, st) \in Tasks
BY DEF TypeOK, ThenCommission, Tasks

LEMMA RemainingTyping ==
  ASSUME TypeOK, NEW k \in Handlers, NEW i \in Items
  PROVE  [task[k] EXCEPT !.todo = task[k].todo \ {i}] \in Tasks
BY DEF TypeOK, Tasks

\* A request that starts, and one that counts against the bound.
LEMMA BeginTyping ==
  ASSUME TypeOK, NEW k \in Handlers, NEW t \in Tasks, Begin(k, t),
         starts' \in 0..MaxStarts
  PROVE  TypeOK'
BY DEF Begin, TypeOK, row, history

LEMMA CountedTyping ==
  ASSUME TypeOK, Counted
  PROVE  starts' \in 0..MaxStarts
BY BoundsNat DEF TypeOK, Counted

LEMMA CutTyping ==
  ASSUME TypeOK, Cut
  PROVE  interrupts' \in 0..MaxInterrupts
BY BoundsNat DEF TypeOK, Cut

LEMMA LineDoneTyping ==
  ASSUME TypeOK, NEW k \in Handlers, NEW i \in Items, LineDone(k, i)
  PROVE  task' \in [Handlers -> Tasks]
BY TaskTyping, RemainingTyping DEF LineDone, TypeOK

\* Every step keeps the variables well typed.
THEOREM TypeStep == TypeOK /\ [Next]_vars => TypeOK'
<1> SUFFICES ASSUME TypeOK, [Next]_vars PROVE TypeOK'
  OBVIOUS
<1>1. CASE Provider
  BY <1>1 DEF Provider, PspDecline, PspCharge, PspRefund, PspRelease, PspCancel,
              PspStep, TypeOK, row, history, Kinds
<1>2. ASSUME NEW k \in Handlers, Receive(k) PROVE TypeOK'
  <2>1. CASE ReceivePaid(k)
    <3>1. starts' \in 0..MaxStarts
      BY <2>1 DEF ReceivePaid, TypeOK
    <3> QED BY <2>1, <3>1, TaskTyping, BeginTyping DEF ReceivePaid, Kinds
  <2>2. ASSUME NEW op \in Kinds, Counted, Begin(k, Call(op)) PROVE TypeOK'
    BY <2>2, CountedTyping, TaskTyping, BeginTyping
  <2>3. CASE AdminUpdateStatus(k)
    BY <2>3, CountedTyping, TaskTyping, BeginTyping, AdminStatusesOK
    DEF AdminUpdateStatus
  <2> QED
    BY <1>2, <2>1, <2>2, <2>3
    DEF Receive, ReceiveFailed, Sweep, ReceiveReleased, ReceiveRefunded, Kinds
<1>3. ASSUME NEW k \in Handlers, Proceed(k) PROVE TypeOK'
  <2>1. ASSUME NEW op, NEW refuses, ReadRow(k, op, refuses) PROVE TypeOK'
    <3>1. task' \in [Handlers -> Tasks]
      BY <2>1, TaskTyping, ZenonT(40) DEF ReadRow, TypeOK, Tasks
    <3> QED BY <2>1, <3>1 DEF ReadRow, TypeOK, row, history
  <2>2. CASE PaidFlip(k)
    <3>1. task' \in [Handlers -> Tasks]
      BY <2>2, TaskTyping, MovingTyping DEF PaidFlip, Flips, Lost, TypeOK
    <3>2. pay' \in PaymentStatus /\ status' \in OrderStatus
      BY <2>2 DEF PaidFlip, Flips, Lost, Forward, TypeOK, Tasks, PaymentStatus,
                  OrderStatus, row
    <3>3. raced' \in BOOLEAN /\ crossed' \in BOOLEAN
      BY <2>2 DEF PaidFlip, Flips, Lost, TypeOK
    <3> QED BY <2>2, <3>1, <3>2, <3>3 DEF PaidFlip, Frame, TypeOK
  <2>3. CASE FailedFlip(k)
    <3>1. task' \in [Handlers -> Tasks]
      BY <2>3, TaskTyping, MovingTyping DEF FailedFlip, Flips, Lost, TypeOK
    <3>2. pay' \in PaymentStatus /\ status' \in OrderStatus
      BY <2>3 DEF FailedFlip, Flips, Lost, TypeOK, PaymentStatus, row
    <3>3. raced' \in BOOLEAN /\ crossed' \in BOOLEAN
      BY <2>3 DEF FailedFlip, Flips, Lost, TypeOK
    <3> QED BY <2>3, <3>1, <3>2, <3>3 DEF FailedFlip, Frame, TypeOK
  <2>4. CASE ReleasedFlip(k)
    <3>1. task' \in [Handlers -> Tasks]
      BY <2>4, TaskTyping, ThenCommissionTyping
      DEF ReleasedFlip, Flips, Lost, TypeOK, OrderStatus
    <3>2. pay' \in PaymentStatus /\ status' \in OrderStatus
      BY <2>4 DEF ReleasedFlip, Flips, Lost, TypeOK, PaymentStatus, OrderStatus, row
    <3>3. raced' \in BOOLEAN /\ crossed' \in BOOLEAN
      BY <2>4 DEF ReleasedFlip, Flips, Lost, TypeOK
    <3> QED BY <2>4, <3>1, <3>2, <3>3 DEF ReleasedFlip, Frame, TypeOK
  <2>5. CASE RefundedFlip(k)
    <3>1. task' \in [Handlers -> Tasks]
      BY <2>5, TaskTyping, ThenCommissionTyping
      DEF RefundedFlip, Flips, Lost, TypeOK, OrderStatus
    <3>2. pay' \in PaymentStatus /\ status' \in OrderStatus
      BY <2>5 DEF RefundedFlip, Flips, Lost, TypeOK, PaymentStatus, OrderStatus, row
    <3>3. raced' \in BOOLEAN /\ crossed' \in BOOLEAN
      BY <2>5 DEF RefundedFlip, Flips, Lost, TypeOK
    <3> QED BY <2>5, <3>1, <3>2, <3>3 DEF RefundedFlip, Frame, TypeOK
  <2>6. CASE AdminWrite(k)
    <3>1. task' \in [Handlers -> Tasks] /\ status' \in OrderStatus
      BY <2>6, ZenonT(40) DEF AdminWrite, ThenCommission, TypeOK, Tasks
    <3>2. crossed' \in BOOLEAN
      BY <2>6 DEF AdminWrite, TypeOK
    <3> QED BY <2>6, <3>1, <3>2 DEF AdminWrite, Frame, TypeOK
  <2>7. CASE WriteCommission(k)
    <3>1. task' \in [Handlers -> Tasks]
      BY <2>7, TaskTyping, MovingTyping DEF WriteCommission, TypeOK
    <3>2. commission' \in {"PENDING", "COMPLETED", "FAILED"}
      BY <2>7, CommissionTyping DEF WriteCommission, TypeOK, Tasks
    <3> QED BY <2>7, <3>1, <3>2 DEF WriteCommission, TypeOK, row, history
  <2>8. ASSUME NEW i \in Items, MoveStock(k, i) PROVE TypeOK'
    <3>1. task' \in [Handlers -> Tasks]
      BY <2>8, LineDoneTyping DEF MoveStock
    <3>2. taken' \in [Items -> Int]
      BY <2>8 DEF MoveStock, TypeOK
    <3> QED BY <2>8, <3>1, <3>2 DEF MoveStock, TypeOK, row, history
  <2>9. CASE PaidRead(k) \/ FailedRead(k) \/ ReleasedRead(k) \/ RefundedRead(k)
    BY <2>1, <2>9 DEF PaidRead, FailedRead, ReleasedRead, RefundedRead
  <2> QED
    BY <1>3, <2>2, <2>3, <2>4, <2>5, <2>6, <2>7, <2>8, <2>9 DEF Proceed
<1>4. ASSUME NEW k \in Handlers, Fail(k) PROVE TypeOK'
  <2>1. CASE Interrupt(k)
    <3>1. task' \in [Handlers -> Tasks] /\ interrupted' \in BOOLEAN
      BY <2>1, TaskTyping DEF Interrupt, TypeOK
    <3> QED BY <2>1, <3>1, CutTyping DEF Interrupt, TypeOK, row
  <2>2. ASSUME NEW i \in Items, LineFails(k, i) PROVE TypeOK'
    BY <2>2, LineDoneTyping, CutTyping DEF LineFails, TypeOK, row
  <2> QED BY <1>4, <2>1, <2>2 DEF Fail
<1>5. CASE UNCHANGED vars
  BY <1>5 DEF vars, TypeOK
<1> QED BY <1>1, <1>2, <1>3, <1>4, <1>5 DEF Next

LEMMA TypeInit == Init => TypeOK
<1> SUFFICES ASSUME Init PROVE TypeOK
  OBVIOUS
<1>1. task \in [Handlers -> Tasks]
  BY TaskTyping DEF Init
<1>2. taken \in [Items -> Int] /\ starts \in 0..MaxStarts /\ interrupts \in 0..MaxInterrupts
  BY BoundsNat DEF Init
<1> QED BY <1>1, <1>2 DEF Init, TypeOK, OrderStatus, PaymentStatus

\* Type correctness holds in every reachable state.
THEOREM Typing == Spec => []TypeOK
<1>1. Init => TypeOK
  BY TypeInit
<1>2. TypeOK /\ [Next]_vars => TypeOK'
  BY TypeStep
<1> QED BY <1>1, <1>2, PTL DEF Spec

-------------------------------------------------------------------------------
(* What a request in flight still owes to line i of the stock, and how the   *)
(* settled stock changes when one request takes a step.                      *)

Owes(t, i) ==
  (IF i \in t.todo /\ t.op = "paid" THEN 1 ELSE 0)
  - (IF i \in t.todo /\ t.op # "paid" THEN 1 ELSE 0)
  - (IF t.pc = "commission" /\ t.op # "admin" THEN 1 ELSE 0)

\* Two finite sets that differ at most in x.
LEMMA CardinalityButOne ==
  ASSUME NEW S, NEW T, NEW x, IsFiniteSet(S), IsFiniteSet(T), S \ {x} = T \ {x}
  PROVE  /\ Cardinality(S) \in Nat /\ Cardinality(T) \in Nat
         /\ Cardinality(T) = Cardinality(S) + (IF x \in T THEN 1 ELSE 0)
                                            - (IF x \in S THEN 1 ELSE 0)
<1>1. Cardinality(S) \in Nat /\ Cardinality(T) \in Nat
  BY FS_CardinalityType
<1>2. Cardinality(S \ {x}) = IF x \in S THEN Cardinality(S) - 1 ELSE Cardinality(S)
  BY FS_RemoveElement
<1>3. Cardinality(T \ {x}) = IF x \in T THEN Cardinality(T) - 1 ELSE Cardinality(T)
  BY FS_RemoveElement
<1> QED BY <1>1, <1>2, <1>3

LEMMA FlightFinite ==
  ASSUME NEW i
  PROVE  /\ IsFiniteSet(Taking(i)) /\ IsFiniteSet(Restoring(i)) /\ IsFiniteSet(WillRestore)
         /\ IsFiniteSet(Taking(i)') /\ IsFiniteSet(Restoring(i)') /\ IsFiniteSet(WillRestore')
BY HandlersFinite, FS_Subset DEF Taking, Restoring, WillRestore

LEMMA SettledStep ==
  ASSUME TypeOK, TypeOK', NEW k \in Handlers, NEW t \in Tasks, NEW i \in Items,
         task' = [task EXCEPT ![k] = t]
  PROVE  /\ Settled(i) \in Int
         /\ Settled(i)' = Settled(i) + (taken'[i] - taken[i])
                          + (Owes(t, i) - Owes(task[k], i))
<1>1. /\ Taking(i) \ {k} = Taking(i)' \ {k}
      /\ Restoring(i) \ {k} = Restoring(i)' \ {k}
      /\ WillRestore \ {k} = WillRestore' \ {k}
  BY DEF TypeOK, Taking, Restoring, WillRestore
<1>2. /\ k \in Taking(i) <=> (i \in task[k].todo /\ task[k].op = "paid")
      /\ k \in Taking(i)' <=> (i \in t.todo /\ t.op = "paid")
      /\ k \in Restoring(i) <=> (i \in task[k].todo /\ task[k].op # "paid")
      /\ k \in Restoring(i)' <=> (i \in t.todo /\ t.op # "paid")
      /\ k \in WillRestore <=> (task[k].pc = "commission" /\ task[k].op # "admin")
      /\ k \in WillRestore' <=> (t.pc = "commission" /\ t.op # "admin")
  BY DEF TypeOK, Taking, Restoring, WillRestore
<1>3. /\ Cardinality(Taking(i)) \in Nat
      /\ Cardinality(Taking(i)') = Cardinality(Taking(i))
            + (IF k \in Taking(i)' THEN 1 ELSE 0) - (IF k \in Taking(i) THEN 1 ELSE 0)
  BY <1>1, FlightFinite, CardinalityButOne
<1>4. /\ Cardinality(Restoring(i)) \in Nat
      /\ Cardinality(Restoring(i)') = Cardinality(Restoring(i))
            + (IF k \in Restoring(i)' THEN 1 ELSE 0) - (IF k \in Restoring(i) THEN 1 ELSE 0)
  BY <1>1, FlightFinite, CardinalityButOne
<1>5. /\ Cardinality(WillRestore) \in Nat
      /\ Cardinality(WillRestore') = Cardinality(WillRestore)
            + (IF k \in WillRestore' THEN 1 ELSE 0) - (IF k \in WillRestore THEN 1 ELSE 0)
  BY <1>1, FlightFinite, CardinalityButOne
<1>6. taken[i] \in Int /\ taken'[i] \in Int
  BY DEF TypeOK
<1> QED BY <1>2, <1>3, <1>4, <1>5, <1>6 DEF Settled, Owes

LEMMA SettledSame ==
  ASSUME NEW i \in Items, UNCHANGED <<task, taken>>
  PROVE  Settled(i)' = Settled(i)
BY DEF Settled, Taking, Restoring, WillRestore

-------------------------------------------------------------------------------
(* The inductive invariant.                                                  *)

\* Only a stock loop has lines left; only write-offs, refunds and admins write
\* the commission.
TaskShape ==
  \A k \in Handlers :
    /\ task[k].pc # "stock" => task[k].todo = {}
    /\ task[k].pc = "commission" => task[k].op \in {"released", "refunded", "admin"}

\* A confirmation that read a written-off order cannot find it unpaid again.
SeenFailed ==
  \A k \in Handlers :
    task[k].pc = "flip" /\ task[k].op = "paid" /\ task[k].pay = "failed"
      => pay # "awaiting_payment"

\* Write-offs by release and refunds run only after the money is gone.
Caused ==
  \A k \in Handlers :
    /\ task[k].op = "released" => psp = "released"
    /\ task[k].op = "refunded" => psp \in {"refunded", "released"}

StockBounded == ~interrupted => \A i \in Items : Settled(i) <= Held(pay)

\* At most one commission write is outstanding, and it is the current status's.
CommissionOwed ==
  ~crossed /\ ~interrupted =>
    /\ \A j, k \in Handlers :
         task[j].pc = "commission" /\ task[k].pc = "commission" => j = k
    /\ \A k \in Handlers : task[k].pc = "commission" =>
         deriveCommissionStatus(task[k].status) = deriveCommissionStatus(status)
    /\ (\A k \in Handlers : task[k].pc # "commission") =>
         commission = deriveCommissionStatus(status)

Inv == /\ TypeOK /\ TaskShape /\ SeenFailed /\ Caused
       /\ StockBounded /\ StockFollowsPayment /\ CommissionOwed

-------------------------------------------------------------------------------
(* The actions, seen as "request k moves on to task t".                      *)

\* A step that changes neither the payment status nor what is owed.
Quiet(k, t) ==
  /\ task' = [task EXCEPT ![k] = t]
  /\ pay' = pay /\ (raced' <=> raced)
  /\ interrupted \/ \A i \in Items : taken'[i] - taken[i] = Owes(task[k], i) - Owes(t, i)
  /\ interrupted => interrupted'

LEMMA QuietStock ==
  ASSUME TypeOK, TypeOK', StockBounded, StockFollowsPayment,
         NEW k \in Handlers, NEW t \in Tasks, Quiet(k, t)
  PROVE  StockBounded' /\ StockFollowsPayment'
<1>1. ASSUME ~interrupted', NEW i \in Items PROVE Settled(i)' = Settled(i)
  <2>1. /\ taken'[i] \in Int /\ taken[i] \in Int
        /\ taken'[i] - taken[i] = Owes(task[k], i) - Owes(t, i)
    BY <1>1 DEF Quiet, TypeOK
  <2>2. /\ Settled(i) \in Int
        /\ Settled(i)' = Settled(i) + (taken'[i] - taken[i])
                         + (Owes(t, i) - Owes(task[k], i))
    BY SettledStep DEF Quiet
  <2>3. Owes(t, i) \in Int /\ Owes(task[k], i) \in Int
    BY DEF Owes
  <2> QED BY <2>1, <2>2, <2>3
<1> QED BY <1>1 DEF Quiet, StockBounded, StockFollowsPayment

\* A flip: the payment status changes and request k owes d more units per line.
FlipBy(k, t, d) ==
  /\ task' = [task EXCEPT ![k] = t]
  /\ taken' = taken /\ (interrupted' <=> interrupted)
  /\ \A i \in Items : Owes(task[k], i) = 0 /\ Owes(t, i) = d

LEMMA FlipSettled ==
  ASSUME TypeOK, TypeOK', NEW k \in Handlers, NEW t \in Tasks, NEW d \in Int,
         FlipBy(k, t, d), NEW i \in Items
  PROVE  Settled(i) \in Int /\ Settled(i)' = Settled(i) + d
<1>1. taken'[i] - taken[i] = 0
  BY DEF FlipBy, TypeOK
<1>2. /\ Settled(i) \in Int
      /\ Settled(i)' = Settled(i) + (taken'[i] - taken[i])
                       + (Owes(t, i) - Owes(task[k], i))
  BY SettledStep DEF FlipBy
<1>3. Owes(task[k], i) = 0 /\ Owes(t, i) = d
  BY DEF FlipBy
<1> QED BY <1>1, <1>2, <1>3

LEMMA OwesNothing ==
  ASSUME NEW t, NEW i, t.todo = {}, t.pc # "commission"
  PROVE  Owes(t, i) = 0
BY DEF Owes

\* What a request owes in each of its stages.
LEMMA OwesStages ==
  ASSUME TypeOK, TaskShape, NEW k \in Handlers, NEW i \in Items
  PROVE  /\ task[k].pc \in {"idle", "read", "flip"} => Owes(task[k], i) = 0
         /\ Owes(Idle, i) = 0
         /\ task[k].op = "paid" => Owes(Moving(k), i) = 1
         /\ task[k].op # "paid" => Owes(Moving(k), i) = -1
         /\ task[k].pc = "commission" =>
              Owes(task[k], i) = (IF task[k].op = "admin" THEN 0 ELSE -1)
         /\ \A st \in OrderStatus :
              task[k].pc = "flip" => Owes(ThenCommission(k, st), i) =
                                       (IF task[k].op = "admin" THEN 0 ELSE -1)
<1>1. task[k] \in Tasks
  BY DEF TypeOK
<1>2. task[k].pc \in {"idle", "read", "flip"} => Owes(task[k], i) = 0
  BY DEF TaskShape, Owes
<1>3. Owes(Idle, i) = 0
  BY DEF Owes, Idle
<1>4. /\ Moving(k).todo = Items /\ Moving(k).pc = "stock" /\ Moving(k).op = task[k].op
  BY <1>1 DEF Moving, Tasks
<1>5. /\ task[k].op = "paid" => Owes(Moving(k), i) = 1
      /\ task[k].op # "paid" => Owes(Moving(k), i) = -1
  BY <1>4 DEF Owes
<1>6. task[k].pc = "commission" =>
        Owes(task[k], i) = (IF task[k].op = "admin" THEN 0 ELSE -1)
  BY DEF TaskShape, Owes
<1>7. ASSUME NEW st \in OrderStatus, task[k].pc = "flip"
      PROVE  Owes(ThenCommission(k, st), i) = (IF task[k].op = "admin" THEN 0 ELSE -1)
  <2>1. /\ ThenCommission(k, st).todo = {} /\ ThenCommission(k, st).pc = "commission"
        /\ ThenCommission(k, st).op = task[k].op
    BY <1>1, <1>7 DEF ThenCommission, Tasks, TaskShape
  <2> QED BY <2>1 DEF Owes
<1> QED BY <1>2, <1>3, <1>5, <1>6, <1>7

-------------------------------------------------------------------------------
(* Each action keeps the stock parts of the invariant.                       *)

LEMMA StockQuietActions ==
  ASSUME Inv, TypeOK', NEW k \in Handlers,
         \/ Receive(k)
         \/ PaidRead(k) \/ FailedRead(k) \/ ReleasedRead(k) \/ RefundedRead(k)
         \/ AdminWrite(k) \/ WriteCommission(k)
         \/ \E i \in Items : MoveStock(k, i)
         \/ Fail(k)
  PROVE  StockBounded' /\ StockFollowsPayment'
<1> USE DEF Inv
<1>0. ASSUME NEW t, Begin(k, t), t \in Tasks, \A i \in Items : Owes(t, i) = 0
      PROVE  Quiet(k, t)
  BY <1>0, OwesStages DEF Begin, Quiet, TypeOK, row, history
<1>1. CASE Receive(k)
  <2>1. \E t \in Tasks : Begin(k, t) /\ \A i \in Items : Owes(t, i) = 0
    <3>1. \A op \in Kinds : Call(op) \in Tasks /\ \A i \in Items : Owes(Call(op), i) = 0
      <4>1. \A op \in Kinds : Call(op).todo = {} /\ Call(op).pc = "read"
        BY DEF Call, Idle
      <4> QED BY <4>1, TaskTyping, OwesNothing
    <3>2. ASSUME NEW st \in OrderStatus
          PROVE  LET t == [Idle EXCEPT !.pc = "flip", !.op = "admin", !.status = st]
                 IN  t \in Tasks /\ \A i \in Items : Owes(t, i) = 0
      <4> DEFINE t == [Idle EXCEPT !.pc = "flip", !.op = "admin", !.status = st]
      <4>1. t.todo = {} /\ t.pc = "flip"
        BY DEF Idle
      <4> QED BY <4>1, TaskTyping, OwesNothing
    <3>3. CASE AdminUpdateStatus(k)
      BY <3>2, <3>3, AdminStatusesOK DEF AdminUpdateStatus
    <3> QED BY <1>1, <3>1, <3>3
            DEF Receive, ReceivePaid, ReceiveFailed, Sweep, ReceiveReleased,
                ReceiveRefunded, Kinds
  <2> QED BY <1>0, <2>1, QuietStock
<1>2. ASSUME NEW op, NEW refuses, ReadRow(k, op, refuses)
      PROVE  StockBounded' /\ StockFollowsPayment'
  <2> DEFINE r == [task[k] EXCEPT !.pc = "flip", !.pay = pay, !.status = status]
             t == IF refuses THEN Idle ELSE r
  <2>1. r \in Tasks /\ r.todo = {} /\ r.pc = "flip"
    <3>1. task[k] \in Tasks /\ task[k].todo = {}
      BY <1>2 DEF ReadRow, TypeOK, TaskShape
    <3>2. pay \in PaymentStatus /\ status \in OrderStatus
      BY DEF TypeOK
    <3> QED BY <3>1, <3>2 DEF Tasks
  <2>2. t \in Tasks
    BY <2>1, TaskTyping
  <2>3. \A i \in Items : Owes(task[k], i) = 0 /\ Owes(t, i) = 0
    BY <1>2, <2>1, OwesStages DEF ReadRow, Owes
  <2>4. Quiet(k, t)
    BY <1>2, <2>3 DEF ReadRow, Quiet, TypeOK, row, history
  <2> QED BY <2>2, <2>4, QuietStock
<1>3. CASE AdminWrite(k)
  <2> DEFINE t == ThenCommission(k, task[k].status)
  <2>1. task[k].status \in OrderStatus
    BY DEF TypeOK, Tasks
  <2>2. t \in Tasks
    BY <2>1, ThenCommissionTyping
  <2>3. \A i \in Items : Owes(task[k], i) = 0 /\ Owes(t, i) = 0
    BY <1>3, <2>1, OwesStages DEF AdminWrite
  <2>4. Quiet(k, t)
    BY <1>3, <2>3 DEF AdminWrite, Frame, Quiet, TypeOK
  <2> QED BY <2>2, <2>4, QuietStock
<1>4. CASE WriteCommission(k)
  <2> DEFINE t == IF task[k].op = "admin" THEN Idle ELSE Moving(k)
  <2>1. t \in Tasks
    BY TaskTyping, MovingTyping
  <2>2. \A i \in Items : Owes(task[k], i) = Owes(t, i) /\ Owes(t, i) \in Int
    BY <1>4, OwesStages DEF WriteCommission, TaskShape
  <2>3. Quiet(k, t)
    BY <1>4, <2>2 DEF WriteCommission, Quiet, TypeOK, row, history
  <2> QED BY <2>1, <2>3, QuietStock
<1>5. ASSUME NEW i \in Items, MoveStock(k, i)
      PROVE  StockBounded' /\ StockFollowsPayment'
  <2> DEFINE t == IF task[k].todo = {i} THEN Idle
                  ELSE [task[k] EXCEPT !.todo = task[k].todo \ {i}]
  <2>1. t \in Tasks
    BY TaskTyping, RemainingTyping
  <2>2. /\ task[k] \in Tasks /\ task[k].pc = "stock" /\ i \in task[k].todo
        /\ task' = [task EXCEPT ![k] = t]
    BY <1>5 DEF MoveStock, LineDone, TypeOK
  <2>3. ASSUME NEW j \in Items
        PROVE  taken'[j] - taken[j] = Owes(task[k], j) - Owes(t, j)
    <3>1. Owes(t, j) = IF j = i THEN 0 ELSE Owes(task[k], j)
      <4>1. CASE task[k].todo = {i}
        BY <2>2, <4>1 DEF Owes, Idle
      <4>2. CASE task[k].todo # {i}
        <5>1. /\ t.todo = task[k].todo \ {i} /\ t.pc = "stock" /\ t.op = task[k].op
          BY <2>2, <4>2 DEF Tasks
        <5> QED BY <2>2, <5>1 DEF Owes
      <4> QED BY <4>1, <4>2
    <3>2. Owes(task[k], i) = IF task[k].op = "paid" THEN 1 ELSE -1
      BY <2>2 DEF Owes
    <3>3. taken'[j] = IF j = i THEN taken[j] + (IF task[k].op = "paid" THEN 1 ELSE -1)
                      ELSE taken[j]
      BY <1>5 DEF MoveStock, TypeOK
    <3>4. taken[j] \in Int /\ Owes(task[k], j) \in Int
      BY DEF TypeOK, Owes
    <3> QED BY <3>1, <3>2, <3>3, <3>4
  <2>4. Quiet(k, t)
    BY <1>5, <2>2, <2>3 DEF MoveStock, Quiet, row, history
  <2> QED BY <2>1, <2>4, QuietStock
<1>6. CASE Fail(k)
  <2>1. CASE Interrupt(k)
    <3>1. CASE task[k].pc \in {"commission", "stock"}
      BY <2>1, <3>1 DEF Interrupt, StockBounded, StockFollowsPayment
    <3>2. CASE task[k].pc \notin {"commission", "stock"}
      <4>1. \A i \in Items : Owes(task[k], i) = 0 /\ Owes(Idle, i) = 0
        BY <3>2, OwesStages DEF TypeOK, Tasks
      <4>2. Quiet(k, Idle)
        BY <2>1, <4>1 DEF Interrupt, Quiet, TypeOK, row
      <4> QED BY <4>2, TaskTyping, QuietStock
    <3> QED BY <3>1, <3>2
  <2>2. ASSUME NEW i \in Items, LineFails(k, i)
        PROVE  StockBounded' /\ StockFollowsPayment'
    BY <2>2 DEF LineFails, StockBounded, StockFollowsPayment
  <2> QED BY <1>6, <2>1, <2>2 DEF Fail
<1>7. CASE PaidRead(k) \/ FailedRead(k) \/ ReleasedRead(k) \/ RefundedRead(k)
  BY <1>2, <1>7 DEF PaidRead, FailedRead, ReleasedRead, RefundedRead
<1> QED BY <1>1, <1>3, <1>4, <1>5, <1>6, <1>7

\* A flip that lost its race is quiet.
LEMMA LostQuiet ==
  ASSUME Inv, NEW k \in Handlers, task[k].pc = "flip", Lost(k), Frame
  PROVE  Quiet(k, Idle)
<1>1. \A i \in Items : Owes(task[k], i) = 0 /\ Owes(Idle, i) = 0
  BY OwesStages DEF Inv
<1>2. \A i \in Items : taken'[i] - taken[i] = 0
  BY DEF Frame, Inv, TypeOK
<1> QED BY <1>1, <1>2 DEF Lost, Frame, Quiet, row

LEMMA StockFlips ==
  ASSUME Inv, TypeOK', NEW k \in Handlers,
         PaidFlip(k) \/ FailedFlip(k) \/ ReleasedFlip(k) \/ RefundedFlip(k)
  PROVE  StockBounded' /\ StockFollowsPayment'
<1> USE DEF Inv
<1>1. ASSUME task[k].pc = "flip", Lost(k), Frame
      PROVE  StockBounded' /\ StockFollowsPayment'
  BY <1>1, LostQuiet, TaskTyping, QuietStock
<1>2. pay \in PaymentStatus
  BY DEF TypeOK
<1>3. CASE PaidFlip(k) /\ pay # "paid"
  <2> DEFINE t == IF task[k].pay = "failed" THEN Moving(k) ELSE Idle
             d == IF task[k].pay = "failed" THEN 1 ELSE 0
  <2>1. t \in Tasks /\ d \in Int
    <3>1. Idle \in Tasks /\ Moving(k) \in Tasks
      BY TaskTyping, MovingTyping
    <3> QED BY <3>1
  <2>2. FlipBy(k, t, d)
    BY <1>3, OwesStages DEF PaidFlip, Lost, Flips, Frame, FlipBy
  <2>3. \A i \in Items : Settled(i) \in Int /\ Settled(i)' = Settled(i) + d
    BY <2>1, <2>2, FlipSettled
  <2>4. task[k].pay = "failed" => pay # "awaiting_payment"
    BY <1>3 DEF PaidFlip, SeenFailed
  <2>5. pay' = "paid" /\ (interrupted' <=> interrupted)
        /\ (raced' <=> \/ raced \/ pay = "refunded"
                       \/ pay = "failed" /\ task[k].pay # "failed")
    BY <1>3 DEF PaidFlip, Flips, Frame
  <2>6. StockBounded'
    BY <1>2, <1>3, <2>3, <2>4, <2>5 DEF StockBounded, Held, PaymentStatus
  <2>7. StockFollowsPayment'
    BY <1>2, <1>3, <2>3, <2>4, <2>5 DEF StockFollowsPayment, Held, PaymentStatus
  <2> QED BY <2>6, <2>7
<1>4. ASSUME NEW t \in Tasks, FlipBy(k, t, -1), pay' \in {"failed", "refunded"},
             raced \/ pay \in {"failed", "refunded"} => raced'
      PROVE  StockBounded' /\ StockFollowsPayment'
  <2>1. \A i \in Items : Settled(i) \in Int /\ Settled(i)' = Settled(i) + (-1)
    BY <1>4, FlipSettled
  <2>2. interrupted' <=> interrupted
    BY <1>4 DEF FlipBy
  <2>3. StockBounded'
    BY <1>4, <2>1, <2>2 DEF StockBounded, Held
  <2>4. StockFollowsPayment'
    BY <1>2, <1>4, <2>1, <2>2 DEF StockFollowsPayment, Held, PaymentStatus
  <2> QED BY <2>3, <2>4
<1>5. CASE FailedFlip(k) /\ pay \notin {"paid", "failed"}
  <2>1. FlipBy(k, Moving(k), -1)
    BY <1>5, OwesStages DEF FailedFlip, Flips, Frame, FlipBy
  <2>2. pay' = "failed" /\ (raced' <=> raced \/ pay = "refunded")
    BY <1>5 DEF FailedFlip, Flips
  <2> QED BY <1>4, <1>5, <2>1, <2>2, MovingTyping
<1>6. CASE ReleasedFlip(k) /\ pay = "paid"
  <2>1. ThenCommission(k, "CANCELLED") \in Tasks
    BY ThenCommissionTyping DEF OrderStatus
  <2>2. FlipBy(k, ThenCommission(k, "CANCELLED"), -1)
    BY <1>6, OwesStages DEF ReleasedFlip, Flips, Frame, FlipBy, OrderStatus
  <2>3. pay' = "failed" /\ (raced' <=> raced)
    BY <1>6 DEF ReleasedFlip, Flips
  <2> QED BY <1>4, <1>6, <2>1, <2>2, <2>3
<1>7. CASE RefundedFlip(k) /\ pay # "refunded"
  <2>1. ThenCommission(k, "REFUNDED") \in Tasks
    BY ThenCommissionTyping DEF OrderStatus
  <2>2. FlipBy(k, ThenCommission(k, "REFUNDED"), -1)
    BY <1>7, OwesStages DEF RefundedFlip, Flips, Frame, FlipBy, OrderStatus
  <2>3. pay' = "refunded" /\ (raced' <=> raced \/ pay = "failed")
    BY <1>7 DEF RefundedFlip, Flips
  <2> QED BY <1>4, <1>7, <2>1, <2>2, <2>3
<1> QED
  BY <1>1, <1>3, <1>5, <1>6, <1>7
  DEF PaidFlip, FailedFlip, ReleasedFlip, RefundedFlip

-------------------------------------------------------------------------------
(* The remaining parts of the invariant.                                     *)

\* Request k moves on to a task t of the right shape.
ShapeMove(k, t) ==
  /\ t \in Tasks /\ task' = [task EXCEPT ![k] = t] /\ psp' = psp
  /\ pay' = pay \/ pay' # "awaiting_payment"
  /\ t.pc # "stock" => t.todo = {}
  /\ t.pc = "commission" => t.op \in {"released", "refunded", "admin"}
  /\ t.pc = "flip" /\ t.op = "paid" /\ t.pay = "failed" => pay' # "awaiting_payment"
  /\ t.op = "released" => psp = "released"
  /\ t.op = "refunded" => psp \in {"refunded", "released"}

LEMMA ShapeKept ==
  ASSUME Inv, NEW k \in Handlers, NEW t, ShapeMove(k, t)
  PROVE  TaskShape' /\ SeenFailed' /\ Caused'
<1>1. /\ task'[k] = t /\ psp' = psp
      /\ \A j \in Handlers : j # k => task'[j] = task[j]
  BY DEF ShapeMove, Inv, TypeOK
<1>2. TaskShape'
  BY <1>1 DEF ShapeMove, Inv, TaskShape
<1>3. SeenFailed'
  BY <1>1 DEF ShapeMove, Inv, SeenFailed
<1>4. Caused'
  BY <1>1 DEF ShapeMove, Inv, Caused
<1> QED BY <1>2, <1>3, <1>4

LEMMA ShapeStages ==
  ASSUME Inv, NEW k \in Handlers
  PROVE  /\ task[k] \in Tasks
         /\ Idle.todo = {} /\ Idle.pc = "idle" /\ Idle.op = "none"
         /\ \A op : /\ Call(op).todo = {} /\ Call(op).pc = "read" /\ Call(op).op = op
         /\ Moving(k) = Idle \/ /\ Moving(k).pc = "stock" /\ Moving(k).op = task[k].op
         /\ \A st \in OrderStatus :
              /\ ThenCommission(k, st).pc = "commission"
              /\ ThenCommission(k, st).op = task[k].op
              /\ ThenCommission(k, st).todo = task[k].todo
         /\ task[k].op = "released" => psp = "released"
         /\ task[k].op = "refunded" => psp \in {"refunded", "released"}
<1>1. task[k] \in Tasks
  BY DEF Inv, TypeOK
<1>2. Idle.todo = {} /\ Idle.pc = "idle" /\ Idle.op = "none"
  BY DEF Idle
<1>3. \A op : /\ Call(op).todo = {} /\ Call(op).pc = "read" /\ Call(op).op = op
  BY DEF Call, Idle
<1>4. Moving(k) = Idle \/ /\ Moving(k).pc = "stock" /\ Moving(k).op = task[k].op
  BY <1>1 DEF Moving, Tasks
<1>5. \A st \in OrderStatus :
        /\ ThenCommission(k, st).pc = "commission"
        /\ ThenCommission(k, st).op = task[k].op
        /\ ThenCommission(k, st).todo = task[k].todo
  BY <1>1 DEF ThenCommission, Tasks
<1> QED BY <1>1, <1>2, <1>3, <1>4, <1>5 DEF Inv, Caused

LEMMA ShapeStep == Inv /\ [Next]_vars => TaskShape' /\ SeenFailed' /\ Caused'
<1> SUFFICES ASSUME Inv, [Next]_vars PROVE TaskShape' /\ SeenFailed' /\ Caused'
  OBVIOUS
<1>1. CASE Provider
  BY <1>1 DEF Provider, PspDecline, PspCharge, PspRefund, PspRelease, PspCancel,
              PspStep, row, Inv, TaskShape, SeenFailed, Caused
<1>2. ASSUME NEW k \in Handlers, Receive(k) PROVE \E t : ShapeMove(k, t)
  <2>1. CASE AdminUpdateStatus(k)
    <3>1. PICK st \in OrderStatus :
            Begin(k, [Idle EXCEPT !.pc = "flip", !.op = "admin", !.status = st])
      BY <2>1, AdminStatusesOK DEF AdminUpdateStatus
    <3> DEFINE t == [Idle EXCEPT !.pc = "flip", !.op = "admin", !.status = st]
    <3>2. t.todo = {} /\ t.pc = "flip" /\ t.op = "admin" /\ t \in Tasks
      BY TaskTyping DEF Idle
    <3>3. ShapeMove(k, t)
      BY <3>1, <3>2 DEF Begin, ShapeMove, row
    <3> QED BY <3>3
  <2>2. ASSUME NEW op \in Kinds, Begin(k, Call(op)),
               op = "released" => psp = "released",
               op = "refunded" => psp \in {"refunded", "released"}
        PROVE  ShapeMove(k, Call(op))
    BY <2>2, ShapeStages, TaskTyping DEF Begin, ShapeMove, row
  <2> QED
    BY <1>2, <2>1, <2>2
    DEF Receive, ReceivePaid, ReceiveFailed, Sweep, ReceiveReleased, ReceiveRefunded,
        Kinds
<1>3. ASSUME NEW k \in Handlers, Proceed(k) PROVE \E t : ShapeMove(k, t)
  <2>0. ASSUME task' = [task EXCEPT ![k] = Idle], psp' = psp, pay' = pay
        PROVE  ShapeMove(k, Idle)
    BY <2>0, ShapeStages, TaskTyping DEF ShapeMove
  <2>1. ASSUME NEW op, NEW refuses, ReadRow(k, op, refuses)
        PROVE  \E t : ShapeMove(k, t)
    <3> DEFINE r == [task[k] EXCEPT !.pc = "flip", !.pay = pay, !.status = status]
    <3>1. task[k] \in Tasks /\ task[k].todo = {}
      BY <2>1 DEF ReadRow, Inv, TypeOK, TaskShape
    <3>2. pay \in PaymentStatus /\ status \in OrderStatus
      BY DEF Inv, TypeOK
    <3>3. /\ r \in Tasks /\ r.todo = {} /\ r.pc = "flip" /\ r.pay = pay
          /\ r.op = task[k].op
      BY <3>1, <3>2 DEF Tasks
    <3>4. CASE refuses
      BY <2>0, <2>1, <3>4 DEF ReadRow, row
    <3>5. CASE ~refuses
      <4>1. task' = [task EXCEPT ![k] = r] /\ psp' = psp /\ pay' = pay
        BY <2>1, <3>5 DEF ReadRow, row
      <4>2. ShapeMove(k, r)
        BY <3>3, <4>1, ShapeStages DEF ShapeMove
      <4> QED BY <4>2
    <3> QED BY <3>4, <3>5
  <2>2. CASE PaidRead(k) \/ FailedRead(k) \/ ReleasedRead(k) \/ RefundedRead(k)
    BY <2>1, <2>2 DEF PaidRead, FailedRead, ReleasedRead, RefundedRead
  <2>3. ASSUME Lost(k), Frame PROVE ShapeMove(k, Idle)
    BY <2>0, <2>3 DEF Lost, Frame, row
  <2>4. ASSUME NEW t, t \in {Idle, Moving(k)}, task' = [task EXCEPT ![k] = t],
               psp' = psp, pay' = pay \/ pay' # "awaiting_payment"
        PROVE  ShapeMove(k, t)
    <3>1. t \in Tasks
      <4>1. TypeOK
        BY DEF Inv
      <4> QED BY <2>4, <4>1, TaskTyping, MovingTyping
    <3>2. /\ t.pc # "stock" => t.todo = {}
          /\ t.pc \in {"idle", "stock"}
          /\ t.op \in {"released", "refunded"} => t.op = task[k].op
      BY <2>4, ShapeStages
    <3>3. /\ t.op = "released" => psp = "released"
          /\ t.op = "refunded" => psp \in {"refunded", "released"}
      BY <3>2, ShapeStages
    <3> QED BY <2>4, <3>1, <3>2, <3>3 DEF ShapeMove
  <2>5. CASE PaidFlip(k)
    BY <2>3, <2>4, <2>5 DEF PaidFlip, Flips, Frame, row
  <2>6. CASE FailedFlip(k)
    BY <2>3, <2>4, <2>6 DEF FailedFlip, Flips, Frame, row
  <2>7. ASSUME NEW st \in OrderStatus, task[k].pc = "flip",
               task[k].op \in {"released", "refunded", "admin"},
               task' = [task EXCEPT ![k] = ThenCommission(k, st)],
               psp' = psp, pay' = pay \/ pay' # "awaiting_payment"
        PROVE  ShapeMove(k, ThenCommission(k, st))
    <3>1. task[k].todo = {}
      BY <2>7 DEF Inv, TaskShape
    <3>2. ThenCommission(k, st) \in Tasks
      BY ThenCommissionTyping DEF Inv
    <3> QED BY <2>7, <3>1, <3>2, ShapeStages DEF ShapeMove
  <2>8. CASE ReleasedFlip(k)
    BY <2>3, <2>7, <2>8 DEF ReleasedFlip, Flips, Frame, OrderStatus
  <2>9. CASE RefundedFlip(k)
    BY <2>3, <2>7, <2>9 DEF RefundedFlip, Flips, Frame, OrderStatus
  <2>10. CASE AdminWrite(k)
    <3>1. task[k].status \in OrderStatus
      BY DEF Inv, TypeOK, Tasks
    <3> QED BY <2>7, <2>10, <3>1 DEF AdminWrite, Frame
  <2>11. CASE WriteCommission(k)
    BY <2>0, <2>4, <2>11 DEF WriteCommission, row, Inv, TaskShape
  <2>12. ASSUME NEW i \in Items, MoveStock(k, i) PROVE \E t : ShapeMove(k, t)
    <3> DEFINE r == [task[k] EXCEPT !.todo = task[k].todo \ {i}]
    <3>1. r \in Tasks /\ r.pc = "stock" /\ r.op = task[k].op
      BY <2>12, RemainingTyping, ShapeStages DEF Inv, MoveStock, Tasks
    <3>2. psp' = psp /\ pay' = pay
      BY <2>12 DEF MoveStock, row
    <3>3. CASE task' = [task EXCEPT ![k] = Idle]
      BY <2>0, <3>2, <3>3
    <3>4. CASE task' = [task EXCEPT ![k] = r]
      <4>1. ShapeMove(k, r)
        BY <3>1, <3>2, <3>4, ShapeStages DEF ShapeMove
      <4> QED BY <4>1
    <3> QED BY <2>12, <3>3, <3>4 DEF MoveStock, LineDone
  <2> QED
    BY <1>3, <2>2, <2>5, <2>6, <2>8, <2>9, <2>10, <2>11, <2>12 DEF Proceed
<1>4. ASSUME NEW k \in Handlers, Fail(k) PROVE \E t : ShapeMove(k, t)
  <2>1. CASE Interrupt(k)
    <3>1. ShapeMove(k, Idle)
      BY <2>1, ShapeStages, TaskTyping DEF Interrupt, ShapeMove, row
    <3> QED BY <3>1
  <2>2. ASSUME NEW i \in Items, LineFails(k, i) PROVE \E t : ShapeMove(k, t)
    <3> DEFINE r == [task[k] EXCEPT !.todo = task[k].todo \ {i}]
    <3>1. r \in Tasks /\ r.pc = "stock" /\ r.op = task[k].op
      BY <2>2, RemainingTyping, ShapeStages DEF Inv, LineFails, Tasks
    <3>2. psp' = psp /\ pay' = pay
      BY <2>2 DEF LineFails, row
    <3>3. CASE task' = [task EXCEPT ![k] = Idle]
      <4>1. ShapeMove(k, Idle)
        BY <3>2, <3>3, ShapeStages, TaskTyping DEF ShapeMove
      <4> QED BY <4>1
    <3>4. CASE task' = [task EXCEPT ![k] = r]
      <4>1. ShapeMove(k, r)
        BY <3>1, <3>2, <3>4, ShapeStages DEF ShapeMove
      <4> QED BY <4>1
    <3> QED BY <2>2, <3>3, <3>4 DEF LineFails, LineDone
  <2> QED BY <1>4, <2>1, <2>2 DEF Fail
<1>5. CASE UNCHANGED vars
  BY <1>5 DEF vars, Inv, TaskShape, SeenFailed, Caused
<1> QED BY <1>1, <1>2, <1>3, <1>4, <1>5, ShapeKept DEF Next

LEMMA StockStep ==
  ASSUME Inv, TypeOK', [Next]_vars
  PROVE  StockBounded' /\ StockFollowsPayment'
<1>1. ASSUME UNCHANGED <<pay, task, taken, raced, interrupted>>
      PROVE  StockBounded' /\ StockFollowsPayment'
  BY <1>1, SettledSame DEF Inv, StockBounded, StockFollowsPayment
<1>2. CASE Provider
  BY <1>1, <1>2 DEF Provider, PspDecline, PspCharge, PspRefund, PspRelease, PspCancel,
                    PspStep, row, history
<1>3. CASE UNCHANGED vars
  BY <1>1, <1>3 DEF vars
<1>4. ASSUME NEW k \in Handlers, Receive(k) \/ Proceed(k) \/ Fail(k)
      PROVE  StockBounded' /\ StockFollowsPayment'
  BY <1>4, StockQuietActions, StockFlips DEF Proceed
<1> QED BY <1>2, <1>3, <1>4 DEF Next

-------------------------------------------------------------------------------
(* The commission.                                                           *)

\* A step that neither starts nor finishes a commission write.
LEMMA CommissionKept ==
  ASSUME Inv, NEW k \in Handlers, NEW t, task' = [task EXCEPT ![k] = t],
         task[k].pc # "commission", t.pc # "commission",
         commission' = commission, crossed => crossed', interrupted => interrupted',
         crossed' \/ deriveCommissionStatus(status') = deriveCommissionStatus(status)
  PROVE  CommissionOwed'
<1>1. /\ task'[k] = t
      /\ \A j \in Handlers : j # k => task'[j] = task[j]
  BY DEF Inv, TypeOK
<1>2. \A j \in Handlers : /\ (task'[j].pc = "commission") <=> (task[j].pc = "commission")
                          /\ task[j].pc = "commission" => task'[j] = task[j]
  BY <1>1
<1> QED BY <1>2 DEF Inv, CommissionOwed

\* A request writes the status and has yet to write the commission.
LEMMA CommissionStarts ==
  ASSUME Inv, NEW k \in Handlers, NEW t, task' = [task EXCEPT ![k] = t],
         task[k].pc # "commission", t.pc = "commission", t.status = status',
         crossed' = (crossed \/ CommissionPending(k)), interrupted => interrupted'
  PROVE  CommissionOwed'
<1>1. /\ task'[k] = t
      /\ \A j \in Handlers : j # k => task'[j] = task[j]
  BY DEF Inv, TypeOK
<1>2. ~crossed' => \A j \in Handlers : j # k => task'[j].pc # "commission"
  BY <1>1 DEF CommissionPending
<1> QED BY <1>1, <1>2 DEF CommissionOwed

LEMMA CommissionWritten ==
  ASSUME Inv, NEW k \in Handlers, WriteCommission(k)
  PROVE  CommissionOwed'
<1> DEFINE t == IF task[k].op = "admin" THEN Idle ELSE Moving(k)
<1>1. /\ task[k].pc = "commission" /\ task' = [task EXCEPT ![k] = t]
      /\ commission' = deriveCommissionStatus(task[k].status)
      /\ status' = status /\ (crossed' <=> crossed) /\ (interrupted' <=> interrupted)
  BY DEF WriteCommission, row, history, Inv, TypeOK
<1>2. t.pc # "commission"
  BY ShapeStages
<1>3. /\ task'[k].pc # "commission"
      /\ \A j \in Handlers : j # k => task'[j] = task[j]
  BY <1>1, <1>2 DEF Inv, TypeOK
<1> QED BY <1>1, <1>3 DEF Inv, CommissionOwed

\* The stages in which no commission write is outstanding.
LEMMA ForwardCommission ==
  ASSUME NEW st
  PROVE  deriveCommissionStatus(Forward(st)) = deriveCommissionStatus(st)
BY DEF deriveCommissionStatus, Forward

LEMMA CommissionStep == Inv /\ [Next]_vars => CommissionOwed'
<1> SUFFICES ASSUME Inv, [Next]_vars PROVE CommissionOwed'
  OBVIOUS
<1>0. ASSUME UNCHANGED <<task, status, commission, crossed, interrupted>>
      PROVE  CommissionOwed'
  BY <1>0 DEF Inv, CommissionOwed
<1>1. CASE Provider
  BY <1>0, <1>1 DEF Provider, PspDecline, PspCharge, PspRefund, PspRelease, PspCancel,
                    PspStep, row, history
<1>2. ASSUME NEW k \in Handlers, Receive(k) PROVE CommissionOwed'
  <2>1. ASSUME NEW t, t.pc # "commission", Begin(k, t) PROVE CommissionOwed'
    BY <2>1, CommissionKept DEF Begin, row, history
  <2>2. CASE AdminUpdateStatus(k)
    <3>1. PICK st \in OrderStatus :
            Begin(k, [Idle EXCEPT !.pc = "flip", !.op = "admin", !.status = st])
      BY <2>2, AdminStatusesOK DEF AdminUpdateStatus
    <3>2. [Idle EXCEPT !.pc = "flip", !.op = "admin", !.status = st].pc = "flip"
      BY DEF Idle
    <3> QED BY <2>1, <3>1, <3>2
  <2>3. ASSUME NEW op, Begin(k, Call(op)) PROVE CommissionOwed'
    BY <2>1, <2>3, ShapeStages
  <2> QED
    BY <1>2, <2>2, <2>3
    DEF Receive, ReceivePaid, ReceiveFailed, Sweep, ReceiveReleased, ReceiveRefunded
<1>3. ASSUME NEW k \in Handlers, Proceed(k) PROVE CommissionOwed'
  <2>1. ASSUME NEW op, NEW refuses, ReadRow(k, op, refuses) PROVE CommissionOwed'
    <3> DEFINE r == [task[k] EXCEPT !.pc = "flip", !.pay = pay, !.status = status]
               t == IF refuses THEN Idle ELSE r
    <3>1. r.pc = "flip"
      BY DEF Inv, TypeOK, Tasks
    <3>2. t.pc # "commission"
      BY <3>1, ShapeStages
    <3> QED BY <2>1, <3>2, CommissionKept DEF ReadRow, row, history
  <2>2. ASSUME Lost(k), Frame, task[k].pc = "flip" PROVE CommissionOwed'
    BY <2>2, ShapeStages, CommissionKept DEF Lost, Frame, row
  <2>3. ASSUME NEW t, t \in {Idle, Moving(k)}, task' = [task EXCEPT ![k] = t],
               task[k].pc = "flip", Frame, crossed => crossed',
               crossed' \/ deriveCommissionStatus(status') = deriveCommissionStatus(status)
        PROVE  CommissionOwed'
    <3>1. t.pc # "commission"
      BY <2>3, ShapeStages
    <3> QED BY <2>3, <3>1, CommissionKept DEF Frame
  <2>4. CASE PaidFlip(k) /\ pay # "paid"
    <3> DEFINE st == Forward(task[k].status)
    <3>1. /\ status' = st /\ (crossed' <=> (crossed \/ st # Forward(status)))
          /\ task' = [task EXCEPT ![k] =
                        IF task[k].pay = "failed" THEN Moving(k) ELSE Idle]
          /\ task[k].pc = "flip" /\ Frame
      BY <2>4 DEF PaidFlip, Lost, Flips
    <3>2. crossed' \/ deriveCommissionStatus(status') = deriveCommissionStatus(status)
      BY <3>1, ForwardCommission
    <3> QED BY <2>3, <3>1, <3>2
  <2>5. CASE FailedFlip(k)
    BY <2>2, <2>3, <2>5 DEF FailedFlip, Flips
  <2>6. ASSUME NEW st \in OrderStatus, task[k].pc = "flip", Frame,
               task' = [task EXCEPT ![k] = ThenCommission(k, st)], status' = st,
               crossed' = (crossed \/ CommissionPending(k))
        PROVE  CommissionOwed'
    <3>1. ThenCommission(k, st).pc = "commission" /\ ThenCommission(k, st).status = st
      BY DEF ThenCommission, Inv, TypeOK, Tasks
    <3> QED BY <2>6, <3>1, CommissionStarts DEF Frame
  <2>7. CASE ReleasedFlip(k)
    BY <2>2, <2>6, <2>7 DEF ReleasedFlip, Flips, OrderStatus
  <2>8. CASE RefundedFlip(k)
    BY <2>2, <2>6, <2>8 DEF RefundedFlip, Flips, OrderStatus
  <2>9. CASE AdminWrite(k)
    <3>1. task[k].status \in OrderStatus
      BY DEF Inv, TypeOK, Tasks
    <3> QED BY <2>6, <2>9, <3>1 DEF AdminWrite
  <2>10. ASSUME NEW i \in Items, MoveStock(k, i) PROVE CommissionOwed'
    <3> DEFINE r == [task[k] EXCEPT !.todo = task[k].todo \ {i}]
               t == IF task[k].todo = {i} THEN Idle ELSE r
    <3>1. r.pc = task[k].pc /\ task[k].pc = "stock"
      BY <2>10 DEF MoveStock, Inv, TypeOK, Tasks
    <3>2. t.pc # "commission"
      BY <3>1, ShapeStages
    <3> QED BY <2>10, <3>1, <3>2, CommissionKept DEF MoveStock, LineDone, row, history
  <2> QED
    BY <1>3, <2>1, <2>2, <2>4, <2>5, <2>7, <2>8, <2>9, <2>10, CommissionWritten
    DEF Proceed, PaidRead, FailedRead, ReleasedRead, RefundedRead, PaidFlip
<1>4. ASSUME NEW k \in Handlers, Fail(k) PROVE CommissionOwed'
  <2>1. CASE Interrupt(k) /\ task[k].pc = "commission"
    BY <2>1 DEF Interrupt, CommissionOwed
  <2>2. CASE Interrupt(k) /\ task[k].pc # "commission"
    BY <2>2, ShapeStages, CommissionKept DEF Interrupt, row
  <2>3. ASSUME NEW i \in Items, LineFails(k, i) PROVE CommissionOwed'
    BY <2>3 DEF LineFails, CommissionOwed
  <2> QED BY <1>4, <2>1, <2>2, <2>3 DEF Fail
<1>5. CASE UNCHANGED vars
  BY <1>0, <1>5 DEF vars
<1> QED BY <1>1, <1>2, <1>3, <1>4, <1>5 DEF Next

-------------------------------------------------------------------------------
(* The invariant is inductive, and what follows from it.                     *)

LEMMA InvInit == Init => Inv
<1> SUFFICES ASSUME Init PROVE Inv
  OBVIOUS
<1>1. TypeOK
  BY TypeInit
<1>2. \A k \in Handlers : /\ task[k] = Idle /\ task[k].pc = "idle" /\ task[k].op = "none"
                          /\ task[k].todo = {}
  BY DEF Init, Idle
<1>3. TaskShape /\ SeenFailed /\ Caused
  BY <1>2 DEF TaskShape, SeenFailed, Caused
<1>4. CommissionOwed
  BY <1>2 DEF CommissionOwed, Init, deriveCommissionStatus
<1>5. \A i \in Items : Settled(i) = 1
  <2> TAKE i \in Items
  <2>1. Taking(i) = {} /\ Restoring(i) = {} /\ WillRestore = {}
    BY <1>2 DEF Taking, Restoring, WillRestore
  <2>2. taken[i] = 1
    BY DEF Init
  <2> QED BY <2>1, <2>2, FS_EmptySet DEF Settled
<1>6. StockBounded /\ StockFollowsPayment
  BY <1>5 DEF StockBounded, StockFollowsPayment, Held, Init
<1> QED BY <1>1, <1>3, <1>4, <1>6 DEF Inv

LEMMA InvStep == Inv /\ [Next]_vars => Inv'
<1> SUFFICES ASSUME Inv, [Next]_vars PROVE Inv'
  OBVIOUS
<1>1. TypeOK'
  BY TypeStep DEF Inv
<1>2. StockBounded' /\ StockFollowsPayment'
  BY <1>1, StockStep
<1> QED BY <1>1, <1>2, ShapeStep, CommissionStep DEF Inv

LEMMA Invariance == Spec => []Inv
<1>1. Init => Inv
  BY InvInit
<1>2. Inv /\ [Next]_vars => Inv'
  BY InvStep
<1> QED BY <1>1, <1>2, PTL DEF Spec

\* However many confirmations, declines and refunds overlap, markOrderPaid
\* never takes a line's stock a second time.
THEOREM StockNeverTakenTwice == Spec => []NeverTakenTwice
<1>1. Inv => NeverTakenTwice
  <2> SUFFICES ASSUME Inv, ~interrupted, NEW i \in Items PROVE Settled(i) <= 1
    BY DEF NeverTakenTwice
  <2>1. /\ Cardinality(Taking(i)) \in Nat /\ Cardinality(Restoring(i)) \in Nat
        /\ Cardinality(WillRestore) \in Nat
    BY FlightFinite, FS_CardinalityType
  <2>2. Settled(i) \in Int
    BY <2>1 DEF Settled, Inv, TypeOK
  <2>3. Settled(i) <= Held(pay)
    BY DEF Inv, StockBounded
  <2> QED BY <2>2, <2>3 DEF Held
<1> QED BY <1>1, Invariance, PTL

\* Outside the four recorded races the lines hold exactly the stock that the
\* order's payment_status calls for.
THEOREM StockMatchesPayment == Spec => []StockFollowsPayment
<1>1. Inv => StockFollowsPayment
  BY DEF Inv
<1> QED BY <1>1, Invariance, PTL

\* A cancelled or refunded sale does not stay counted as earnings.
THEOREM CommissionMatchesStatus == Spec => []CommissionFollowsStatus
<1>1. Inv => CommissionFollowsStatus
  BY DEF Inv, CommissionOwed, CommissionFollowsStatus
<1> QED BY <1>1, Invariance, PTL

\* Only money given back or an authorization let go takes an order out of "paid".
THEOREM PaidIsKept == Spec => PaidOnlyLostWithTheMoney
<1> DEFINE Keeps == pay = "paid" /\ pay' # "paid" => psp \in {"refunded", "released"}
<1>1. ASSUME Inv, [Next]_vars PROVE Keeps
  <2> SUFFICES ASSUME pay = "paid", pay' # "paid"
               PROVE  psp \in {"refunded", "released"}
    OBVIOUS
  <2>1. ASSUME NEW k \in Handlers, Proceed(k) PROVE psp \in {"refunded", "released"}
    <3>1. CASE ReleasedFlip(k) \/ RefundedFlip(k)
      <4>1. task[k].op \in {"released", "refunded"}
        BY <3>1 DEF ReleasedFlip, RefundedFlip
      <4> QED BY <1>1, <4>1 DEF Inv, Caused
    <3>2. CASE ~(ReleasedFlip(k) \/ RefundedFlip(k))
      <4>1. CASE PaidFlip(k) \/ FailedFlip(k)
        BY <4>1 DEF PaidFlip, FailedFlip, Lost, Flips, row
      <4>2. ASSUME NEW op, NEW refuses, ReadRow(k, op, refuses) PROVE FALSE
        BY <4>2 DEF ReadRow, row
      <4>3. CASE AdminWrite(k) \/ WriteCommission(k) \/ \E i \in Items : MoveStock(k, i)
        BY <4>3 DEF AdminWrite, WriteCommission, MoveStock, row
      <4> QED
        BY <2>1, <3>2, <4>1, <4>2, <4>3
        DEF Proceed, PaidRead, FailedRead, ReleasedRead, RefundedRead
    <3> QED BY <3>1, <3>2
  <2>2. ASSUME Provider PROVE FALSE
    BY <2>2 DEF Provider, PspDecline, PspCharge, PspRefund, PspRelease, PspCancel,
                PspStep, row
  <2>3. ASSUME NEW k \in Handlers, Receive(k) PROVE FALSE
    BY <2>3 DEF Receive, ReceivePaid, ReceiveFailed, Sweep, ReceiveReleased,
                ReceiveRefunded, AdminUpdateStatus, Begin, row
  <2>4. ASSUME NEW k \in Handlers, Fail(k) PROVE FALSE
    BY <2>4 DEF Fail, Interrupt, LineFails, row
  <2> QED BY <1>1, <2>1, <2>2, <2>3, <2>4 DEF Next, vars
<1>2. Inv /\ [Next]_vars => [Keeps]_vars
  BY <1>1
<1> QED BY <1>2, Invariance, PTL DEF Spec, PaidOnlyLostWithTheMoney
================================================================================
