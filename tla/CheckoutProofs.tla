---------------------------- MODULE CheckoutProofs -----------------------------
(***************************************************************************)
(* Proofs about Checkout, for any finite stock, any number of requests in  *)
(* flight, buyers and orders, any limits of the coupon and any failures:   *)
(* nothing is oversold and every unit has one holder, no redemption is     *)
(* taken above the limit or lost, and from outside an order appears whole  *)
(* or not at all (Reservations).                                           *)
(***************************************************************************)
EXTENDS Checkout, FiniteSetTheorems, WellFoundedInduction, TLAPS

-------------------------------------------------------------------------------
(* Finite sets and numbers.                                                  *)

\* The sweep's next order exists: a set of order numbers has a least one.
LEMMA LeastExists ==
  ASSUME NEW n \in Nat, NEW S, S \subseteq 1..n, S # {}
  PROVE  \E o \in S : \A p \in S : o <= p
<1> DEFINE Below == {1..o : o \in S}
           R == StrictSubsetOrdering(1..n)
<1>1. IsWellFoundedOn(R, SUBSET (1..n))
  <2>1. IsFiniteSet(1..n)
    BY FS_Interval
  <2> QED BY <2>1, FS_FiniteSubsetsOfFinite, FS_StrictSubsetOrderingWellFounded
<1>2. Below \subseteq SUBSET (1..n) /\ Below # {}
  <2>1. \A o \in S : \A p \in 1..o : p \in 1..n
    OBVIOUS
  <2>2. \A o \in S : 1..o \subseteq 1..n
    BY <2>1
  <2>3. PICK o \in S : TRUE
    OBVIOUS
  <2>4. 1..o \in Below
    OBVIOUS
  <2> QED BY <2>2, <2>4
<1>3. PICK b \in Below : \A c \in Below : ~(<<c, b>> \in R)
  BY <1>1, <1>2, WFMin
<1>4. PICK o \in S : b = 1..o
  OBVIOUS
<1>5. ASSUME NEW p \in S, p < o PROVE FALSE
  <2>1. 1..p \in Below /\ 1..p \subseteq b /\ o \in b /\ o \notin 1..p
    BY <1>4, <1>5
  <2>2. <<1..p, b>> \in R
    BY <1>2, <2>1 DEF StrictSubsetOrdering
  <2> QED BY <1>3, <2>1, <2>2
<1>6. ASSUME NEW p \in S PROVE o <= p
  BY <1>5
<1> QED BY <1>6

-------------------------------------------------------------------------------
(* The shape of requests and orders.                                         *)

\* Stages in which a request owes stock or a redemption to somebody.
Owing == {"stock", "row", "undo", "release", "restore", "free", "retake"}

EmptyHanded(t) == t.took = {} /\ t.pc \notin Owing

\* Stages in which a request is about an order that exists.
OfOrder == {"usage", "count", "empty", "link", "failRead", "failFlip", "restore",
            "couponFind", "couponDelete", "free", "unlink", "relink", "payFlip"}

\* What a request took are its lines but for those still to take; what it undoes
\* is what it took.  n: orders placed; l: the coupon's limit.
TaskOK(t, n, l) ==
  /\ t.took # {} => t.pc \in {"stock", "row", "undo"}
  /\ t.pc = "stock" => t.took \cap t.todo = {} /\ t.took \cup t.todo = t.lines \ CustomSkus
  /\ t.pc = "row" => t.took = t.lines \ CustomSkus
  /\ t.pc = "undo" => t.todo = t.took
  /\ t.pc \in OfOrder => t.order \in 1..n
  /\ t.sweep \subseteq 1..n
  /\ t.pc = "cart" => t.claim = "none"
  /\ t.pc \in {"stock", "row"} /\ t.coupon => t.claim # "none"
  /\ t.pc = "usage" => t.claim # "none"
  /\ t.pc = "count" => t.claim = "unlimited"
  /\ t.pc = "release" => t.claim = "reserved"
  /\ t.claim = "reserved" => l # NoLimit
  /\ t.claim = "unlimited" => l = NoLimit

Good(t, n, l) == t \in Tasks /\ TaskOK(t, n, l)

TasksOK == \A r \in Requests : TaskOK(task[r], placed, limit)

\* A redemption is recorded for an order that claimed it, and not once freed.
OrdersOK ==
  \A o \in OrderIds :
    /\ o > placed => orders[o] = NoOrder
    /\ o <= placed => orders[o].pay # "none"
    /\ orders[o].row => ~orders[o].freed /\ orders[o].claim # "none"
    /\ orders[o].claim = "unlimited" => limit = NoLimit

\* A payment that read a written-off order cannot find it unpaid again.
SeenFailed ==
  \A r \in Requests :
    At(r, "payFlip") /\ task[r].read = "failed" => Order(r).pay \in {"failed", "paid"}

\* Only the request that placed an order records its redemption, and once.
Unrecorded ==
  /\ \A r \in Requests : At(r, "usage") =>
       ~Order(r).row /\ ~Order(r).freed /\ Order(r).claim = task[r].claim
  /\ \A q, r \in Requests :
       At(q, "usage") /\ At(r, "usage") /\ task[q].order = task[r].order => q = r

\* Nothing is oversold unless a late payment took stock without looking.
NoOversell == ~lateSale => \A s \in Skus : stock[s] >= 0

Shape == TypeOK /\ TasksOK /\ OrdersOK /\ SeenFailed /\ Unrecorded /\ NoOversell

-------------------------------------------------------------------------------
(* Where a request goes next.                                                *)

LEMMA IdleGood ==
  ASSUME NEW n \in Nat, NEW l
  PROVE  Good(Idle, n, l) /\ EmptyHanded(Idle)
BY BoundsOK DEF Good, TaskOK, EmptyHanded, Owing, OfOrder, Idle, Tasks, PayStatus, Claims

LEMMA TaskFields ==
  ASSUME NEW t \in Tasks
  PROVE  /\ t.lines \subseteq Skus /\ t.took \subseteq Skus /\ t.todo \subseteq Skus
         /\ t.coupon \in BOOLEAN /\ t.claim \in Claims /\ t.order \in 0..MaxOrders
         /\ t.sweep \subseteq OrderIds /\ t.read \in PayStatus
BY DEF Tasks

LEMMA SweepOnGood ==
  ASSUME NEW n \in 0..MaxOrders, NEW l, NEW t \in Tasks, NEW rest, rest \subseteq 1..n
  PROVE  /\ Good(SweepOn(t, rest), n, l) /\ EmptyHanded(SweepOn(t, rest))
         /\ SweepOn(t, rest).pc \in {"cart", "failRead"}
<1> DEFINE base == [Idle EXCEPT !.kind = "cart", !.coupon = t.coupon]
           oldest == CHOOSE o \in rest : \A p \in rest : o <= p
<1>0. n \in Nat /\ MaxOrders \in Nat /\ 1..n \subseteq OrderIds
  BY BoundsOK DEF OrderIds
<1>b. base \in Tasks
  BY <1>0, IdleGood, TaskFields DEF Good, Tasks
<1>1. CASE rest = {}
  <2> DEFINE u == [base EXCEPT !.pc = "cart"]
  <2>1. SweepOn(t, rest) = u
    BY <1>1 DEF SweepOn
  <2>2. u \in Tasks
    BY <1>b DEF Tasks
  <2>3. u.pc = "cart" /\ u.took = {} /\ u.sweep = {} /\ u.claim = "none"
    BY DEF Idle
  <2> HIDE DEF u
  <2> QED BY <2>1, <2>2, <2>3 DEF Good, TaskOK, EmptyHanded, Owing, OfOrder
<1>2. CASE rest # {}
  <2> DEFINE u == [base EXCEPT !.pc = "failRead", !.order = oldest, !.sweep = rest \ {oldest}]
  <2>1. SweepOn(t, rest) = u
    BY <1>2 DEF SweepOn
  <2>2. oldest \in rest
    BY <1>0, <1>2, LeastExists
  <2> HIDE DEF oldest
  <2>3. u \in Tasks
    <3>1. oldest \in 0..MaxOrders /\ rest \ {oldest} \subseteq OrderIds
      BY <1>0, <2>2
    <3> HIDE DEF base
    <3> QED BY <1>b, <3>1 DEF Tasks
  <2>4. /\ u.pc = "failRead" /\ u.took = {} /\ u.sweep = rest \ {oldest}
        /\ u.claim = "none" /\ u.order = oldest
    BY DEF Idle
  <2> HIDE DEF u
  <2> QED BY <2>1, <2>2, <2>3, <2>4 DEF Good, TaskOK, EmptyHanded, Owing, OfOrder
<1> QED BY <1>1, <1>2

LEMMA AfterFailGood ==
  ASSUME NEW n \in 0..MaxOrders, NEW l, NEW t, Good(t, n, l), t.took = {}, t.order \in 1..n,
         NEW failed \in BOOLEAN
  PROVE  /\ Good(AfterFail(t, failed), n, l) /\ EmptyHanded(AfterFail(t, failed))
         /\ AfterFail(t, failed).pc \notin {"usage", "payFlip"}
<1>0. n \in Nat
  BY BoundsOK
<1>1. CASE t.kind = "cart"
  <2>1. AfterFail(t, failed) = SweepOn(t, t.sweep)
    BY <1>1 DEF AfterFail
  <2>2. t.sweep \subseteq 1..n /\ t \in Tasks
    BY DEF Good, TaskOK
  <2> QED BY <2>1, <2>2, SweepOnGood
<1>2. ASSUME NEW pc \in {"couponFind", "relink"}, AfterFail(t, failed) = [t EXCEPT !.pc = pc, !.todo = {}]
      PROVE  /\ Good(AfterFail(t, failed), n, l) /\ EmptyHanded(AfterFail(t, failed))
             /\ AfterFail(t, failed).pc \notin {"usage", "payFlip"}
  <2> DEFINE u == [t EXCEPT !.pc = pc, !.todo = {}]
  <2>1. u \in Tasks
    BY DEF Good, Tasks
  <2>2. /\ u.pc = pc /\ u.took = {} /\ u.sweep = t.sweep /\ u.claim = t.claim /\ u.order = t.order
    BY DEF Good, Tasks
  <2> HIDE DEF u
  <2>3. TaskOK(u, n, l) /\ EmptyHanded(u)
    BY <2>2 DEF Good, TaskOK, EmptyHanded, Owing, OfOrder
  <2> QED BY <1>2, <2>1, <2>2, <2>3 DEF Good, u
<1>3. CASE AfterFail(t, failed) = Idle
  BY <1>0, <1>3, IdleGood DEF Idle
<1> QED BY <1>1, <1>2, <1>3 DEF AfterFail

\* A request that goes on to stage pc with the rest as it was.
LEMMA StageGood ==
  ASSUME NEW n \in 0..MaxOrders, NEW l, NEW t, Good(t, n, l), t.took = {}, t.order \in 1..n,
         NEW pc \in {"failFlip", "unlink", "couponDelete", "free", "empty", "link"},
         NEW u, u = [t EXCEPT !.pc = pc]
  PROVE  Good(u, n, l) /\ u.took = {} /\ u.pc = pc /\ u.claim = t.claim /\ u.order = t.order
<1>1. u \in Tasks
  BY DEF Good, Tasks
<1>2. /\ u.pc = pc /\ u.took = {} /\ u.sweep = t.sweep /\ u.claim = t.claim /\ u.order = t.order
  BY DEF Good, Tasks
<1>3. TaskOK(u, n, l)
  BY <1>2 DEF Good, TaskOK, OfOrder
<1> QED BY <1>1, <1>2, <1>3 DEF Good

LEMMA ReadForFailGood ==
  ASSUME NEW n \in 0..MaxOrders, NEW l, NEW t, Good(t, n, l), t.took = {}, t.order \in 1..n
  PROVE  /\ Good(ReadForFail(t), n, l) /\ EmptyHanded(ReadForFail(t))
         /\ ReadForFail(t).pc \notin {"usage", "payFlip"}
<1> DEFINE paid == orders[t.order].pay = "failed"
<1>1. paid \in BOOLEAN
  OBVIOUS
<1>2. CASE ReadForFail(t) = AfterFail(t, paid)
  <2> HIDE DEF paid
  <2> QED BY <1>1, <1>2, AfterFailGood
<1>3. CASE ReadForFail(t) = [t EXCEPT !.pc = "failFlip"]
  <2> DEFINE u == [t EXCEPT !.pc = "failFlip"]
  <2>1. Good(u, n, l) /\ u.took = {} /\ u.pc = "failFlip"
    BY StageGood
  <2> HIDE DEF u
  <2> QED BY <1>3, <2>1 DEF EmptyHanded, Owing, u
<1> QED BY <1>2, <1>3 DEF ReadForFail

LEMMA AfterCouponGood ==
  ASSUME NEW n \in 0..MaxOrders, NEW l, NEW r, Good(task[r], n, l), task[r].took = {},
         task[r].order \in 1..n
  PROVE  /\ Good(AfterCoupon(r), n, l) /\ EmptyHanded(AfterCoupon(r))
         /\ AfterCoupon(r).pc \notin {"usage", "payFlip"}
<1>0. n \in Nat
  BY BoundsOK
<1>1. CASE AfterCoupon(r) = [task[r] EXCEPT !.pc = "unlink"]
  <2> DEFINE u == [task[r] EXCEPT !.pc = "unlink"]
  <2>1. Good(u, n, l) /\ u.took = {} /\ u.pc = "unlink"
    BY StageGood
  <2> HIDE DEF u
  <2> QED BY <1>1, <2>1 DEF EmptyHanded, Owing, u
<1>2. CASE AfterCoupon(r) = Idle
  BY <1>0, <1>2, IdleGood DEF Idle
<1> QED BY <1>1, <1>2 DEF AfterCoupon

\* A checkout that is about to take its lines has taken none.
LEMMA TakingGood ==
  ASSUME NEW n \in 0..MaxOrders, NEW l, NEW t, Good(t, n, l), t.took = {},
         t.coupon => t.claim # "none"
  PROVE  /\ Good(Taking(t), n, l) /\ Taking(t).took = {}
         /\ Taking(t).pc \in {"stock", "row"} /\ Taking(t).claim = t.claim
<1>1. CASE t.lines \subseteq CustomSkus
  <2> DEFINE u == [t EXCEPT !.pc = "row"]
  <2>1. Taking(t) = u
    BY <1>1 DEF Taking
  <2>2. u \in Tasks
    BY DEF Good, Tasks
  <2>3. /\ u.pc = "row" /\ u.took = {} /\ u.sweep = t.sweep /\ u.claim = t.claim
        /\ u.lines = t.lines /\ u.coupon = t.coupon
    BY DEF Good, Tasks
  <2> HIDE DEF u
  <2> QED BY <1>1, <2>1, <2>2, <2>3 DEF Good, TaskOK, OfOrder
<1>2. CASE ~(t.lines \subseteq CustomSkus)
  <2> DEFINE u == [t EXCEPT !.pc = "stock", !.todo = t.lines \ CustomSkus]
  <2>1. Taking(t) = u
    BY <1>2 DEF Taking
  <2>2. u \in Tasks
    BY TaskFields DEF Good, Tasks
  <2>3. /\ u.pc = "stock" /\ u.took = {} /\ u.sweep = t.sweep /\ u.claim = t.claim
        /\ u.lines = t.lines /\ u.coupon = t.coupon /\ u.todo = t.lines \ CustomSkus
    BY DEF Good, Tasks
  <2> HIDE DEF u
  <2> QED BY <2>1, <2>2, <2>3 DEF Good, TaskOK, OfOrder
<1> QED BY <1>1, <1>2

LEMMA QuotingGood ==
  ASSUME NEW n \in 0..MaxOrders, NEW l, NEW t, Good(t, n, l), t.took = {}, t.claim = "none"
  PROVE  /\ Good(Quoting(t), n, l) /\ Quoting(t).took = {}
         /\ Quoting(t).pc \in {"validate", "stock", "row"} /\ Quoting(t).claim = "none"
<1>1. CASE t.coupon
  <2> DEFINE u == [t EXCEPT !.pc = "validate"]
  <2>1. Quoting(t) = u
    BY <1>1 DEF Quoting
  <2>2. u \in Tasks
    BY DEF Good, Tasks
  <2>3. u.pc = "validate" /\ u.took = {} /\ u.sweep = t.sweep /\ u.claim = "none"
    BY DEF Good, Tasks
  <2> HIDE DEF u
  <2> QED BY <2>1, <2>2, <2>3 DEF Good, TaskOK, OfOrder
<1>2. CASE ~t.coupon
  BY <1>2, TakingGood DEF Quoting
<1> QED BY <1>1, <1>2

\* What a failed create() still owes: lines to undo, or only its redemption.
LEMMA ReleasedGood ==
  ASSUME NEW n \in 0..MaxOrders, NEW l, NEW r, Good(task[r], n, l)
  PROVE  /\ Good(Released(r), n, l) /\ Released(r).took = {}
         /\ task[r].claim = "reserved" => Released(r).pc = "release" /\ Released(r).claim = "reserved"
         /\ task[r].claim # "reserved" => Released(r) = Idle
<1>0. n \in Nat
  BY BoundsOK
<1>1. CASE task[r].claim = "reserved"
  <2> DEFINE u == [Idle EXCEPT !.pc = "release", !.claim = "reserved"]
  <2>1. Released(r) = u
    BY <1>1 DEF Released
  <2>2. u \in Tasks
    BY <1>0, IdleGood, ZenonT(40) DEF Good, Tasks, Claims
  <2>3. u.pc = "release" /\ u.took = {} /\ u.sweep = {} /\ u.claim = "reserved"
    BY DEF Idle
  <2>4. l # NoLimit
    BY <1>1 DEF Good, TaskOK
  <2> HIDE DEF u
  <2> QED BY <1>1, <2>1, <2>2, <2>3, <2>4 DEF Good, TaskOK, OfOrder
<1>2. CASE task[r].claim # "reserved"
  BY <1>0, <1>2, IdleGood DEF Released, EmptyHanded
<1> QED BY <1>1, <1>2

LEMMA UndoGood ==
  ASSUME NEW n \in 0..MaxOrders, NEW l, NEW r, Good(task[r], n, l)
  PROVE  /\ Good(Undo(r), n, l) /\ Undo(r).took = task[r].took
         /\ Undo(r).pc \in {"undo", "release", "idle"}
         /\ task[r].claim = "reserved" => Undo(r).claim = "reserved" /\ Undo(r).pc # "idle"
         /\ task[r].claim # "reserved" => Undo(r).claim # "reserved"
<1>1. CASE task[r].took = {}
  BY <1>1, ReleasedGood DEF Undo, Idle
<1>2. CASE task[r].took # {}
  <2> DEFINE u == [task[r] EXCEPT !.pc = "undo", !.todo = task[r].took]
  <2>1. Undo(r) = u
    BY <1>2 DEF Undo
  <2>2. u \in Tasks
    BY TaskFields DEF Good, Tasks
  <2>3. /\ u.pc = "undo" /\ u.took = task[r].took /\ u.sweep = task[r].sweep
        /\ u.claim = task[r].claim /\ u.todo = u.took
    BY DEF Good, Tasks
  <2> HIDE DEF u
  <2> QED BY <2>1, <2>2, <2>3 DEF Good, TaskOK, OfOrder
<1> QED BY <1>1, <1>2

-------------------------------------------------------------------------------
(* How a step changes requests and orders.                                   *)

\* The type of everything but the orders and the requests.
RestOK ==
  /\ stock \in [Skus -> Int] /\ limit \in Limits /\ usage \in Nat
  /\ cart \in [Buyers -> SUBSET Skus] /\ owner \in [Requests -> Buyers]
  /\ baskets \in 0..MaxBaskets /\ notices \in 0..MaxNotices /\ failures \in 0..MaxFailures
  /\ cutShort \in BOOLEAN /\ raced \in BOOLEAN /\ lateSale \in BOOLEAN

\* Nobody comes to record a redemption or to report a payment.
NoNews == \A q \in Requests : task'[q].pc \in {"usage", "payFlip"} => task'[q] = task[q]

LEMMA BecomeShape ==
  ASSUME TypeOK, TasksOK, NEW r \in Requests, NEW t, Become(r, t), Good(t, placed', limit),
         limit' = limit, placed' \in 0..MaxOrders, placed' >= placed
  PROVE  task' \in [Requests -> Tasks] /\ TasksOK'
<1>1. task' \in [Requests -> Tasks]
  BY DEF TypeOK, Become, Good
<1>2. ASSUME NEW q \in Requests PROVE TaskOK(task'[q], placed', limit')
  <2>1. CASE q = r
    BY <2>1 DEF TypeOK, Become, Good
  <2>2. CASE q # r
    <3>1. task'[q] = task[q] /\ TaskOK(task[q], placed, limit)
      BY <2>2 DEF TypeOK, Become, TasksOK
    <3>2. 1..placed \subseteq 1..placed'
      BY BoundsOK DEF TypeOK
    <3> QED BY <3>1, <3>2 DEF TaskOK
  <2> QED BY <2>1, <2>2
<1> QED BY <1>1, <1>2 DEF TasksOK

LEMMA BecomeNoNews ==
  ASSUME TypeOK, NEW r \in Requests, NEW t, Become(r, t), t.pc \notin {"usage", "payFlip"}
  PROVE  NoNews
BY DEF TypeOK, Become, NoNews

\* A row that changes in what no redemption and no write-off depends on, or
\* gets settled.
Amends(o, x) ==
  /\ orders' = [orders EXCEPT ![o] = x]
  /\ x \in Orders /\ x.row = orders[o].row /\ x.freed = orders[o].freed
  /\ x.claim = orders[o].claim /\ x.lines = orders[o].lines
  /\ x.pay \in {orders[o].pay, "failed", "paid"}

LEMMA AmendedOrders ==
  ASSUME TypeOK, TasksOK, OrdersOK, SeenFailed, Unrecorded, NoNews,
         NEW o \in 1..placed, NEW x, Amends(o, x), UNCHANGED <<placed, limit>>
  PROVE  /\ orders' \in [OrderIds -> Orders] /\ OrdersOK' /\ SeenFailed' /\ Unrecorded'
<1>0. o \in OrderIds /\ o <= placed /\ placed \in Nat
  BY BoundsOK DEF TypeOK, OrderIds
<1>1. orders' \in [OrderIds -> Orders]
  BY <1>0 DEF TypeOK, Amends
<1>2. \A p \in OrderIds : p # o => orders'[p] = orders[p]
  BY DEF TypeOK, Amends
<1>3. orders'[o] = x
  BY <1>0 DEF TypeOK, Amends
<1>4. OrdersOK'
  <2>1. /\ x.pay # "none"
        /\ x.row => ~x.freed /\ x.claim # "none"
        /\ x.claim = "unlimited" => limit = NoLimit
    BY <1>0 DEF OrdersOK, Amends
  <2>2. ASSUME NEW p \in OrderIds
        PROVE  /\ p > placed => orders'[p] = NoOrder
               /\ p <= placed => orders'[p].pay # "none"
               /\ orders'[p].row => ~orders'[p].freed /\ orders'[p].claim # "none"
               /\ orders'[p].claim = "unlimited" => limit = NoLimit
    <3>1. CASE p = o
      <4>1. ~(o > placed)
        BY <1>0
      <4> QED BY <1>3, <2>1, <3>1, <4>1
    <3>2. CASE p # o
      BY <1>2, <3>2 DEF OrdersOK
    <3> QED BY <3>1, <3>2
  <2> QED BY <2>2 DEF OrdersOK
<1>5. \A p \in OrderIds : /\ orders'[p].row = orders[p].row /\ orders'[p].freed = orders[p].freed
                          /\ orders'[p].claim = orders[p].claim
                          /\ orders'[p].pay \in {orders[p].pay, "failed", "paid"}
  BY <1>2, <1>3 DEF Amends
<1>6. ASSUME NEW q \in Requests, task'[q].pc \in {"usage", "payFlip"}
      PROVE  task'[q] = task[q] /\ task[q].order \in OrderIds
  <2>1. task'[q] = task[q]
    BY <1>6 DEF NoNews
  <2>2. task[q].order \in 1..placed
    BY <1>6, <2>1 DEF TasksOK, TaskOK, OfOrder
  <2> QED BY <1>0, <2>1, <2>2, BoundsOK DEF OrderIds, TypeOK
<1>7. SeenFailed'
  BY <1>5, <1>6 DEF SeenFailed, At, Order
<1>8. Unrecorded'
  BY <1>5, <1>6 DEF Unrecorded, At, Order
<1> QED BY <1>1, <1>4, <1>7, <1>8

LEMMA SameOrders ==
  ASSUME TypeOK, OrdersOK, SeenFailed, Unrecorded, NoNews, UNCHANGED <<orders, placed, limit>>
  PROVE  /\ orders' \in [OrderIds -> Orders] /\ OrdersOK' /\ SeenFailed' /\ Unrecorded'
<1>1. orders' \in [OrderIds -> Orders] /\ OrdersOK'
  BY DEF TypeOK, OrdersOK
<1>2. SeenFailed'
  BY DEF SeenFailed, At, Order, NoNews
<1>3. Unrecorded'
  BY DEF Unrecorded, At, Order, NoNews
<1> QED BY <1>1, <1>2, <1>3

LEMMA ShapeParts ==
  ASSUME RestOK', task' \in [Requests -> Tasks], orders' \in [OrderIds -> Orders],
         placed' \in 0..MaxOrders, TasksOK', OrdersOK', SeenFailed', Unrecorded', NoOversell'
  PROVE  Shape'
BY DEF Shape, TypeOK, RestOK

\* A request that moves on while the orders stay, or one of them is amended.
LEMMA PlainStep ==
  ASSUME Shape, NEW r \in Requests, NEW t, Become(r, t), Good(t, placed, limit),
         t.pc \notin {"usage", "payFlip"}, UNCHANGED <<orders, placed, limit>>,
         RestOK', NoOversell'
  PROVE  Shape'
<1>1. placed \in 0..MaxOrders /\ placed >= placed
  BY BoundsOK DEF Shape, TypeOK
<1>2. task' \in [Requests -> Tasks] /\ TasksOK'
  BY <1>1, BecomeShape DEF Shape
<1>3. NoNews
  BY BecomeNoNews DEF Shape
<1> QED BY <1>1, <1>2, <1>3, SameOrders, ShapeParts DEF Shape

LEMMA AmendStep ==
  ASSUME Shape, NEW r \in Requests, NEW t, Become(r, t), Good(t, placed, limit),
         t.pc \notin {"usage", "payFlip"}, UNCHANGED <<placed, limit>>,
         NEW o \in 1..placed, NEW x, Amends(o, x), RestOK', NoOversell'
  PROVE  Shape'
<1>1. placed \in 0..MaxOrders /\ placed >= placed
  BY BoundsOK DEF Shape, TypeOK
<1>2. task' \in [Requests -> Tasks] /\ TasksOK'
  BY <1>1, BecomeShape DEF Shape
<1>3. NoNews
  BY BecomeNoNews DEF Shape
<1> QED BY <1>1, <1>2, <1>3, AmendedOrders, ShapeParts DEF Shape

-------------------------------------------------------------------------------
(* Stock, counters and flags.                                                *)

LEMMA NoticeKeeps ==
  ASSUME TypeOK, NEW r, NEW o, NEW t, Notice(r, o, t)
  PROVE  /\ notices' \in 0..MaxNotices
         /\ UNCHANGED <<stock, limit, usage, cart, owner, baskets, failures, cutShort, raced, lateSale>>
<1>1. notices' \in 0..MaxNotices
  BY BoundsOK DEF TypeOK, Notice
<1> QED BY <1>1 DEF Notice, promotion, faults, history

LEMMA CutKeeps ==
  ASSUME TypeOK, NEW b \in BOOLEAN, Cut(b)
  PROVE  /\ failures' \in 0..MaxFailures /\ cutShort' \in BOOLEAN
         /\ cutShort' <=> cutShort \/ b
         /\ UNCHANGED <<stock, limit, usage, cart, owner, baskets, notices, orders, placed,
                        raced, lateSale>>
<1>1. failures' \in 0..MaxFailures
  BY BoundsOK DEF TypeOK, Cut
<1>2. cutShort' \in BOOLEAN /\ (cutShort' <=> cutShort \/ b)
  BY DEF TypeOK, Cut
<1> QED BY <1>1, <1>2 DEF Cut, promotion, carts, book, history

LEMMA FailKeeps ==
  ASSUME TypeOK, NEW r \in Requests, Fail(r)
  PROVE  \E b \in BOOLEAN : Cut(b)
<1>1. CASE CreateThrows(r) \/ UsageThrows(r)
  BY <1>1 DEF CreateThrows, UsageThrows
<1>2. CASE FailThrows(r)
  <2>1. At(r, "restore") \in BOOLEAN
    BY DEF At
  <2> QED BY <1>2, <2>1 DEF FailThrows
<1>3. CASE CouponThrows(r)
  <2>1. At(r, "free") \in BOOLEAN
    BY DEF At
  <2> QED BY <1>3, <2>1 DEF CouponThrows
<1>4. CASE Interrupt(r)
  <2> DEFINE b == task[r].pc \in {"stock", "row", "undo", "release", "restore", "free", "retake"}
  <2>1. b \in BOOLEAN /\ Cut(b)
    BY <1>4 DEF Interrupt
  <2> QED BY <2>1
<1>5. CASE \E i \in Skus : LineThrows(r, i)
  BY <1>5 DEF LineThrows
<1> QED BY <1>1, <1>2, <1>3, <1>4, <1>5 DEF Fail

\* Statements of Proceed that leave stock and redemptions alone.
LEMMA QuietKeeps ==
  ASSUME TypeOK, NEW r \in Requests,
         \/ ReadCart(r) \/ ValidateCoupon(r) \/ CreateOrder(r) \/ RecordUsage(r)
         \/ LinkOrder(r) \/ FailRead(r) \/ FailFlip(r)
         \/ FindUsage(r) \/ DeleteUsage(r) \/ Unlink(r) \/ Relink(r)
  PROVE  UNCHANGED <<stock, limit, usage, cart, owner, baskets, notices, failures, cutShort,
                     raced, lateSale>>
BY DEF ReadCart, ValidateCoupon, CreateOrder, RecordUsage, LinkOrder, FailRead, FailFlip,
       FindUsage, DeleteUsage, Unlink, Relink, promotion, carts, faults, history

LEMMA RestStep ==
  ASSUME TypeOK, [Next]_vars
  PROVE  RestOK' /\ limit' = limit
<1>0. RestOK
  BY DEF TypeOK, RestOK
<1>1. ASSUME UNCHANGED <<stock, limit, usage, cart, owner, baskets, notices, failures, cutShort,
                         raced, lateSale>>
      PROVE  RestOK' /\ limit' = limit
  BY <1>0, <1>1 DEF RestOK
<1>2. ASSUME NEW b \in Buyers, NEW lines \in SUBSET Skus, FillCart(b, lines)
      PROVE  RestOK' /\ limit' = limit
  <2>1. baskets' \in 0..MaxBaskets
    BY <1>2, BoundsOK DEF TypeOK, FillCart
  <2>2. cart' \in [Buyers -> SUBSET Skus]
    BY <1>2 DEF TypeOK, FillCart
  <2> QED BY <1>0, <1>2, <2>1, <2>2 DEF FillCart, RestOK, promotion, faults, history
<1>3. ASSUME NEW o \in OrderIds, Age(o) PROVE RestOK' /\ limit' = limit
  BY <1>1, <1>3 DEF Age, promotion, carts, faults, history
<1>4. ASSUME NEW r \in Requests, Start(r) PROVE RestOK' /\ limit' = limit
  <2>1. ASSUME NEW coupon \in BOOLEAN, CartCheckout(r, coupon) PROVE RestOK' /\ limit' = limit
    BY <1>1, <2>1 DEF CartCheckout, promotion, carts, faults, history
  <2>2. ASSUME NEW coupon \in BOOLEAN, NEW lines \in SUBSET Skus, SnapshotCheckout(r, lines, coupon)
        PROVE  RestOK' /\ limit' = limit
    <3>1. baskets' \in 0..MaxBaskets
      BY <2>2, BoundsOK DEF TypeOK, SnapshotCheckout
    <3> QED BY <1>0, <2>2, <3>1 DEF SnapshotCheckout, RestOK, promotion, faults, history
  <2>3. ASSUME NEW o \in OrderIds, NEW t, Notice(r, o, t) PROVE RestOK' /\ limit' = limit
    BY <1>0, <2>3, NoticeKeeps DEF RestOK
  <2> QED BY <1>4, <2>1, <2>2, <2>3 DEF Start, ReportPaid, ReportFailed, Detach
<1>5. ASSUME NEW r \in Requests, Proceed(r) PROVE RestOK' /\ limit' = limit
  <2>1. CASE \/ ReadCart(r) \/ ValidateCoupon(r) \/ CreateOrder(r) \/ RecordUsage(r)
             \/ LinkOrder(r) \/ FailRead(r) \/ FailFlip(r)
             \/ FindUsage(r) \/ DeleteUsage(r) \/ Unlink(r) \/ Relink(r)
    BY <1>1, <2>1, QuietKeeps
  <2>2. CASE ClaimRedemption(r)
    <3>1. usage' \in Nat
      BY <2>2 DEF TypeOK, ClaimRedemption
    <3> QED BY <1>0, <2>2, <3>1 DEF ClaimRedemption, RestOK, carts, faults, history
  <2>3. CASE ReleaseRedemption(r)
    <3>1. usage' \in Nat
      BY <2>3 DEF TypeOK, ReleaseRedemption
    <3> QED BY <1>0, <2>3, <3>1 DEF ReleaseRedemption, RestOK, carts, faults, history
  <2>4. CASE CountUsage(r)
    <3>1. usage' \in Nat
      BY <2>4 DEF TypeOK, CountUsage
    <3> QED BY <1>0, <2>4, <3>1 DEF CountUsage, RestOK, carts, faults, history
  <2>5. CASE EmptyCart(r)
    <3>1. cart' \in [Buyers -> SUBSET Skus]
      BY <2>5 DEF TypeOK, EmptyCart
    <3> QED BY <1>0, <2>5, <3>1 DEF EmptyCart, RestOK, promotion, faults, history
  <2>6. CASE PayFlip(r)
    <3>1. raced' \in BOOLEAN
      BY <2>6 DEF TypeOK, PayFlip
    <3> QED BY <1>0, <2>6, <3>1 DEF PayFlip, RestOK, promotion, carts, faults
  <2>7. ASSUME NEW i \in Skus, TakeStock(r, i) \/ UndoLine(r, i) \/ RestoreLine(r, i)
        PROVE  RestOK' /\ limit' = limit
    <3>1. stock[i] \in Int /\ stock[i] - 1 \in Int /\ stock[i] + 1 \in Int
      BY DEF TypeOK
    <3>2. \/ stock' = stock \/ stock' = [stock EXCEPT ![i] = stock[i] - 1]
          \/ stock' = [stock EXCEPT ![i] = stock[i] + 1]
      BY <2>7 DEF TakeStock, UndoLine, RestoreLine
    <3>3. stock' \in [Skus -> Int]
      BY <3>1, <3>2 DEF TypeOK
    <3> QED BY <1>0, <2>7, <3>3
            DEF TakeStock, UndoLine, RestoreLine, RestOK, promotion, carts, faults, history
  <2>8. ASSUME NEW i \in Skus, RetakeLine(r, i) PROVE RestOK' /\ limit' = limit
    <3>1. stock' \in [Skus -> Int]
      BY <2>8 DEF TypeOK, RetakeLine
    <3> QED BY <1>0, <2>8, <3>1 DEF RetakeLine, RestOK, promotion, carts, faults
  <2> QED BY <1>5, <2>1, <2>2, <2>3, <2>4, <2>5, <2>6, <2>7, <2>8 DEF Proceed
<1>6. ASSUME NEW r \in Requests, Fail(r) PROVE RestOK' /\ limit' = limit
  BY <1>0, <1>6, FailKeeps, CutKeeps DEF RestOK
<1>7. CASE UNCHANGED vars
  BY <1>1, <1>7 DEF vars
<1> QED BY <1>2, <1>3, <1>4, <1>5, <1>6, <1>7 DEF Next

\* create() takes a unit only where there is one; only late payments do not look.
LEMMA NoOversellStep ==
  ASSUME TypeOK, NoOversell, [Next]_vars
  PROVE  NoOversell'
<1>1. CASE UNCHANGED <<stock, lateSale>>
  BY <1>1 DEF NoOversell
<1>2. ASSUME NEW r \in Requests, NEW i \in Skus, TakeStock(r, i) \/ UndoLine(r, i) \/ RestoreLine(r, i)
      PROVE  NoOversell'
  <2>1. lateSale' = lateSale
    BY <1>2 DEF TakeStock, UndoLine, RestoreLine, history
  <2>2. stock[i] \in Int /\ \A s \in Skus : s # i => stock'[s] = stock[s]
    BY <1>2 DEF TypeOK, TakeStock, UndoLine, RestoreLine
  <2>3. CASE TakeStock(r, i)
    <3>1. stock'[i] = stock[i] \/ (stock[i] >= 1 /\ stock'[i] = stock[i] - 1)
      BY <2>3 DEF TypeOK, TakeStock
    <3> QED BY <2>1, <2>2, <3>1 DEF NoOversell
  <2>4. CASE UndoLine(r, i) \/ RestoreLine(r, i)
    <3>1. stock'[i] = stock[i] + 1
      BY <2>4 DEF TypeOK, UndoLine, RestoreLine
    <3> QED BY <2>1, <2>2, <3>1 DEF NoOversell
  <2> QED BY <1>2, <2>3, <2>4
<1>3. ASSUME NEW r \in Requests, NEW i \in Skus, RetakeLine(r, i) PROVE NoOversell'
  BY <1>3 DEF RetakeLine, NoOversell
<1>4. ASSUME NEW r \in Requests, Fail(r) PROVE NoOversell'
  BY <1>1, <1>4, FailKeeps, CutKeeps
<1>5. ASSUME NEW r \in Requests, Proceed(r) PROVE NoOversell'
  <2>1. CASE \/ ReadCart(r) \/ ValidateCoupon(r) \/ CreateOrder(r) \/ RecordUsage(r)
             \/ LinkOrder(r) \/ FailRead(r) \/ FailFlip(r)
             \/ FindUsage(r) \/ DeleteUsage(r) \/ Unlink(r) \/ Relink(r)
    BY <1>1, <2>1, QuietKeeps
  <2>2. CASE \/ ClaimRedemption(r) \/ ReleaseRedemption(r) \/ CountUsage(r) \/ EmptyCart(r)
             \/ PayFlip(r)
    BY <1>1, <2>2 DEF ClaimRedemption, ReleaseRedemption, CountUsage, EmptyCart, PayFlip, history
  <2> QED BY <1>2, <1>3, <1>5, <2>1, <2>2 DEF Proceed
<1>6. ASSUME NEW r \in Requests, Start(r) PROVE NoOversell'
  <2>1. ASSUME NEW coupon \in BOOLEAN,
               CartCheckout(r, coupon) \/ \E lines \in SUBSET Skus : SnapshotCheckout(r, lines, coupon)
        PROVE  NoOversell'
    BY <1>1, <2>1 DEF CartCheckout, SnapshotCheckout, history
  <2>2. ASSUME NEW o \in OrderIds, NEW t, Notice(r, o, t) PROVE NoOversell'
    BY <1>1, <2>2, NoticeKeeps
  <2> QED BY <1>6, <2>1, <2>2 DEF Start, ReportPaid, ReportFailed, Detach
<1>7. CASE \/ \E b \in Buyers, lines \in SUBSET Skus : FillCart(b, lines)
           \/ \E o \in OrderIds : Age(o)
  BY <1>1, <1>7 DEF FillCart, Age, history
<1>8. CASE UNCHANGED vars
  BY <1>1, <1>8 DEF vars
<1> QED BY <1>4, <1>5, <1>6, <1>7, <1>8 DEF Next

-------------------------------------------------------------------------------
(* Steps that neither give nor take: most statements of a request.           *)

LEMMA GoodTask ==
  ASSUME Shape, NEW r \in Requests
  PROVE  /\ Good(task[r], placed, limit) /\ task[r] \in Tasks
         /\ placed \in 0..MaxOrders /\ placed \in Nat
         /\ task[r].pc \notin {"stock", "row", "undo"} => task[r].took = {}
         /\ task[r].pc \notin Owing => EmptyHanded(task[r])
         /\ task[r].pc \in OfOrder => task[r].order \in 1..placed
<1>1. Good(task[r], placed, limit) /\ task[r] \in Tasks
  BY DEF Shape, TypeOK, TasksOK, Good
<1>2. placed \in 0..MaxOrders /\ placed \in Nat
  BY BoundsOK DEF Shape, TypeOK
<1>3. /\ task[r].pc \notin {"stock", "row", "undo"} => task[r].took = {}
      /\ task[r].pc \in OfOrder => task[r].order \in 1..placed
  BY DEF Shape, TasksOK, TaskOK
<1> QED BY <1>1, <1>2, <1>3 DEF EmptyHanded, Owing

LEMMA OrderRow ==
  ASSUME Shape, NEW o \in 1..placed
  PROVE  o \in OrderIds /\ orders[o] \in Orders /\ orders[o].pay # "none"
<1>1. o \in OrderIds /\ o <= placed
  BY BoundsOK DEF Shape, TypeOK, OrderIds
<1> QED BY <1>1 DEF Shape, TypeOK, OrdersOK

\* A row whose link or age changes.
LEMMA TiedRow ==
  ASSUME Shape, NEW o \in 1..placed, NEW link \in {"card", "unlinked", "linked", "detaching"},
         orders' = [orders EXCEPT ![o].link = link]
  PROVE  \E x : Amends(o, x) /\ x.pay = orders[o].pay
<1> DEFINE x == [orders[o] EXCEPT !.link = link]
<1>1. orders[o] \in Orders /\ o \in OrderIds
  BY OrderRow
<1>2. x \in Orders
  BY <1>1 DEF Orders
<1>3. /\ x.row = orders[o].row /\ x.freed = orders[o].freed /\ x.claim = orders[o].claim
      /\ x.lines = orders[o].lines /\ x.pay = orders[o].pay
  BY <1>1 DEF Orders
<1>4. orders' = [orders EXCEPT ![o] = x]
  OBVIOUS
<1> HIDE DEF x
<1> QED BY <1>2, <1>3, <1>4 DEF Amends

LEMMA AgedRow ==
  ASSUME Shape, NEW o \in 1..placed, orders' = [orders EXCEPT ![o].aged = TRUE]
  PROVE  \E x : Amends(o, x) /\ x.pay = orders[o].pay
<1> DEFINE x == [orders[o] EXCEPT !.aged = TRUE]
<1>1. orders[o] \in Orders /\ o \in OrderIds
  BY OrderRow
<1>2. x \in Orders
  BY <1>1 DEF Orders
<1>3. /\ x.row = orders[o].row /\ x.freed = orders[o].freed /\ x.claim = orders[o].claim
      /\ x.lines = orders[o].lines /\ x.pay = orders[o].pay
  BY <1>1 DEF Orders
<1>4. orders' = [orders EXCEPT ![o] = x]
  OBVIOUS
<1> HIDE DEF x
<1> QED BY <1>2, <1>3, <1>4 DEF Amends

LEMMA SettledRow ==
  ASSUME Shape, NEW o \in 1..placed, NEW pay \in {"failed", "paid"},
         orders' = [orders EXCEPT ![o].pay = pay]
  PROVE  \E x : Amends(o, x) /\ x.pay = pay
<1> DEFINE x == [orders[o] EXCEPT !.pay = pay]
<1>1. orders[o] \in Orders /\ o \in OrderIds
  BY OrderRow
<1>2. x \in Orders
  BY <1>1 DEF Orders, PayStatus
<1>3. /\ x.row = orders[o].row /\ x.freed = orders[o].freed /\ x.claim = orders[o].claim
      /\ x.lines = orders[o].lines /\ x.pay = pay
  BY <1>1 DEF Orders
<1>4. orders' = [orders EXCEPT ![o] = x]
  OBVIOUS
<1> HIDE DEF x
<1> QED BY <1>2, <1>3, <1>4 DEF Amends

OrdersTied ==
  \/ UNCHANGED orders
  \/ \E o \in 1..placed : \E x : Amends(o, x) /\ x.pay = orders[o].pay

\* Request r moves on, empty-handed before and after.
Light(r) ==
  /\ EmptyHanded(task[r])
  /\ \E t : /\ Become(r, t) /\ Good(t, placed, limit) /\ EmptyHanded(t)
            /\ t.pc \notin {"usage", "payFlip"}
  /\ UNCHANGED <<stock, limit, usage, placed, raced, lateSale, cutShort>>
  /\ OrdersTied

LEMMA LightMove ==
  ASSUME NEW r \in Requests, EmptyHanded(task[r]), NEW t, Become(r, t), Good(t, placed, limit),
         EmptyHanded(t), t.pc \notin {"usage", "payFlip"}, OrdersTied,
         UNCHANGED <<stock, limit, usage, placed, raced, lateSale, cutShort>>
  PROVE  Light(r)
BY DEF Light

LEMMA LightShape ==
  ASSUME Shape, NEW r \in Requests, Light(r), RestOK', NoOversell'
  PROVE  Shape'
<1>1. PICK t : /\ Become(r, t) /\ Good(t, placed, limit) /\ t.pc \notin {"usage", "payFlip"}
  BY DEF Light
<1>2. UNCHANGED <<placed, limit>>
  BY DEF Light
<1>3. CASE UNCHANGED orders
  BY <1>1, <1>2, <1>3, PlainStep
<1>4. CASE \E o \in 1..placed : \E x : Amends(o, x)
  BY <1>1, <1>2, <1>4, AmendStep
<1> QED BY <1>3, <1>4 DEF Light, OrdersTied

LEMMA CutNothing ==
  ASSUME TypeOK, Cut(FALSE)
  PROVE  UNCHANGED <<stock, limit, usage, orders, placed, raced, lateSale, cutShort>>
<1>1. cutShort' = (cutShort \/ FALSE) /\ cutShort \in BOOLEAN
  BY DEF Cut, TypeOK
<1>2. cutShort' = cutShort
  BY <1>1
<1> QED BY <1>2, CutKeeps

\* A request about an order turns to another light stage.
LEMMA LightStarts ==
  ASSUME Shape, NEW r \in Requests,
         \/ \E coupon \in BOOLEAN : CartCheckout(r, coupon)
         \/ \E o \in OrderIds : ReportFailed(r, o) \/ Detach(r, o)
  PROVE  Light(r)
<1>0. EmptyHanded(task[r])
  BY GoodTask DEF CartCheckout, ReportFailed, Detach, Notice, At, Owing
<1>1. ASSUME NEW coupon \in BOOLEAN, CartCheckout(r, coupon) PROVE Light(r)
  <2> DEFINE due == {o \in OrderIds : orders[o].pay = "awaiting_payment" /\ orders[o].aged}
             c == [Idle EXCEPT !.coupon = coupon]
             t == SweepOn(c, due)
  <2>1. due \subseteq 1..placed
    <3>1. ASSUME NEW o \in OrderIds, orders[o].pay = "awaiting_payment" PROVE o \in 1..placed
      <4>1. ~(o > placed)
        BY <3>1 DEF Shape, OrdersOK, NoOrder
      <4> QED BY <4>1, GoodTask, BoundsOK DEF OrderIds
    <3> QED BY <3>1
  <2>2. c \in Tasks
    BY GoodTask, IdleGood DEF Good, Tasks
  <2>3. Become(r, t) /\ OrdersTied
    BY <1>1 DEF CartCheckout, OrdersTied, book
  <2>4. UNCHANGED <<stock, limit, usage, placed, raced, lateSale, cutShort>>
    BY <1>1 DEF CartCheckout, book, promotion, history, faults
  <2> HIDE DEF due, c
  <2>5. placed \in 0..MaxOrders
    BY GoodTask
  <2>6. Good(t, placed, limit) /\ EmptyHanded(t) /\ t.pc \in {"cart", "failRead"}
    BY <2>1, <2>2, <2>5, SweepOnGood
  <2> HIDE DEF t
  <2> QED BY <1>0, <2>3, <2>4, <2>6, LightMove
<1>2. ASSUME NEW o \in OrderIds, orders[o].pay # "none" PROVE o \in 1..placed
  <2>1. ~(o > placed)
    BY <1>2 DEF Shape, OrdersOK, NoOrder
  <2> QED BY <2>1, GoodTask, BoundsOK DEF OrderIds
<1>3. ASSUME NEW o \in OrderIds, ReportFailed(r, o) PROVE Light(r)
  <2> DEFINE c == [Idle EXCEPT !.kind = "failed", !.order = o]
             t == ReadForFail(c)
  <2>0. orders[o].pay # "none"
    BY <1>3 DEF ReportFailed, Notice
  <2>1. o \in 1..placed /\ o \in 0..MaxOrders
    BY <1>2, <2>0, BoundsOK DEF OrderIds
  <2>2. c.took = {} /\ c.order = o /\ c.pc = "idle" /\ c.sweep = {} /\ c.claim = "none"
    BY DEF Idle
  <2>3. c \in Tasks
    BY <2>1, GoodTask, IdleGood DEF Good, Tasks
  <2>4. Become(r, t) /\ OrdersTied
    BY <1>3 DEF ReportFailed, Notice, OrdersTied
  <2>5. UNCHANGED <<stock, limit, usage, placed, raced, lateSale, cutShort>>
    BY <1>3 DEF ReportFailed, Notice, promotion, history, faults
  <2> HIDE DEF c
  <2>6. Good(c, placed, limit)
    BY <2>2, <2>3 DEF Good, TaskOK, OfOrder
  <2>7. Good(t, placed, limit) /\ EmptyHanded(t) /\ t.pc \notin {"usage", "payFlip"}
    BY <2>1, <2>2, <2>6, GoodTask, ReadForFailGood
  <2> HIDE DEF t
  <2> QED BY <1>0, <2>4, <2>5, <2>7, LightMove
<1>4. ASSUME NEW o \in OrderIds, Detach(r, o) PROVE Light(r)
  <2> DEFINE t == [Idle EXCEPT !.pc = "failRead", !.kind = "detach", !.order = o]
  <2>0. orders[o].pay # "none"
    BY <1>4 DEF Detach
  <2>1. o \in 1..placed /\ o \in 0..MaxOrders
    BY <1>2, <2>0, BoundsOK DEF OrderIds
  <2>2. t.took = {} /\ t.order = o /\ t.pc = "failRead" /\ t.sweep = {} /\ t.claim = "none"
    BY DEF Idle
  <2>3. t \in Tasks
    BY <2>1, GoodTask, IdleGood DEF Good, Tasks
  <2>4. Become(r, t)
    BY <1>4 DEF Detach, Notice
  <2>5. OrdersTied
    BY <1>4, <2>1, TiedRow DEF Detach, OrdersTied
  <2>6. UNCHANGED <<stock, limit, usage, placed, raced, lateSale, cutShort>>
    BY <1>4 DEF Detach, Notice, promotion, history, faults
  <2> HIDE DEF t
  <2>7. Good(t, placed, limit) /\ EmptyHanded(t)
    BY <2>1, <2>2, <2>3 DEF Good, TaskOK, OfOrder, EmptyHanded, Owing
  <2> QED BY <1>0, <2>2, <2>4, <2>5, <2>6, <2>7, LightMove
<1> QED BY <1>1, <1>3, <1>4

\* The statements of a request that only read, link, or find nothing to do.
LEMMA LightProceeds ==
  ASSUME Shape, NEW r \in Requests,
         \/ ValidateCoupon(r) \/ EmptyCart(r) \/ LinkOrder(r) \/ FailRead(r)
         \/ FailFlip(r) /\ Order(r).pay \in {"paid", "failed"}
         \/ FindUsage(r)
         \/ DeleteUsage(r) /\ ~Order(r).row
         \/ Unlink(r) \/ Relink(r)
         \/ PayFlip(r) /\ Order(r).pay = "paid"
  PROVE  Light(r)
<1>0. /\ EmptyHanded(task[r]) /\ task[r].took = {}
      /\ task[r] \in Tasks /\ Good(task[r], placed, limit) /\ placed \in 0..MaxOrders
      /\ placed \in Nat
      /\ task[r].pc \in OfOrder => task[r].order \in 1..placed
  BY GoodTask
  DEF ValidateCoupon, EmptyCart, LinkOrder, FailRead, FailFlip, FindUsage, DeleteUsage,
      Unlink, Relink, PayFlip, At, Owing
<1>i. Good(Idle, placed, limit) /\ EmptyHanded(Idle) /\ Idle.pc \notin {"usage", "payFlip"}
  BY <1>0, IdleGood DEF Idle
<1>c. AfterCoupon(r) = AfterCoupon(r) /\ (task[r].pc \in OfOrder =>
        /\ Good(AfterCoupon(r), placed, limit) /\ EmptyHanded(AfterCoupon(r))
        /\ AfterCoupon(r).pc \notin {"usage", "payFlip"})
  BY <1>0, AfterCouponGood
<1>1. CASE ValidateCoupon(r)
  <2> DEFINE t == [task[r] EXCEPT !.pc = "claim"]
  <2>1. t \in Tasks
    BY <1>0 DEF Tasks
  <2>2. t.took = {} /\ t.pc = "claim" /\ t.sweep = task[r].sweep /\ t.claim = task[r].claim
    BY <1>0 DEF Tasks
  <2>3. Become(r, Idle) \/ Become(r, t)
    BY <1>1 DEF ValidateCoupon, Goto
  <2>4. /\ UNCHANGED <<stock, limit, usage, placed, raced, lateSale, cutShort>> /\ OrdersTied
    BY <1>1 DEF ValidateCoupon, promotion, history, faults, book, OrdersTied
  <2> HIDE DEF t
  <2>5. Good(t, placed, limit) /\ EmptyHanded(t)
    BY <1>0, <2>1, <2>2 DEF Good, TaskOK, OfOrder, EmptyHanded, Owing
  <2> QED BY <1>0, <1>i, <2>2, <2>3, <2>4, <2>5, LightMove
<1>2. CASE EmptyCart(r)
  <2>1. UNCHANGED <<stock, limit, usage, placed, raced, lateSale, cutShort>> /\ OrdersTied
    BY <1>2 DEF EmptyCart, promotion, history, faults, book, OrdersTied
  <2> QED BY <1>0, <1>i, <1>2, <2>1, LightMove DEF EmptyCart
<1>3. CASE LinkOrder(r)
  <2>1. UNCHANGED <<stock, limit, usage, placed, raced, lateSale, cutShort>>
    BY <1>3 DEF LinkOrder, promotion, history, faults
  <2>2. task[r].order \in 1..placed
    BY <1>0, <1>3 DEF LinkOrder, At, OfOrder
  <2>3. CASE orders' = [orders EXCEPT ![task[r].order].link = "linked"] /\ Become(r, Idle)
    <3>1. OrdersTied
      BY <2>2, <2>3, TiedRow DEF OrdersTied
    <3> QED BY <1>0, <1>i, <2>1, <2>3, <3>1, LightMove
  <2>4. CASE UNCHANGED orders /\ Become(r, [Idle EXCEPT !.pc = "failRead", !.kind = "abandon",
                                                        !.order = task[r].order])
    <3> DEFINE t == [Idle EXCEPT !.pc = "failRead", !.kind = "abandon", !.order = task[r].order]
    <3>1. t \in Tasks
      BY <1>0, <1>i DEF Good, Tasks
    <3>2. t.took = {} /\ t.pc = "failRead" /\ t.sweep = {} /\ t.claim = "none" /\ t.order = task[r].order
      BY DEF Idle
    <3>3. Become(r, t) /\ OrdersTied
      BY <2>4 DEF OrdersTied
    <3> HIDE DEF t
    <3>4. Good(t, placed, limit) /\ EmptyHanded(t)
      BY <2>2, <3>1, <3>2 DEF Good, TaskOK, OfOrder, EmptyHanded, Owing
    <3> QED BY <1>0, <2>1, <3>2, <3>3, <3>4, LightMove
  <2> QED BY <1>3, <2>3, <2>4 DEF LinkOrder
<1>4. CASE FailRead(r)
  <2> DEFINE t == ReadForFail(task[r])
  <2>1. task[r].order \in 1..placed
    BY <1>0, <1>4 DEF FailRead, At, OfOrder
  <2>2. Good(t, placed, limit) /\ EmptyHanded(t) /\ t.pc \notin {"usage", "payFlip"}
    BY <1>0, <2>1, ReadForFailGood
  <2>3. Become(r, t) /\ OrdersTied
    BY <1>4 DEF FailRead, OrdersTied, book
  <2>4. UNCHANGED <<stock, limit, usage, placed, raced, lateSale, cutShort>>
    BY <1>4 DEF FailRead, promotion, history, faults, book
  <2> HIDE DEF t
  <2> QED BY <1>0, <2>2, <2>3, <2>4, LightMove
<1>5. CASE FailFlip(r) /\ Order(r).pay \in {"paid", "failed"}
  <2> DEFINE t == AfterFail(task[r], FALSE)
  <2>1. task[r].order \in 1..placed
    BY <1>0, <1>5 DEF FailFlip, At, OfOrder
  <2>2. Good(t, placed, limit) /\ EmptyHanded(t) /\ t.pc \notin {"usage", "payFlip"}
    BY <1>0, <2>1, AfterFailGood
  <2>3. Become(r, t) /\ OrdersTied
    BY <1>5 DEF FailFlip, OrdersTied
  <2>4. UNCHANGED <<stock, limit, usage, placed, raced, lateSale, cutShort>>
    BY <1>5 DEF FailFlip, promotion, history, faults
  <2> HIDE DEF t
  <2> QED BY <1>0, <2>2, <2>3, <2>4, LightMove
<1>6. CASE FindUsage(r)
  <2> DEFINE t == [task[r] EXCEPT !.pc = "couponDelete"]
  <2>1. task[r].order \in 1..placed /\ task[r].pc \in OfOrder
    BY <1>0, <1>6 DEF FindUsage, At, OfOrder
  <2>2. Good(t, placed, limit) /\ t.took = {} /\ t.pc = "couponDelete"
    BY <1>0, <2>1, StageGood
  <2>3. Become(r, t) \/ Become(r, AfterCoupon(r))
    BY <1>6 DEF FindUsage
  <2>4. UNCHANGED <<stock, limit, usage, placed, raced, lateSale, cutShort>> /\ OrdersTied
    BY <1>6 DEF FindUsage, promotion, history, faults, book, OrdersTied
  <2> HIDE DEF t
  <2>5. EmptyHanded(t) /\ t.pc \notin {"usage", "payFlip"}
    BY <2>2 DEF EmptyHanded, Owing
  <2> QED BY <1>0, <1>c, <2>1, <2>2, <2>3, <2>4, <2>5, LightMove
<1>7. CASE DeleteUsage(r) /\ ~Order(r).row
  <2>1. task[r].pc \in OfOrder
    BY <1>7 DEF DeleteUsage, At, OfOrder
  <2>2. Become(r, AfterCoupon(r)) /\ OrdersTied
    BY <1>7 DEF DeleteUsage, OrdersTied
  <2>3. UNCHANGED <<stock, limit, usage, placed, raced, lateSale, cutShort>>
    BY <1>7 DEF DeleteUsage, promotion, history, faults
  <2> QED BY <1>0, <1>c, <2>1, <2>2, <2>3, LightMove
<1>8. CASE Unlink(r)
  <2> DEFINE link == IF Order(r).pay = "failed" THEN "unlinked" ELSE Order(r).link
  <2>1. task[r].order \in 1..placed
    BY <1>0, <1>8 DEF Unlink, At, OfOrder
  <2>2. link \in {"card", "unlinked", "linked", "detaching"}
    BY <2>1, OrderRow DEF Orders, Order
  <2>3. orders' = [orders EXCEPT ![task[r].order].link = link]
    BY <1>8 DEF Unlink, Order
  <2> HIDE DEF link
  <2>4. OrdersTied
    BY <2>1, <2>2, <2>3, TiedRow DEF OrdersTied
  <2>5. UNCHANGED <<stock, limit, usage, placed, raced, lateSale, cutShort>>
    BY <1>8 DEF Unlink, promotion, history, faults
  <2> QED BY <1>0, <1>8, <1>i, <2>4, <2>5, LightMove DEF Unlink
<1>9. CASE Relink(r)
  <2>1. task[r].order \in 1..placed
    BY <1>0, <1>9 DEF Relink, At, OfOrder
  <2>2. OrdersTied
    BY <1>9, <2>1, TiedRow DEF Relink, OrdersTied
  <2>3. UNCHANGED <<stock, limit, usage, placed, raced, lateSale, cutShort>>
    BY <1>9 DEF Relink, promotion, history, faults
  <2> QED BY <1>0, <1>9, <1>i, <2>2, <2>3, LightMove DEF Relink
<1>10. CASE PayFlip(r) /\ Order(r).pay = "paid"
  <2>1. Become(r, Idle) /\ OrdersTied /\ raced' = raced
    BY <1>10 DEF PayFlip, OrdersTied
  <2>2. UNCHANGED <<stock, limit, usage, placed, lateSale, cutShort>>
    BY <1>10 DEF PayFlip, promotion, faults
  <2> QED BY <1>0, <1>i, <2>1, <2>2, LightMove
<1> QED BY <1>1, <1>2, <1>3, <1>4, <1>5, <1>6, <1>7, <1>8, <1>9, <1>10

\* Failures before anything is owed: the usage is not recorded, a write-off
\* stops before its flip, a coupon is not found, a request dies empty-handed.
LEMMA LightFailures ==
  ASSUME Shape, NEW r \in Requests,
         \/ UsageThrows(r)
         \/ FailThrows(r) /\ ~At(r, "restore")
         \/ CouponThrows(r) /\ ~At(r, "free")
         \/ Interrupt(r) /\ task[r].pc \notin Owing
  PROVE  Light(r)
<1>0. /\ EmptyHanded(task[r]) /\ task[r].took = {}
      /\ task[r] \in Tasks /\ Good(task[r], placed, limit) /\ placed \in 0..MaxOrders
      /\ placed \in Nat
      /\ task[r].pc \in OfOrder => task[r].order \in 1..placed
  BY GoodTask DEF UsageThrows, FailThrows, CouponThrows, Interrupt, At, Owing
<1>1. ASSUME Cut(FALSE)
      PROVE  OrdersTied /\ UNCHANGED <<stock, limit, usage, placed, raced, lateSale, cutShort>>
  BY <1>1, CutNothing DEF Shape, OrdersTied
<1>2. CASE UsageThrows(r)
  <2> DEFINE pc == Ending(task[r])
             t == [task[r] EXCEPT !.pc = pc]
  <2>1. pc \in {"empty", "link"} /\ task[r].order \in 1..placed
    BY <1>0, <1>2 DEF UsageThrows, OfOrder, Ending
  <2>2. Become(r, t) /\ Cut(FALSE)
    BY <1>2 DEF UsageThrows, Goto
  <2> HIDE DEF pc
  <2>3. Good(t, placed, limit) /\ t.took = {} /\ t.pc = pc
    BY <1>0, <2>1, StageGood
  <2> HIDE DEF t
  <2>4. EmptyHanded(t) /\ t.pc \notin {"usage", "payFlip"}
    BY <2>1, <2>3 DEF EmptyHanded, Owing
  <2> QED BY <1>0, <1>1, <2>2, <2>3, <2>4, LightMove
<1>3. CASE FailThrows(r) /\ ~At(r, "restore")
  <2>1. task[r].order \in 1..placed /\ Cut(FALSE)
    <3>1. At(r, "restore") = FALSE
      BY <1>3 DEF At
    <3> QED BY <1>0, <1>3, <3>1 DEF FailThrows, OfOrder
  <2>2. CASE Become(r, SweepOn(task[r], {}))
    <3> DEFINE t == SweepOn(task[r], {})
    <3>1. Good(t, placed, limit) /\ EmptyHanded(t) /\ t.pc \notin {"usage", "payFlip"}
      BY <1>0, SweepOnGood
    <3> HIDE DEF t
    <3> QED BY <1>0, <1>1, <2>1, <2>2, <3>1, LightMove DEF t
  <2>3. CASE Become(r, AfterFail(task[r], FALSE))
    <3> DEFINE t == AfterFail(task[r], FALSE)
    <3>1. Good(t, placed, limit) /\ EmptyHanded(t) /\ t.pc \notin {"usage", "payFlip"}
      BY <1>0, <2>1, AfterFailGood
    <3> HIDE DEF t
    <3> QED BY <1>0, <1>1, <2>1, <2>3, <3>1, LightMove DEF t
  <2> QED BY <1>3, <2>2, <2>3 DEF FailThrows
<1>4. CASE CouponThrows(r) /\ ~At(r, "free")
  <2>1. task[r].order \in 1..placed /\ Cut(FALSE) /\ Become(r, AfterCoupon(r))
    <3>1. At(r, "free") = FALSE
      BY <1>4 DEF At
    <3> QED BY <1>0, <1>4, <3>1 DEF CouponThrows, OfOrder
  <2> DEFINE t == AfterCoupon(r)
  <2>2. Good(t, placed, limit) /\ EmptyHanded(t) /\ t.pc \notin {"usage", "payFlip"}
    BY <1>0, <2>1, AfterCouponGood
  <2> HIDE DEF t
  <2> QED BY <1>0, <1>1, <2>1, <2>2, LightMove DEF t
<1>5. CASE Interrupt(r) /\ task[r].pc \notin Owing
  <2> DEFINE b == task[r].pc \in {"stock", "row", "undo", "release", "restore", "free", "retake"}
  <2>1. b = FALSE
    BY <1>5 DEF Owing
  <2>2. Become(r, Idle) /\ Cut(b)
    BY <1>5 DEF Interrupt
  <2> HIDE DEF b
  <2>3. Cut(FALSE)
    BY <2>1, <2>2
  <2>4. Good(Idle, placed, limit) /\ EmptyHanded(Idle) /\ Idle.pc \notin {"usage", "payFlip"}
    BY <1>0, IdleGood DEF Idle
  <2> QED BY <1>0, <1>1, <2>2, <2>3, <2>4, LightMove
<1> QED BY <1>2, <1>3, <1>4, <1>5

-------------------------------------------------------------------------------
(* What the other steps do to stock and redemptions.                         *)

\* The redemptions a request answers for.
Reserves(t) ==
  \/ t.claim = "reserved" /\ t.pc \in {"stock", "row", "undo", "release"}
  \/ t.pc = "free"

\* Request r goes on to t, which neither records a redemption nor pays.
Turns(r, t) ==
  /\ Become(r, t) /\ Good(t, placed, limit)
  /\ t.pc \notin {"usage", "payFlip"}

\* The basket becomes a checkout that has taken nothing yet.
Quotes(r) ==
  \/ ReadCart(r)
  \/ \E lines \in SUBSET Skus, coupon \in BOOLEAN : SnapshotCheckout(r, lines, coupon)

LEMMA QuoteStep ==
  ASSUME Shape, NEW r \in Requests, Quotes(r)
  PROVE  /\ EmptyHanded(task[r])
         /\ \E t : Turns(r, t) /\ t.took = {} /\ t.pc \notin {"restore", "retake"} /\ ~Reserves(t)
         /\ UNCHANGED <<stock, limit, usage, orders, placed, raced, lateSale, cutShort>>
<1>0. EmptyHanded(task[r]) /\ task[r] \in Tasks /\ placed \in 0..MaxOrders /\ placed \in Nat
  BY GoodTask DEF Quotes, ReadCart, SnapshotCheckout, At, Owing
<1>u. UNCHANGED <<stock, limit, usage, orders, placed, raced, lateSale, cutShort>>
  BY DEF Quotes, ReadCart, SnapshotCheckout, promotion, book, faults, history
<1>1. ASSUME NEW c, Good(c, placed, limit), c.took = {}, c.claim = "none", Become(r, Quoting(c))
      PROVE  \E t : Turns(r, t) /\ t.took = {} /\ t.pc \notin {"restore", "retake"} /\ ~Reserves(t)
  <2> DEFINE t == Quoting(c)
  <2>1. /\ Good(t, placed, limit) /\ t.took = {} /\ t.claim = "none"
        /\ t.pc \in {"validate", "stock", "row"}
    BY <1>0, <1>1, QuotingGood
  <2>2. Become(r, t)
    BY <1>1
  <2> HIDE DEF t
  <2> QED BY <2>1, <2>2 DEF Turns, Reserves
<1>2. CASE ReadCart(r)
  <2> DEFINE lines == cart[owner[r]]
             c == [task[r] EXCEPT !.lines = lines]
  <2>1. lines \subseteq Skus
    BY DEF Shape, TypeOK
  <2>2. Become(r, Idle) \/ Become(r, Quoting(c))
    BY <1>2 DEF ReadCart
  <2> HIDE DEF lines
  <2>3. c \in Tasks
    BY <1>0, <2>1 DEF Tasks
  <2>4. task[r].pc = "cart" /\ task[r].claim = "none" /\ task[r].sweep \subseteq 1..placed
    BY <1>2 DEF Shape, TasksOK, TaskOK, ReadCart, At
  <2>5. c.pc = "cart" /\ c.took = {} /\ c.sweep = task[r].sweep /\ c.claim = "none"
    BY <1>0, <2>4 DEF Tasks, EmptyHanded
  <2> HIDE DEF c
  <2>6. Good(c, placed, limit)
    BY <2>3, <2>4, <2>5 DEF Good, TaskOK, OfOrder
  <2>7. Good(Idle, placed, limit) /\ Idle.took = {} /\ Idle.pc = "idle"
    BY <1>0, IdleGood DEF Idle
  <2>8. CASE Become(r, Idle)
    <3>1. Turns(r, Idle) /\ ~Reserves(Idle)
      BY <2>7, <2>8 DEF Turns, Reserves
    <3> QED BY <1>0, <1>u, <2>7, <3>1
  <2> QED BY <1>0, <1>1, <1>u, <2>2, <2>5, <2>6, <2>8
<1>3. ASSUME NEW lines \in SUBSET Skus, NEW coupon \in BOOLEAN, SnapshotCheckout(r, lines, coupon)
      PROVE  \E t : Turns(r, t) /\ t.took = {} /\ t.pc \notin {"restore", "retake"} /\ ~Reserves(t)
  <2> DEFINE c == [Idle EXCEPT !.kind = "snapshot", !.lines = lines, !.coupon = coupon]
  <2>1. c \in Tasks
    BY <1>0, IdleGood DEF Good, Tasks
  <2>2. c.pc = "idle" /\ c.took = {} /\ c.sweep = {} /\ c.claim = "none"
    BY DEF Idle
  <2>3. Become(r, Quoting(c))
    BY <1>3 DEF SnapshotCheckout
  <2> HIDE DEF c
  <2>4. Good(c, placed, limit)
    BY <2>1, <2>2 DEF Good, TaskOK, OfOrder
  <2> QED BY <1>1, <2>2, <2>3, <2>4
<1> QED BY <1>0, <1>u, <1>2, <1>3 DEF Quotes

\* claimRedemption: refused, unlimited, or one redemption more.
LEMMA ClaimStep ==
  ASSUME Shape, NEW r \in Requests, ClaimRedemption(r)
  PROVE  /\ EmptyHanded(task[r])
         /\ \E t : /\ Turns(r, t) /\ t.took = {} /\ t.pc \notin {"restore", "retake"}
                   /\ \/ limit = NoLimit
                      \/ ~Reserves(t) /\ usage' = usage
                      \/ Reserves(t) /\ usage < limit /\ usage' = usage + 1
         /\ UNCHANGED <<stock, limit, orders, placed, raced, lateSale, cutShort>>
<1>0. /\ EmptyHanded(task[r]) /\ task[r].took = {} /\ task[r] \in Tasks
      /\ placed \in 0..MaxOrders /\ placed \in Nat
      /\ task[r].pc = "claim" /\ task[r].sweep \subseteq 1..placed
  BY GoodTask DEF ClaimRedemption, At, Owing, Shape, TasksOK, TaskOK
<1>u. UNCHANGED <<stock, limit, orders, placed, raced, lateSale, cutShort>>
  BY DEF ClaimRedemption, carts, book, faults, history
<1>1. ASSUME NEW claim \in {"unlimited", "reserved"}, claim = "reserved" <=> limit # NoLimit,
             Become(r, Taking([task[r] EXCEPT !.claim = claim]))
      PROVE  \E t : /\ Turns(r, t) /\ t.took = {} /\ t.pc \in {"stock", "row"} /\ t.claim = claim
  <2> DEFINE c == [task[r] EXCEPT !.claim = claim]
             t == Taking(c)
  <2>1. c \in Tasks
    BY <1>0 DEF Tasks, Claims
  <2>2. c.pc = "claim" /\ c.took = {} /\ c.sweep = task[r].sweep /\ c.claim = claim
    BY <1>0 DEF Tasks
  <2>3. Become(r, t)
    BY <1>1
  <2> HIDE DEF c
  <2>4. Good(c, placed, limit)
    BY <1>0, <1>1, <2>1, <2>2 DEF Good, TaskOK, OfOrder
  <2>5. Good(t, placed, limit) /\ t.took = {} /\ t.pc \in {"stock", "row"} /\ t.claim = claim
    BY <1>0, <2>2, <2>4, TakingGood
  <2> HIDE DEF t
  <2> QED BY <2>3, <2>5 DEF Turns
<1>2. CASE limit = NoLimit /\ Become(r, Taking([task[r] EXCEPT !.claim = "unlimited"]))
  <2>1. \E t : /\ Turns(r, t) /\ t.took = {} /\ t.pc \in {"stock", "row"} /\ t.claim = "unlimited"
    BY <1>1, <1>2
  <2> QED BY <1>0, <1>2, <1>u, <2>1
<1>3. CASE /\ limit # NoLimit /\ usage < limit /\ usage' = usage + 1
           /\ Become(r, Taking([task[r] EXCEPT !.claim = "reserved"]))
  <2>1. \E t : /\ Turns(r, t) /\ t.took = {} /\ t.pc \in {"stock", "row"} /\ t.claim = "reserved"
    BY <1>1, <1>3
  <2>2. \E t : Turns(r, t) /\ t.took = {} /\ t.pc \notin {"restore", "retake"} /\ Reserves(t)
    BY <2>1 DEF Reserves
  <2> QED BY <1>0, <1>3, <1>u, <2>2
<1>4. CASE Become(r, Idle) /\ UNCHANGED usage
  <2>1. Good(Idle, placed, limit) /\ Idle.took = {} /\ Idle.pc = "idle"
    BY <1>0, IdleGood DEF Idle
  <2>2. Turns(r, Idle) /\ ~Reserves(Idle)
    BY <1>4, <2>1 DEF Turns, Reserves
  <2> QED BY <1>0, <1>4, <1>u, <2>1, <2>2
<1> QED BY <1>2, <1>3, <1>4 DEF ClaimRedemption

\* One unit is taken, or the checkout turns back with what it has.
LEMMA TakeStep ==
  ASSUME Shape, NEW r \in Requests, NEW i \in Skus, TakeStock(r, i)
  PROVE  /\ task[r].pc = "stock"
         /\ \E t : /\ Turns(r, t) /\ t.pc \in {"stock", "row", "undo", "release", "idle"}
                   /\ Reserves(t) <=> Reserves(task[r])
                   /\ \/ /\ stock[i] >= 1 /\ stock' = [stock EXCEPT ![i] = stock[i] - 1]
                         /\ i \notin task[r].took /\ t.took = task[r].took \cup {i}
                      \/ stock' = stock /\ t.took = task[r].took
         /\ UNCHANGED <<limit, usage, orders, placed, raced, lateSale, cutShort>>
<1>0. /\ task[r].pc = "stock" /\ Good(task[r], placed, limit) /\ task[r] \in Tasks
      /\ placed \in 0..MaxOrders /\ placed \in Nat
  BY GoodTask DEF TakeStock, At
<1>u. UNCHANGED <<limit, usage, orders, placed, raced, lateSale, cutShort>>
  BY DEF TakeStock, promotion, carts, book, faults, history
<1>1. CASE Become(r, Undo(r)) /\ UNCHANGED stock
  <2> DEFINE t == Undo(r)
  <2>1. /\ Good(t, placed, limit) /\ t.took = task[r].took
        /\ t.pc \in {"undo", "release", "idle"}
        /\ task[r].claim = "reserved" => t.claim = "reserved" /\ t.pc # "idle"
        /\ task[r].claim # "reserved" => t.claim # "reserved"
    BY <1>0, UndoGood
  <2>2. Become(r, t)
    BY <1>1
  <2> HIDE DEF t
  <2>3. Turns(r, t) /\ (Reserves(t) <=> Reserves(task[r]))
    BY <1>0, <2>1, <2>2 DEF Turns, Reserves
  <2>4. t.pc \in {"stock", "row", "undo", "release", "idle"} /\ t.took = task[r].took /\ stock' = stock
    BY <1>1, <2>1
  <2> QED BY <1>0, <1>u, <2>3, <2>4
<1>2. CASE /\ stock[i] >= 1 /\ stock' = [stock EXCEPT ![i] = @ - 1]
           /\ Become(r, [Looped(r, i, [task[r] EXCEPT !.pc = "row", !.todo = {}])
                           EXCEPT !.took = task[r].took \cup {i}])
  <2> DEFINE a == [task[r] EXCEPT !.pc = "row", !.todo = {}]
             b == [task[r] EXCEPT !.todo = task[r].todo \ {i}]
             t == [Looped(r, i, a) EXCEPT !.took = task[r].took \cup {i}]
  <2>1. /\ i \in task[r].todo /\ i \notin task[r].took
        /\ task[r].took \cup task[r].todo = task[r].lines \ CustomSkus
        /\ task[r].took \cap task[r].todo = {}
        /\ task[r].sweep \subseteq 1..placed
    BY <1>0 DEF Good, TaskOK, TakeStock
  <2>2. Become(r, t) /\ stock' = [stock EXCEPT ![i] = stock[i] - 1]
    BY <1>2
  <2>3. CASE task[r].todo = {i}
    <3> DEFINE u == [a EXCEPT !.took = task[r].took \cup {i}]
    <3>1. t = u
      BY <2>3 DEF Looped
    <3>2. u \in Tasks
      BY <1>0 DEF Tasks
    <3>3. /\ u.pc = "row" /\ u.took = task[r].took \cup {i} /\ u.sweep = task[r].sweep
          /\ u.lines = task[r].lines /\ u.claim = task[r].claim /\ u.coupon = task[r].coupon
      BY <1>0 DEF Tasks
    <3> HIDE DEF u
    <3>4. Good(u, placed, limit)
      BY <1>0, <2>1, <2>3, <3>2, <3>3 DEF Good, TaskOK, OfOrder
    <3>5. Reserves(u) <=> Reserves(task[r])
      BY <1>0, <3>3 DEF Reserves
    <3>6. Become(r, u)
      BY <2>2, <3>1
    <3> HIDE DEF t
    <3>7. Turns(r, u) /\ u.pc \in {"stock", "row", "undo", "release", "idle"}
      BY <3>3, <3>4, <3>6 DEF Turns
    <3> QED BY <1>0, <1>2, <1>u, <2>1, <2>2, <3>3, <3>5, <3>7
  <2>4. CASE task[r].todo # {i}
    <3> DEFINE u == [b EXCEPT !.took = task[r].took \cup {i}]
    <3>1. t = u
      BY <2>4 DEF Looped
    <3>2. u \in Tasks
      BY <1>0 DEF Tasks
    <3>3. /\ u.pc = "stock" /\ u.took = task[r].took \cup {i} /\ u.sweep = task[r].sweep
          /\ u.lines = task[r].lines /\ u.claim = task[r].claim /\ u.coupon = task[r].coupon
          /\ u.todo = task[r].todo \ {i}
      BY <1>0 DEF Tasks
    <3> HIDE DEF u
    <3>4. Good(u, placed, limit)
      BY <1>0, <2>1, <3>2, <3>3 DEF Good, TaskOK, OfOrder
    <3>5. Reserves(u) <=> Reserves(task[r])
      BY <1>0, <3>3 DEF Reserves
    <3>6. Become(r, u)
      BY <2>2, <3>1
    <3> HIDE DEF t
    <3>7. Turns(r, u) /\ u.pc \in {"stock", "row", "undo", "release", "idle"}
      BY <3>3, <3>4, <3>6 DEF Turns
    <3> QED BY <1>0, <1>2, <1>u, <2>1, <2>2, <3>3, <3>5, <3>7
  <2> QED BY <2>3, <2>4
<1> QED BY <1>1, <1>2 DEF TakeStock

\* The next stage of a restoreStock that is done with line i.
LEMMA UndoneLine ==
  ASSUME Shape, NEW r \in Requests, NEW i \in Skus, At(r, "undo"), i \in task[r].todo,
         Become(r, [Looped(r, i, Released(r)) EXCEPT !.took = task[r].took \ {i}])
  PROVE  /\ i \in task[r].took
         /\ \E t : /\ Turns(r, t) /\ t.pc \in {"undo", "release", "idle"}
                   /\ t.took = task[r].took \ {i}
                   /\ Reserves(t) <=> Reserves(task[r])
<1>0. /\ task[r].pc = "undo" /\ Good(task[r], placed, limit) /\ task[r] \in Tasks
      /\ placed \in 0..MaxOrders /\ placed \in Nat
      /\ task[r].todo = task[r].took /\ task[r].sweep \subseteq 1..placed
  BY GoodTask DEF At, Shape, TasksOK, TaskOK
<1> DEFINE a == Released(r)
           b == [task[r] EXCEPT !.todo = task[r].todo \ {i}]
           t == [Looped(r, i, a) EXCEPT !.took = task[r].took \ {i}]
<1>1. Become(r, t)
  OBVIOUS
<1>a. /\ Good(a, placed, limit) /\ a.took = {}
      /\ task[r].claim = "reserved" => a.pc = "release" /\ a.claim = "reserved"
      /\ task[r].claim # "reserved" => a = Idle
  BY <1>0, ReleasedGood
<1>2. CASE task[r].todo = {i}
  <2> HIDE DEF a
  <2>1. task[r].took \ {i} = {}
    BY <1>0, <1>2
  <2>2. t = [a EXCEPT !.took = {}]
    BY <1>2, <2>1 DEF Looped
  <2>3. t = a
    BY <1>a, <2>2 DEF Good, Tasks
  <2>4. Turns(r, a) /\ (Reserves(a) <=> Reserves(task[r])) /\ a.pc \in {"undo", "release", "idle"}
    <3>1. task[r].claim # "reserved" => a.pc = "idle" /\ a.claim = "none"
      BY <1>a DEF Idle
    <3> QED BY <1>0, <1>1, <1>a, <2>3, <3>1 DEF Turns, Reserves
  <2> QED BY <1>0, <1>2, <1>a, <2>1, <2>4
<1>3. CASE task[r].todo # {i}
  <2> DEFINE u == [b EXCEPT !.took = task[r].took \ {i}]
  <2>1. t = u
    BY <1>3 DEF Looped
  <2>2. u \in Tasks
    BY <1>0 DEF Tasks
  <2>3. /\ u.pc = "undo" /\ u.took = task[r].took \ {i} /\ u.sweep = task[r].sweep
        /\ u.claim = task[r].claim /\ u.todo = task[r].todo \ {i}
    BY <1>0 DEF Tasks
  <2> HIDE DEF u
  <2>4. Good(u, placed, limit)
    BY <1>0, <2>2, <2>3 DEF Good, TaskOK, OfOrder
  <2>5. (Reserves(u) <=> Reserves(task[r])) /\ Become(r, u)
    BY <1>0, <1>1, <2>1, <2>3 DEF Reserves
  <2> HIDE DEF t
  <2>6. Turns(r, u) /\ u.pc \in {"undo", "release", "idle"}
    BY <2>3, <2>4, <2>5 DEF Turns
  <2> QED BY <1>0, <2>3, <2>5, <2>6
<1> QED BY <1>2, <1>3

\* A line put back into stock after a write-off, or given up.
LEMMA RestoredLine ==
  ASSUME Shape, NEW r \in Requests, NEW i \in Skus, At(r, "restore"), i \in task[r].todo,
         Become(r, Looped(r, i, AfterFail(task[r], TRUE)))
  PROVE  /\ task[r].took = {}
         /\ \E t : /\ Turns(r, t) /\ t.took = {} /\ t.pc # "retake"
                   /\ ~Reserves(t) /\ ~Reserves(task[r])
                   /\ \A s : t.pc = "restore" /\ s \in t.todo <=> s \in task[r].todo /\ s # i
<1>0. /\ task[r].pc = "restore" /\ Good(task[r], placed, limit) /\ task[r] \in Tasks
      /\ placed \in 0..MaxOrders /\ task[r].took = {} /\ task[r].order \in 1..placed
      /\ task[r].sweep \subseteq 1..placed
  BY GoodTask DEF At, OfOrder, Shape, TasksOK, TaskOK
<1>r. ~Reserves(task[r])
  BY <1>0 DEF Reserves
<1> DEFINE a == AfterFail(task[r], TRUE)
           u == [task[r] EXCEPT !.todo = task[r].todo \ {i}]
<1>1. Good(a, placed, limit) /\ EmptyHanded(a) /\ a.pc \notin {"usage", "payFlip"}
  BY <1>0, AfterFailGood
<1>2. CASE task[r].todo = {i}
  <2> HIDE DEF a
  <2>1. Become(r, a)
    BY <1>2 DEF Looped, a
  <2>2. Turns(r, a) /\ a.took = {} /\ a.pc \notin {"retake", "restore"} /\ ~Reserves(a)
    BY <1>1, <2>1 DEF Turns, EmptyHanded, Owing, Reserves
  <2> QED BY <1>0, <1>r, <1>2, <2>2
<1>3. CASE task[r].todo # {i}
  <2> HIDE DEF a
  <2>1. Become(r, u)
    BY <1>3 DEF Looped, a
  <2>2. u \in Tasks
    BY <1>0 DEF Tasks
  <2>3. /\ u.pc = "restore" /\ u.took = {} /\ u.sweep = task[r].sweep /\ u.claim = task[r].claim
        /\ u.todo = task[r].todo \ {i} /\ u.order = task[r].order
    BY <1>0 DEF Tasks
  <2> HIDE DEF u
  <2>4. Good(u, placed, limit)
    BY <1>0, <2>2, <2>3 DEF Good, TaskOK, OfOrder
  <2>5. Turns(r, u) /\ ~Reserves(u)
    BY <2>1, <2>3, <2>4 DEF Turns, Reserves
  <2> QED BY <1>0, <1>r, <2>3, <2>5
<1> QED BY <1>2, <1>3

\* A line taken for a late payment, or given up.
LEMMA RetakenLine ==
  ASSUME Shape, NEW r \in Requests, NEW i \in Skus, At(r, "retake"), i \in task[r].todo,
         Become(r, Looped(r, i, Idle))
  PROVE  /\ task[r].took = {}
         /\ \E t : /\ Turns(r, t) /\ t.took = {} /\ t.pc # "restore"
                   /\ ~Reserves(t) /\ ~Reserves(task[r])
                   /\ \A s : t.pc = "retake" /\ s \in t.todo <=> s \in task[r].todo /\ s # i
<1>0. /\ task[r].pc = "retake" /\ Good(task[r], placed, limit) /\ task[r] \in Tasks
      /\ placed \in Nat /\ task[r].took = {} /\ task[r].sweep \subseteq 1..placed
  BY GoodTask DEF At, Shape, TasksOK, TaskOK
<1>r. ~Reserves(task[r])
  BY <1>0 DEF Reserves
<1> DEFINE u == [task[r] EXCEPT !.todo = task[r].todo \ {i}]
<1>1. CASE task[r].todo = {i}
  <2>1. Become(r, Idle) /\ Good(Idle, placed, limit) /\ Idle.took = {} /\ Idle.pc = "idle"
    BY <1>0, <1>1, IdleGood DEF Looped, Idle
  <2>2. Turns(r, Idle) /\ ~Reserves(Idle)
    BY <2>1 DEF Turns, Reserves
  <2> QED BY <1>0, <1>r, <1>1, <2>1, <2>2
<1>2. CASE task[r].todo # {i}
  <2>1. Become(r, u)
    BY <1>2 DEF Looped
  <2>2. u \in Tasks
    BY <1>0 DEF Tasks
  <2>3. /\ u.pc = "retake" /\ u.took = {} /\ u.sweep = task[r].sweep /\ u.claim = task[r].claim
        /\ u.todo = task[r].todo \ {i}
    BY <1>0 DEF Tasks
  <2> HIDE DEF u
  <2>4. Good(u, placed, limit)
    BY <1>0, <2>2, <2>3 DEF Good, TaskOK, OfOrder
  <2>5. Turns(r, u) /\ ~Reserves(u)
    BY <2>1, <2>3, <2>4 DEF Turns, Reserves
  <2> QED BY <1>0, <1>r, <2>3, <2>5
<1> QED BY <1>1, <1>2

\* The redemption of a failed checkout or an abandoned order goes back.
LEMMA ReleaseStep ==
  ASSUME Shape, NEW r \in Requests, ReleaseRedemption(r)
  PROVE  /\ task[r].took = {} /\ task[r].pc \notin {"restore", "retake"} /\ Reserves(task[r])
         /\ \E t : Turns(r, t) /\ EmptyHanded(t)
         /\ usage' = (IF usage > 0 THEN usage - 1 ELSE usage)
         /\ UNCHANGED <<stock, limit, orders, placed, raced, lateSale, cutShort>>
<1>0. /\ task[r].pc \in {"release", "free"} /\ Good(task[r], placed, limit) /\ task[r].took = {}
      /\ placed \in 0..MaxOrders /\ placed \in Nat
      /\ task[r].pc = "free" => task[r].order \in 1..placed
      /\ task[r].pc = "release" => task[r].claim = "reserved"
  BY GoodTask DEF ReleaseRedemption, OfOrder, Shape, TasksOK, TaskOK
<1>1. CASE task[r].pc = "free" /\ Become(r, AfterCoupon(r))
  <2> DEFINE t == AfterCoupon(r)
  <2>1. Good(t, placed, limit) /\ EmptyHanded(t) /\ t.pc \notin {"usage", "payFlip"}
    BY <1>0, <1>1, AfterCouponGood
  <2>2. Become(r, t)
    BY <1>1
  <2> HIDE DEF t
  <2>3. Turns(r, t)
    BY <2>1, <2>2 DEF Turns
  <2> QED BY <1>0, <2>1, <2>3
          DEF ReleaseRedemption, carts, book, faults, history, Reserves
<1>2. CASE Become(r, Idle)
  <2>1. Good(Idle, placed, limit) /\ EmptyHanded(Idle) /\ Idle.pc = "idle"
    BY <1>0, IdleGood DEF Idle
  <2>2. Turns(r, Idle)
    BY <1>2, <2>1 DEF Turns
  <2> QED BY <1>0, <2>1, <2>2
          DEF ReleaseRedemption, carts, book, faults, history, Reserves
<1> QED BY <1>1, <1>2 DEF ReleaseRedemption, At

\* An unlimited coupon is counted after the fact.
LEMMA CountStep ==
  ASSUME Shape, NEW r \in Requests, CountUsage(r)
  PROVE  /\ EmptyHanded(task[r]) /\ limit = NoLimit
         /\ \E t : Turns(r, t) /\ EmptyHanded(t)
         /\ UNCHANGED <<stock, limit, orders, placed, raced, lateSale, cutShort>>
<1>0. /\ task[r].pc = "count" /\ Good(task[r], placed, limit) /\ EmptyHanded(task[r])
      /\ placed \in 0..MaxOrders /\ task[r].order \in 1..placed /\ limit = NoLimit
  BY GoodTask DEF CountUsage, At, OfOrder, Owing, Shape, TasksOK, TaskOK
<1> DEFINE pc == Ending(task[r])
           t == [task[r] EXCEPT !.pc = pc]
<1>1. pc \in {"empty", "link"} /\ task[r].took = {}
  BY <1>0 DEF Ending, EmptyHanded
<1>2. Become(r, t)
  BY DEF CountUsage, Goto
<1> HIDE DEF pc
<1>3. Good(t, placed, limit) /\ t.took = {} /\ t.pc = pc
  BY <1>0, <1>1, StageGood
<1> HIDE DEF t
<1>4. Turns(r, t) /\ EmptyHanded(t)
  BY <1>1, <1>2, <1>3 DEF Turns, EmptyHanded, Owing
<1> QED BY <1>0, <1>4 DEF CountUsage, carts, book, faults, history

Payable == {"pending", "awaiting_payment"}

\* markOrderFailed wins the flip: the lines of a payable order go back.
LEMMA FlipStep ==
  ASSUME Shape, NEW r \in Requests, FailFlip(r), Order(r).pay \notin {"paid", "failed"}
  PROVE  /\ EmptyHanded(task[r]) /\ task[r].order \in 1..placed
         /\ Order(r).pay \in Payable
         /\ \E t, x : /\ Turns(r, t) /\ t.took = {} /\ ~Reserves(t)
                      /\ t.pc = "restore" /\ t.todo = Order(r).lines
                      /\ Amends(task[r].order, x) /\ x.pay = "failed"
         /\ UNCHANGED <<stock, limit, usage, placed, raced, lateSale, cutShort>>
<1>0. /\ task[r].pc = "failFlip" /\ Good(task[r], placed, limit) /\ EmptyHanded(task[r])
      /\ task[r] \in Tasks /\ task[r].order \in 1..placed /\ task[r].took = {}
      /\ task[r].sweep \subseteq 1..placed
  BY GoodTask DEF FailFlip, At, OfOrder, Owing, Shape, TasksOK, TaskOK
<1>1. Order(r) \in Orders /\ Order(r).pay \in Payable
  BY <1>0, OrderRow DEF Order, Orders, PayStatus, Payable
<1> DEFINE t == [task[r] EXCEPT !.pc = "restore", !.todo = Order(r).lines]
<1>2. Order(r).lines \subseteq Skus
  BY <1>1 DEF Orders
<1>3. t \in Tasks
  BY <1>0, <1>2 DEF Tasks
<1>4. /\ t.pc = "restore" /\ t.took = {} /\ t.sweep = task[r].sweep /\ t.claim = task[r].claim
      /\ t.order = task[r].order /\ t.todo = Order(r).lines
  BY <1>0 DEF Tasks
<1>5. Become(r, t) /\ orders' = [orders EXCEPT ![task[r].order].pay = "failed"]
  BY DEF FailFlip
<1> HIDE DEF t
<1>6. Good(t, placed, limit)
  BY <1>0, <1>3, <1>4 DEF Good, TaskOK, OfOrder
<1>7. Turns(r, t) /\ ~Reserves(t)
  BY <1>4, <1>5, <1>6 DEF Turns, Reserves
<1>8. \E x : Amends(task[r].order, x) /\ x.pay = "failed"
  BY <1>0, <1>5, SettledRow
<1> QED BY <1>0, <1>1, <1>4, <1>7, <1>8 DEF FailFlip, promotion, faults, history

\* markOrderPaid wins the flip: nothing moves, or a written-off order is retaken
\* line by line, or it was written off behind the payment's back.
LEMMA PayStep ==
  ASSUME Shape, NEW r \in Requests, PayFlip(r), Order(r).pay # "paid"
  PROVE  /\ EmptyHanded(task[r]) /\ task[r].order \in 1..placed
         /\ \E t, x : /\ Turns(r, t) /\ t.took = {} /\ ~Reserves(t) /\ t.pc # "restore"
                      /\ Amends(task[r].order, x) /\ x.pay = "paid"
                      /\ \/ raced' = TRUE
                         \/ raced' = raced /\ Order(r).pay \in Payable /\ t.pc # "retake"
                         \/ /\ raced' = raced /\ Order(r).pay = "failed"
                            /\ t.pc = "retake" /\ t.todo = Order(r).lines
         /\ UNCHANGED <<stock, limit, usage, placed, lateSale, cutShort>>
<1>0. /\ task[r].pc = "payFlip" /\ EmptyHanded(task[r]) /\ task[r].order \in 1..placed
      /\ placed \in Nat
  BY GoodTask DEF PayFlip, At, OfOrder, Owing
<1>1. Order(r) \in Orders /\ Order(r).pay \in Payable \cup {"failed"}
  BY <1>0, OrderRow DEF Order, Orders, PayStatus, Payable
<1>u. UNCHANGED <<stock, limit, usage, placed, lateSale, cutShort>>
  BY DEF PayFlip, promotion, faults
<1>2. \E x : Amends(task[r].order, x) /\ x.pay = "paid"
  BY <1>0, SettledRow DEF PayFlip
<1>3. raced' = (raced \/ (Order(r).pay = "failed" /\ task[r].read # "failed")) /\ raced \in BOOLEAN
  BY DEF PayFlip, Shape, TypeOK
<1>4. CASE task[r].read # "failed"
  <2>1. Become(r, Idle) /\ Good(Idle, placed, limit) /\ Idle.took = {} /\ Idle.pc = "idle"
    BY <1>0, <1>4, IdleGood DEF PayFlip, Idle
  <2>2. Turns(r, Idle) /\ ~Reserves(Idle)
    BY <2>1 DEF Turns, Reserves
  <2>3. CASE Order(r).pay = "failed"
    <3>1. raced' = TRUE
      BY <1>3, <1>4, <2>3
    <3> QED BY <1>0, <1>2, <1>u, <2>1, <2>2, <3>1
  <2>4. CASE Order(r).pay \in Payable
    <3>1. (Order(r).pay = "failed") = FALSE
      BY <2>4 DEF Payable
    <3>2. raced' = raced
      BY <1>3, <3>1
    <3> QED BY <1>0, <1>2, <1>u, <2>1, <2>2, <2>4, <3>2
  <2> QED BY <1>1, <2>3, <2>4
<1>5. CASE task[r].read = "failed"
  <2> DEFINE t == [Idle EXCEPT !.pc = "retake", !.kind = "paid", !.todo = Order(r).lines]
  <2>1. Order(r).lines \subseteq Skus
    BY <1>1 DEF Orders
  <2>2. t \in Tasks
    BY <1>0, <2>1, IdleGood DEF Good, Tasks
  <2>3. /\ t.pc = "retake" /\ t.took = {} /\ t.sweep = {} /\ t.claim = "none"
        /\ t.todo = Order(r).lines
    BY DEF Idle
  <2>4. Become(r, t)
    BY <1>5 DEF PayFlip
  <2> HIDE DEF t
  <2>5. Good(t, placed, limit)
    BY <2>2, <2>3 DEF Good, TaskOK, OfOrder
  <2>6. Turns(r, t) /\ ~Reserves(t)
    BY <2>3, <2>4, <2>5 DEF Turns, Reserves
  <2>7. Order(r).pay = "failed"
    BY <1>0, <1>1, <1>5 DEF Shape, SeenFailed, At, Payable
  <2>8. raced' = raced
    BY <1>3, <1>5
  <2> QED BY <1>0, <1>2, <1>u, <2>3, <2>6, <2>7, <2>8
<1> QED BY <1>4, <1>5

\* A redemption record is deleted: the request answers for the redemption now.
LEMMA DeleteStep ==
  ASSUME Shape, NEW r \in Requests, DeleteUsage(r), Order(r).row
  PROVE  /\ EmptyHanded(task[r]) /\ task[r].order \in 1..placed
         /\ ~Order(r).freed /\ Order(r).claim # "none"
         /\ \E t : Turns(r, t) /\ t.took = {} /\ t.pc = "free"
         /\ orders' = [orders EXCEPT ![task[r].order] =
                         [orders[task[r].order] EXCEPT !.row = FALSE, !.freed = TRUE]]
         /\ UNCHANGED <<stock, limit, usage, placed, raced, lateSale, cutShort>>
<1>0. /\ task[r].pc = "couponDelete" /\ Good(task[r], placed, limit) /\ EmptyHanded(task[r])
      /\ placed \in 0..MaxOrders /\ task[r].order \in 1..placed /\ task[r].took = {}
  BY GoodTask DEF DeleteUsage, At, OfOrder, Owing
<1>1. task[r].order \in OrderIds /\ orders \in [OrderIds -> Orders]
  BY <1>0, OrderRow DEF Shape, TypeOK
<1>2. ~Order(r).freed /\ Order(r).claim # "none"
  BY <1>1 DEF Shape, OrdersOK, Order
<1> DEFINE t == [task[r] EXCEPT !.pc = "free"]
<1>3. Become(r, t)
  BY DEF DeleteUsage, Goto
<1>4. Good(t, placed, limit) /\ t.took = {} /\ t.pc = "free"
  BY <1>0, StageGood
<1> HIDE DEF t
<1>5. Turns(r, t)
  BY <1>3, <1>4 DEF Turns
<1>6. orders' = [orders EXCEPT ![task[r].order] =
                   [orders[task[r].order] EXCEPT !.row = FALSE, !.freed = TRUE]]
  BY <1>1 DEF DeleteUsage
<1> QED BY <1>0, <1>2, <1>4, <1>5, <1>6 DEF DeleteUsage, promotion, faults, history

\* A redemption is recorded for the order that claimed it.
LEMMA RecordStep ==
  ASSUME Shape, NEW r \in Requests, RecordUsage(r)
  PROVE  /\ EmptyHanded(task[r]) /\ task[r].order \in 1..placed /\ task[r].pc = "usage"
         /\ ~Order(r).freed /\ Order(r).claim # "none"
         /\ \E t : Turns(r, t) /\ EmptyHanded(t)
         /\ orders' = [orders EXCEPT ![task[r].order] = [orders[task[r].order] EXCEPT !.row = TRUE]]
         /\ UNCHANGED <<stock, limit, usage, placed, raced, lateSale, cutShort>>
<1>0. /\ task[r].pc = "usage" /\ Good(task[r], placed, limit) /\ EmptyHanded(task[r])
      /\ placed \in 0..MaxOrders /\ task[r].order \in 1..placed /\ task[r].took = {}
      /\ task[r] \in Tasks /\ task[r].claim # "none" /\ task[r].sweep \subseteq 1..placed
      /\ task[r].claim = "unlimited" => limit = NoLimit
  BY GoodTask DEF RecordUsage, At, OfOrder, Owing, Shape, TasksOK, TaskOK
<1>1. task[r].claim \in {"unlimited", "reserved"}
  BY <1>0 DEF Tasks, Claims
<1>2. ~Order(r).freed /\ Order(r).claim # "none"
  BY <1>0 DEF Shape, Unrecorded, At
<1> DEFINE pc == IF task[r].claim = "reserved" THEN Ending(task[r]) ELSE "count"
           t == [task[r] EXCEPT !.pc = pc]
<1>3. /\ pc \in {"empty", "link", "count"}
      /\ pc = "count" => task[r].claim = "unlimited"
  BY <1>1 DEF Ending
<1>4. Become(r, t)
  BY DEF RecordUsage, Goto
<1> HIDE DEF pc
<1>5. t \in Tasks
  BY <1>0, <1>3 DEF Tasks
<1>6. /\ t.pc = pc /\ t.took = {} /\ t.sweep = task[r].sweep /\ t.claim = task[r].claim
      /\ t.order = task[r].order
  BY <1>0 DEF Tasks
<1> HIDE DEF t
<1>7. Good(t, placed, limit) /\ EmptyHanded(t)
  BY <1>0, <1>3, <1>5, <1>6 DEF Good, TaskOK, OfOrder, EmptyHanded, Owing
<1>8. Turns(r, t)
  BY <1>3, <1>4, <1>6, <1>7 DEF Turns
<1> QED BY <1>0, <1>2, <1>7, <1>8 DEF RecordUsage, promotion, faults, history

\* The order comes into existence with all of its lines; the request hands over
\* what it took and the redemption it claimed.
LEMMA CreateStep ==
  ASSUME Shape, NEW r \in Requests, CreateOrder(r)
  PROVE  /\ task[r].pc = "row" /\ task[r].took = task[r].lines \ CustomSkus
         /\ task[r].claim = "unlimited" => limit = NoLimit
         /\ placed' = placed + 1 /\ placed + 1 \in OrderIds /\ placed' \in 0..MaxOrders
         /\ orders[placed + 1] = NoOrder
         /\ \E t, x : /\ Become(r, t) /\ Good(t, placed', limit) /\ EmptyHanded(t)
                      /\ t.pc \in {"usage", "empty", "link"} /\ t.claim = task[r].claim
                      /\ t.order = placed + 1
                      /\ orders' = [orders EXCEPT ![placed + 1] = x]
                      /\ x \in Orders /\ x.pay \in Payable /\ x.lines = task[r].lines
                      /\ x.claim = task[r].claim /\ ~x.row /\ ~x.freed
         /\ UNCHANGED <<stock, limit, usage, raced, lateSale, cutShort>>
<1>0. /\ task[r].pc = "row" /\ task[r] \in Tasks /\ placed \in Nat
      /\ task[r].took = task[r].lines \ CustomSkus
      /\ task[r].coupon => task[r].claim # "none"
      /\ task[r].claim = "reserved" => limit # NoLimit
      /\ task[r].claim = "unlimited" => limit = NoLimit
  BY GoodTask DEF CreateOrder, At, Shape, TasksOK, TaskOK
<1>1. placed' = placed + 1 /\ placed + 1 \in OrderIds /\ placed' \in 0..MaxOrders /\ placed' \in Nat
  BY <1>0, BoundsOK DEF CreateOrder, OrderIds
<1>2. orders[placed + 1] = NoOrder
  BY <1>0, <1>1 DEF Shape, OrdersOK
<1> DEFINE pc == IF task[r].coupon THEN "usage" ELSE Ending(task[r])
           t == [Idle EXCEPT !.kind = task[r].kind, !.claim = task[r].claim,
                             !.order = placed + 1, !.pc = pc]
<1>3. pc \in {"usage", "empty", "link"} /\ (pc = "usage" => task[r].claim # "none")
  BY <1>0 DEF Ending
<1>4. Become(r, t)
  BY DEF CreateOrder
<1> HIDE DEF pc
<1>5. Idle \in Tasks /\ placed + 1 \in 0..MaxOrders
  BY <1>0, <1>1, IdleGood DEF Good
<1>6. t \in Tasks
  BY <1>0, <1>3, <1>5 DEF Tasks
<1>7. t.pc = pc /\ t.took = {} /\ t.sweep = {} /\ t.claim = task[r].claim /\ t.order = placed + 1
  BY DEF Idle
<1> HIDE DEF t
<1>8. Good(t, placed', limit) /\ EmptyHanded(t)
  <2>1. placed + 1 \in 1..placed'
    BY <1>0, <1>1
  <2> QED BY <1>0, <1>3, <1>6, <1>7, <2>1 DEF Good, TaskOK, OfOrder, EmptyHanded, Owing
<1>9. PICK pay \in Payable : orders' = [orders EXCEPT ![placed + 1] = Row(task[r], pay)]
  BY DEF CreateOrder, Payable
<1> DEFINE x == Row(task[r], pay)
<1>10. x \in Orders
  BY <1>0 DEF Row, NoOrder, Orders, Tasks, PayStatus, Payable, Claims
<1>11. /\ x.pay \in Payable /\ x.lines = task[r].lines /\ x.claim = task[r].claim
       /\ x.row = FALSE /\ x.freed = FALSE
  BY DEF Row, NoOrder
<1>12. orders' = [orders EXCEPT ![placed + 1] = x]
  BY <1>9
<1> HIDE DEF x
<1>13. UNCHANGED <<stock, limit, usage, raced, lateSale, cutShort>>
  BY DEF CreateOrder, promotion, carts, faults, history
<1> QED BY <1>0, <1>1, <1>2, <1>3, <1>4, <1>7, <1>8, <1>10, <1>11, <1>12, <1>13

\* A payment is reported: the request carries the status it read.
LEMMA ReportStep ==
  ASSUME Shape, NEW r \in Requests, NEW o \in OrderIds, ReportPaid(r, o)
  PROVE  /\ EmptyHanded(task[r]) /\ o \in 1..placed
         /\ \E t : /\ Become(r, t) /\ Good(t, placed, limit) /\ EmptyHanded(t)
                   /\ t.pc = "payFlip" /\ t.order = o /\ t.read = orders[o].pay
         /\ UNCHANGED <<stock, limit, usage, orders, placed, raced, lateSale, cutShort>>
<1>0. EmptyHanded(task[r]) /\ placed \in Nat
  BY GoodTask DEF ReportPaid, Notice, At, Owing
<1>1. o \in 1..placed
  <2>1. orders[o].pay # "none"
    BY DEF ReportPaid, Notice
  <2>2. ~(o > placed)
    BY <2>1 DEF Shape, OrdersOK, NoOrder
  <2> QED BY <1>0, <2>2, BoundsOK DEF OrderIds
<1> DEFINE t == [Idle EXCEPT !.pc = "payFlip", !.kind = "paid", !.order = o, !.read = orders[o].pay]
<1>2. orders[o].pay \in PayStatus /\ o \in 0..MaxOrders
  <2>1. orders[o] \in Orders
    BY <1>1, OrderRow
  <2> QED BY <2>1, BoundsOK DEF Orders, OrderIds
<1>3. t \in Tasks
  BY <1>0, <1>2, IdleGood DEF Good, Tasks
<1>4. /\ t.pc = "payFlip" /\ t.took = {} /\ t.sweep = {} /\ t.claim = "none" /\ t.order = o
      /\ t.read = orders[o].pay
  BY DEF Idle
<1>5. Become(r, t)
  BY DEF ReportPaid, Notice
<1> HIDE DEF t
<1>6. Good(t, placed, limit) /\ EmptyHanded(t)
  BY <1>1, <1>3, <1>4 DEF Good, TaskOK, OfOrder, EmptyHanded, Owing
<1> QED BY <1>0, <1>1, <1>4, <1>5, <1>6 DEF ReportPaid, Notice, promotion, faults, history

\* A failed create() compensates.
LEMMA UndoStep ==
  ASSUME Shape, NEW r \in Requests, CreateThrows(r)
  PROVE  /\ task[r].pc \in {"stock", "row"}
         /\ \E t : /\ Turns(r, t) /\ t.pc \in {"undo", "release", "idle"}
                   /\ t.took = task[r].took /\ (Reserves(t) <=> Reserves(task[r]))
         /\ UNCHANGED <<stock, limit, usage, orders, placed, raced, lateSale, cutShort>>
<1>0. /\ task[r].pc \in {"stock", "row"} /\ Good(task[r], placed, limit)
      /\ placed \in 0..MaxOrders
  BY GoodTask DEF CreateThrows
<1> DEFINE t == Undo(r)
<1>1. /\ Good(t, placed, limit) /\ t.took = task[r].took
      /\ t.pc \in {"undo", "release", "idle"}
      /\ task[r].claim = "reserved" => t.claim = "reserved" /\ t.pc # "idle"
      /\ task[r].claim # "reserved" => t.claim # "reserved"
  BY <1>0, UndoGood
<1>2. Become(r, t) /\ Cut(FALSE)
  BY DEF CreateThrows
<1> HIDE DEF t
<1>3. Turns(r, t) /\ (Reserves(t) <=> Reserves(task[r]))
  BY <1>0, <1>1, <1>2 DEF Turns, Reserves
<1>4. UNCHANGED <<stock, limit, usage, orders, placed, raced, lateSale, cutShort>>
  BY <1>2, CutNothing DEF Shape
<1> QED BY <1>0, <1>1, <1>3, <1>4

\* A failure that costs somebody a unit or a redemption.
Costly(r) ==
  \/ FailThrows(r) /\ At(r, "restore")
  \/ CouponThrows(r) /\ At(r, "free")
  \/ \E i \in Skus : LineThrows(r, i)
  \/ Interrupt(r) /\ task[r].pc \in Owing

LEMMA CostlyStep ==
  ASSUME Shape, NEW r \in Requests, Costly(r)
  PROVE  /\ \E t : Turns(r, t) /\ t.took \subseteq task[r].took
         /\ cutShort' = TRUE
         /\ UNCHANGED <<stock, limit, usage, orders, placed, raced, lateSale>>
<1>0. /\ task[r] \in Tasks /\ Good(task[r], placed, limit) /\ placed \in 0..MaxOrders
      /\ placed \in Nat
      /\ task[r].pc \notin {"stock", "row", "undo"} => task[r].took = {}
      /\ task[r].pc \in OfOrder => task[r].order \in 1..placed
  BY GoodTask
<1>1. ASSUME Cut(TRUE)
      PROVE  cutShort' = TRUE /\ UNCHANGED <<stock, limit, usage, orders, placed, raced, lateSale>>
  <2>1. cutShort' = TRUE
    BY <1>1 DEF Cut
  <2> QED BY <1>1, <2>1, CutKeeps DEF Shape
<1>2. CASE FailThrows(r) /\ At(r, "restore")
  <2>1. /\ task[r].pc = "restore" /\ task[r].order \in 1..placed /\ task[r].took = {} /\ Cut(TRUE)
    <3>1. At(r, "restore") = TRUE /\ task[r].pc = "restore"
      BY <1>2 DEF At
    <3> QED BY <1>0, <1>2, <3>1 DEF FailThrows, OfOrder
  <2>2. ASSUME NEW t, Good(t, placed, limit), EmptyHanded(t), t.pc \notin {"usage", "payFlip"},
               Become(r, t)
        PROVE  Turns(r, t) /\ t.took \subseteq task[r].took
    BY <2>2 DEF Turns, EmptyHanded
  <2>3. CASE Become(r, SweepOn(task[r], {}))
    <3> DEFINE t == SweepOn(task[r], {})
    <3>1. Good(t, placed, limit) /\ EmptyHanded(t) /\ t.pc \notin {"usage", "payFlip"}
      BY <1>0, SweepOnGood
    <3>2. Become(r, t)
      BY <2>3
    <3> HIDE DEF t
    <3> QED BY <1>1, <2>1, <2>2, <3>1, <3>2
  <2>4. CASE Become(r, AfterFail(task[r], FALSE))
    <3> DEFINE t == AfterFail(task[r], FALSE)
    <3>1. Good(t, placed, limit) /\ EmptyHanded(t) /\ t.pc \notin {"usage", "payFlip"}
      BY <1>0, <2>1, AfterFailGood
    <3>2. Become(r, t)
      BY <2>4
    <3> HIDE DEF t
    <3> QED BY <1>1, <2>1, <2>2, <3>1, <3>2
  <2> QED BY <1>2, <2>3, <2>4 DEF FailThrows
<1>3. CASE CouponThrows(r) /\ At(r, "free")
  <2>1. /\ task[r].order \in 1..placed /\ task[r].took = {} /\ Cut(TRUE) /\ Become(r, AfterCoupon(r))
    <3>1. At(r, "free") = TRUE /\ task[r].pc = "free"
      BY <1>3 DEF At
    <3> QED BY <1>0, <1>3, <3>1 DEF CouponThrows, OfOrder
  <2> DEFINE t == AfterCoupon(r)
  <2>2. Good(t, placed, limit) /\ EmptyHanded(t) /\ t.pc \notin {"usage", "payFlip"}
    BY <1>0, <2>1, AfterCouponGood
  <2>3. Become(r, t)
    BY <2>1
  <2> HIDE DEF t
  <2>4. Turns(r, t) /\ t.took \subseteq task[r].took
    BY <2>2, <2>3 DEF Turns, EmptyHanded
  <2> QED BY <1>1, <2>1, <2>4
<1>4. ASSUME NEW i \in Skus, LineThrows(r, i)
      PROVE  \E t : Turns(r, t) /\ t.took \subseteq task[r].took
  BY <1>4, UndoneLine, RestoredLine, RetakenLine DEF LineThrows
<1>5. ASSUME NEW i \in Skus, LineThrows(r, i) PROVE Cut(TRUE)
  BY <1>5 DEF LineThrows
<1>6. CASE Interrupt(r) /\ task[r].pc \in Owing
  <2> DEFINE b == task[r].pc \in {"stock", "row", "undo", "release", "restore", "free", "retake"}
  <2>1. b = TRUE
    BY <1>6 DEF Owing
  <2>2. Become(r, Idle) /\ Cut(b)
    BY <1>6 DEF Interrupt
  <2> HIDE DEF b
  <2>3. Good(Idle, placed, limit) /\ Idle.took = {} /\ Idle.pc = "idle"
    BY <1>0, IdleGood DEF Idle
  <2>4. Turns(r, Idle) /\ Idle.took \subseteq task[r].took /\ Cut(TRUE)
    BY <2>1, <2>2, <2>3 DEF Turns
  <2> QED BY <1>1, <2>4
<1> QED BY <1>1, <1>2, <1>3, <1>4, <1>5, <1>6 DEF Costly

-------------------------------------------------------------------------------
(* Every step is one of these.                                               *)

\* Something nobody's request does.
Aside ==
  /\ UNCHANGED <<stock, limit, usage, placed, task, raced, lateSale, cutShort>>
  /\ OrdersTied

Moves(r) ==
  \E i \in Skus : TakeStock(r, i) \/ UndoLine(r, i) \/ RestoreLine(r, i) \/ RetakeLine(r, i)

Trades(r) ==
  \/ Quotes(r) \/ ClaimRedemption(r) \/ ReleaseRedemption(r) \/ CountUsage(r)
  \/ CreateOrder(r) \/ RecordUsage(r) \/ CreateThrows(r)
  \/ FailFlip(r) /\ Order(r).pay \notin {"paid", "failed"}
  \/ PayFlip(r) /\ Order(r).pay # "paid"
  \/ DeleteUsage(r) /\ Order(r).row
  \/ \E o \in OrderIds : ReportPaid(r, o)

LEMMA StepCases ==
  ASSUME Shape, [Next]_vars
  PROVE  Aside \/ \E r \in Requests : Light(r) \/ Moves(r) \/ Trades(r) \/ Costly(r)
<1>1. ASSUME NEW b \in Buyers, NEW lines \in SUBSET Skus, FillCart(b, lines) PROVE Aside
  BY <1>1 DEF FillCart, Aside, OrdersTied, promotion, book, faults, history
<1>2. ASSUME NEW o \in OrderIds, Age(o) PROVE Aside
  <2>1. o \in 1..placed
    <3>1. ~(o > placed)
      BY <1>2 DEF Age, Shape, OrdersOK, NoOrder
    <3> QED BY <3>1, BoundsOK DEF OrderIds, Shape, TypeOK
  <2>2. OrdersTied
    BY <1>2, <2>1, AgedRow DEF Age, OrdersTied
  <2> QED BY <1>2, <2>2 DEF Age, Aside, promotion, faults, history
<1>3. ASSUME NEW r \in Requests, Start(r) PROVE Light(r) \/ Trades(r)
  <2>1. CASE \/ \E coupon \in BOOLEAN : CartCheckout(r, coupon)
             \/ \E o \in OrderIds : ReportFailed(r, o) \/ Detach(r, o)
    BY <2>1, LightStarts
  <2>2. CASE \/ \E lines \in SUBSET Skus, coupon \in BOOLEAN : SnapshotCheckout(r, lines, coupon)
             \/ \E o \in OrderIds : ReportPaid(r, o)
    BY <2>2 DEF Trades, Quotes
  <2> QED BY <1>3, <2>1, <2>2 DEF Start
<1>4. ASSUME NEW r \in Requests, Proceed(r) PROVE Light(r) \/ Moves(r) \/ Trades(r)
  <2>1. CASE \/ ValidateCoupon(r) \/ EmptyCart(r) \/ LinkOrder(r) \/ FailRead(r)
             \/ FailFlip(r) /\ Order(r).pay \in {"paid", "failed"}
             \/ FindUsage(r)
             \/ DeleteUsage(r) /\ ~Order(r).row
             \/ Unlink(r) \/ Relink(r)
             \/ PayFlip(r) /\ Order(r).pay = "paid"
    BY <2>1, LightProceeds
  <2>2. CASE \/ ReadCart(r) \/ ClaimRedemption(r) \/ ReleaseRedemption(r) \/ CountUsage(r)
             \/ CreateOrder(r) \/ RecordUsage(r)
             \/ FailFlip(r) /\ Order(r).pay \notin {"paid", "failed"}
             \/ PayFlip(r) /\ Order(r).pay # "paid"
             \/ DeleteUsage(r) /\ Order(r).row
    BY <2>2 DEF Trades, Quotes
  <2>3. CASE FailFlip(r)
    BY <2>1, <2>2, <2>3
  <2>4. CASE DeleteUsage(r)
    BY <2>1, <2>2, <2>4
  <2>5. CASE PayFlip(r)
    BY <2>1, <2>2, <2>5
  <2>6. CASE \E i \in Skus : \/ TakeStock(r, i) \/ UndoLine(r, i)
                            \/ RestoreLine(r, i) \/ RetakeLine(r, i)
    BY <2>6 DEF Moves
  <2>7. CASE \/ ReadCart(r) \/ ClaimRedemption(r) \/ ReleaseRedemption(r) \/ CountUsage(r)
             \/ CreateOrder(r) \/ RecordUsage(r)
    BY <2>2, <2>7
  <2>8. CASE \/ ValidateCoupon(r) \/ EmptyCart(r) \/ LinkOrder(r) \/ FailRead(r)
             \/ FindUsage(r) \/ Unlink(r) \/ Relink(r)
    BY <2>1, <2>8
  <2> QED BY <1>4, <2>3, <2>4, <2>5, <2>6, <2>7, <2>8 DEF Proceed
<1>5. ASSUME NEW r \in Requests, Fail(r) PROVE Light(r) \/ Trades(r) \/ Costly(r)
  <2>1. CASE \/ UsageThrows(r)
             \/ FailThrows(r) /\ ~At(r, "restore")
             \/ CouponThrows(r) /\ ~At(r, "free")
             \/ Interrupt(r) /\ task[r].pc \notin Owing
    BY <2>1, LightFailures
  <2>2. CASE CreateThrows(r)
    BY <2>2 DEF Trades
  <2>3. CASE Costly(r)
    BY <2>3
  <2> QED BY <1>5, <2>1, <2>2, <2>3 DEF Fail, Costly
<1>6. CASE UNCHANGED vars
  BY <1>6 DEF vars, Aside, OrdersTied
<1> QED BY <1>1, <1>2, <1>3, <1>4, <1>5, <1>6 DEF Next

-------------------------------------------------------------------------------
(* The shape is kept.                                                        *)

LEMMA TurnShape ==
  ASSUME Shape, NEW r \in Requests, NEW t, Turns(r, t), UNCHANGED <<placed, limit>>,
         UNCHANGED orders \/ \E o \in 1..placed : \E x : Amends(o, x),
         RestOK', NoOversell'
  PROVE  Shape'
BY PlainStep, AmendStep DEF Turns

\* An order whose redemption record is written or deleted.
LEMMA RecordedShape ==
  ASSUME Shape, NEW r \in Requests, NEW t, Turns(r, t), UNCHANGED <<placed, limit>>,
         NEW o \in 1..placed, NEW x \in Orders, orders' = [orders EXCEPT ![o] = x],
         x.pay = orders[o].pay, x.claim = orders[o].claim, x.claim # "none",
         x.row => ~x.freed,
         \A q \in Requests \ {r} : At(q, "usage") => task[q].order # o,
         RestOK', NoOversell'
  PROVE  Shape'
<1>1. placed \in 0..MaxOrders /\ placed >= placed /\ placed \in Nat
  BY BoundsOK DEF Shape, TypeOK
<1>2. task' \in [Requests -> Tasks] /\ TasksOK'
  BY <1>1, BecomeShape DEF Shape, Turns
<1>3. NoNews
  BY BecomeNoNews DEF Shape, Turns
<1>4. o \in OrderIds /\ o <= placed
  BY <1>1, OrderRow
<1>5. orders' \in [OrderIds -> Orders]
  BY <1>4 DEF Shape, TypeOK
<1>6. orders'[o] = x /\ \A p \in OrderIds : p # o => orders'[p] = orders[p]
  BY <1>4 DEF Shape, TypeOK
<1>7. OrdersOK'
  <2>1. ASSUME NEW p \in OrderIds
        PROVE  /\ p > placed => orders'[p] = NoOrder
               /\ p <= placed => orders'[p].pay # "none"
               /\ orders'[p].row => ~orders'[p].freed /\ orders'[p].claim # "none"
               /\ orders'[p].claim = "unlimited" => limit = NoLimit
    <3>1. CASE p = o
      <4>1. ~(o > placed)
        BY <1>1, <1>4
      <4>2. x.pay # "none" /\ (x.claim = "unlimited" => limit = NoLimit)
        BY <1>4 DEF Shape, OrdersOK
      <4> QED BY <1>6, <3>1, <4>1, <4>2
    <3>2. CASE p # o
      BY <1>6, <3>2 DEF Shape, OrdersOK
    <3> QED BY <3>1, <3>2
  <2> QED BY <2>1 DEF OrdersOK
<1>8. ASSUME NEW q \in Requests, task'[q].pc \in {"usage", "payFlip"}
      PROVE  task'[q] = task[q] /\ q # r /\ task[q].order \in OrderIds
  <2>1. task'[q] = task[q]
    BY <1>8, <1>3 DEF NoNews
  <2>2. q # r
    BY <1>8 DEF Turns, Become, Shape, TypeOK
  <2>3. task[q].order \in 1..placed
    BY <1>8, <2>1 DEF Shape, TasksOK, TaskOK, OfOrder
  <2> QED BY <2>1, <2>2, <2>3, OrderRow
<1>9. SeenFailed'
  BY <1>6, <1>8 DEF Shape, SeenFailed, At, Order
<1>10. Unrecorded'
  BY <1>6, <1>8 DEF Shape, Unrecorded, At, Order
<1> QED BY <1>1, <1>2, <1>5, <1>7, <1>9, <1>10, ShapeParts

\* A new order, and the request that is going to record its redemption.
LEMMA CreateShape ==
  ASSUME Shape, NEW r \in Requests, CreateOrder(r), RestOK', NoOversell'
  PROVE  Shape'
<1>1. /\ placed' = placed + 1 /\ placed + 1 \in OrderIds /\ placed' \in 0..MaxOrders
      /\ task[r].claim = "unlimited" => limit = NoLimit
      /\ limit' = limit
  BY CreateStep
<1>2. PICK t, x : /\ Become(r, t) /\ Good(t, placed', limit) /\ EmptyHanded(t)
                  /\ t.pc \in {"usage", "empty", "link"} /\ t.claim = task[r].claim
                  /\ t.order = placed + 1
                  /\ orders' = [orders EXCEPT ![placed + 1] = x]
                  /\ x \in Orders /\ x.pay \in Payable /\ x.lines = task[r].lines
                  /\ x.claim = task[r].claim /\ ~x.row /\ ~x.freed
  BY CreateStep
<1>3. placed \in Nat /\ placed' >= placed
  BY <1>1, GoodTask
<1>4. task' \in [Requests -> Tasks] /\ TasksOK'
  BY <1>1, <1>2, <1>3, BecomeShape DEF Shape
<1>5. orders' \in [OrderIds -> Orders]
  BY <1>1, <1>2 DEF Shape, TypeOK
<1>6. orders'[placed + 1] = x /\ \A p \in OrderIds : p # placed + 1 => orders'[p] = orders[p]
  BY <1>1, <1>2 DEF Shape, TypeOK
<1>7. OrdersOK'
  <2>1. ASSUME NEW p \in OrderIds
        PROVE  /\ p > placed' => orders'[p] = NoOrder
               /\ p <= placed' => orders'[p].pay # "none"
               /\ orders'[p].row => ~orders'[p].freed /\ orders'[p].claim # "none"
               /\ orders'[p].claim = "unlimited" => limit' = NoLimit
    <3>1. CASE p = placed + 1
      <4>1. ~(p > placed') /\ x.pay # "none"
        BY <1>1, <1>2, <1>3, <3>1 DEF Payable
      <4> QED BY <1>1, <1>2, <1>6, <3>1, <4>1
    <3>2. CASE p # placed + 1
      <4>1. (p > placed' => p > placed) /\ (p <= placed' => p <= placed)
        BY <1>1, <1>3, <3>2, BoundsOK DEF OrderIds
      <4>2. orders'[p] = orders[p]
        BY <1>6, <3>2
      <4> QED BY <1>1, <4>1, <4>2 DEF Shape, OrdersOK
    <3> QED BY <3>1, <3>2
  <2> QED BY <2>1 DEF OrdersOK
<1>8. ASSUME NEW q \in Requests, q # r, task[q].pc \in {"usage", "payFlip"}
      PROVE  /\ task'[q] = task[q] /\ task[q].order \in OrderIds /\ task[q].order # placed + 1
             /\ Order(q)' = Order(q)
  <2>1. task'[q] = task[q]
    BY <1>2, <1>8 DEF Become, Shape, TypeOK
  <2>2. task[q].order \in 1..placed
    BY <1>8, GoodTask DEF OfOrder
  <2>3. task[q].order \in OrderIds /\ task[q].order # placed + 1
    BY <1>3, <2>2, OrderRow
  <2> QED BY <1>6, <2>1, <2>3 DEF Order
<1>9. task'[r] = t /\ \A q \in Requests : q # r => task'[q] = task[q]
  BY <1>2 DEF Become, Shape, TypeOK
<1>10. SeenFailed'
  <2>1. ASSUME NEW q \in Requests, At(q, "payFlip")', task'[q].read = "failed"
        PROVE  Order(q)'.pay \in {"failed", "paid"}
    <3>1. q # r
      BY <1>2, <1>9, <2>1 DEF At
    <3>2. task'[q] = task[q]
      BY <1>9, <3>1
    <3> QED BY <1>8, <2>1, <3>1, <3>2 DEF Shape, SeenFailed, At
  <2> QED BY <2>1 DEF SeenFailed
<1>11. Unrecorded'
  <2>1. ASSUME NEW q \in Requests, At(q, "usage")'
        PROVE  ~Order(q)'.row /\ ~Order(q)'.freed /\ Order(q)'.claim = task'[q].claim
    <3>1. CASE q = r
      <4>1. Order(q)' = x
        BY <1>2, <1>6, <1>9, <3>1 DEF Order
      <4> QED BY <1>2, <1>9, <3>1, <4>1
    <3>2. CASE q # r
      <4>1. task'[q] = task[q]
        BY <1>9, <3>2
      <4> QED BY <1>8, <2>1, <3>2, <4>1 DEF Shape, Unrecorded, At
    <3> QED BY <3>1, <3>2
  <2>2. ASSUME NEW p \in Requests, NEW q \in Requests, At(p, "usage")', At(q, "usage")',
               task'[p].order = task'[q].order
        PROVE  p = q
    <3>1. CASE p # r /\ q # r
      BY <1>9, <2>2, <3>1 DEF Shape, Unrecorded, At
    <3>2. CASE p = r /\ q # r
      BY <1>2, <1>8, <1>9, <2>2, <3>2 DEF At
    <3>3. CASE p # r /\ q = r
      BY <1>2, <1>8, <1>9, <2>2, <3>3 DEF At
    <3> QED BY <3>1, <3>2, <3>3
  <2> QED BY <2>1, <2>2 DEF Unrecorded
<1> QED BY <1>1, <1>4, <1>5, <1>7, <1>10, <1>11, ShapeParts

\* A payment that is reported has read the order as it is.
LEMMA ReportShape ==
  ASSUME Shape, NEW r \in Requests, NEW o \in OrderIds, ReportPaid(r, o), RestOK', NoOversell'
  PROVE  Shape'
<1>1. UNCHANGED <<orders, placed, limit>> /\ o \in 1..placed
  BY ReportStep
<1>2. PICK t : /\ Become(r, t) /\ Good(t, placed, limit)
               /\ t.pc = "payFlip" /\ t.order = o /\ t.read = orders[o].pay
  BY ReportStep
<1>3. placed \in 0..MaxOrders /\ placed >= placed
  BY GoodTask
<1>4. task' \in [Requests -> Tasks] /\ TasksOK'
  BY <1>1, <1>2, <1>3, BecomeShape DEF Shape
<1>5. task'[r] = t /\ \A q \in Requests : q # r => task'[q] = task[q]
  BY <1>2 DEF Become, Shape, TypeOK
<1>6. SeenFailed'
  <2>1. ASSUME NEW q \in Requests, At(q, "payFlip")', task'[q].read = "failed"
        PROVE  Order(q)'.pay \in {"failed", "paid"}
    <3>1. CASE q = r
      BY <1>1, <1>2, <1>5, <2>1, <3>1 DEF Order
    <3>2. CASE q # r
      BY <1>1, <1>5, <2>1, <3>2 DEF Shape, SeenFailed, At, Order
    <3> QED BY <3>1, <3>2
  <2> QED BY <2>1 DEF SeenFailed
<1>7. Unrecorded'
  BY <1>1, <1>2, <1>5 DEF Shape, Unrecorded, At, Order
<1>8. orders' \in [OrderIds -> Orders] /\ OrdersOK'
  BY <1>1 DEF Shape, TypeOK, OrdersOK
<1>9. placed' \in 0..MaxOrders
  BY <1>1, <1>3
<1> QED BY <1>4, <1>6, <1>7, <1>8, <1>9, ShapeParts

LEMMA AsideShape ==
  ASSUME Shape, Aside, RestOK', NoOversell'
  PROVE  Shape'
<1>1. UNCHANGED <<placed, limit, task>>
  BY DEF Aside
<1>2. NoNews
  BY <1>1 DEF NoNews
<1>3. task' \in [Requests -> Tasks] /\ TasksOK' /\ placed' \in 0..MaxOrders
  BY <1>1 DEF Shape, TypeOK, TasksOK
<1>4. CASE UNCHANGED orders
  BY <1>1, <1>2, <1>3, <1>4, SameOrders, ShapeParts DEF Shape
<1>5. CASE \E o \in 1..placed : \E x : Amends(o, x)
  <2>1. PICK o \in 1..placed : \E x : Amends(o, x)
    BY <1>5
  <2>2. PICK x : Amends(o, x)
    BY <2>1
  <2> QED BY <1>1, <1>2, <1>3, <2>2, AmendedOrders, ShapeParts DEF Shape
<1> QED BY <1>4, <1>5 DEF Aside, OrdersTied

\* The redemption record is written, or deleted.
LEMMA RecordShape ==
  ASSUME Shape, NEW r \in Requests, RecordUsage(r), RestOK', NoOversell'
  PROVE  Shape'
<1> DEFINE o == task[r].order
           x == [orders[o] EXCEPT !.row = TRUE]
<1>1. /\ o \in 1..placed /\ task[r].pc = "usage" /\ ~orders[o].freed /\ orders[o].claim # "none"
      /\ orders' = [orders EXCEPT ![o] = x] /\ UNCHANGED <<placed, limit>>
  BY RecordStep DEF Order
<1>2. PICK t : Turns(r, t)
  BY RecordStep
<1>3. orders[o] \in Orders
  BY <1>1, OrderRow
<1>4. x \in Orders
  BY <1>3 DEF Orders
<1>5. x.pay = orders[o].pay /\ x.claim = orders[o].claim /\ x.freed = orders[o].freed /\ x.row = TRUE
  BY <1>3 DEF Orders
<1>6. \A q \in Requests \ {r} : At(q, "usage") => task[q].order # o
  BY <1>1 DEF Shape, Unrecorded, At
<1> HIDE DEF x, o
<1> QED BY <1>1, <1>2, <1>4, <1>5, <1>6, RecordedShape, ZenonT(40)

LEMMA DeleteShape ==
  ASSUME Shape, NEW r \in Requests, DeleteUsage(r), Order(r).row, RestOK', NoOversell'
  PROVE  Shape'
<1> DEFINE o == task[r].order
           x == [orders[o] EXCEPT !.row = FALSE, !.freed = TRUE]
<1>1. /\ o \in 1..placed /\ orders[o].claim # "none"
      /\ orders' = [orders EXCEPT ![o] = x] /\ UNCHANGED <<placed, limit>>
  BY DeleteStep DEF Order
<1>2. PICK t : Turns(r, t)
  BY DeleteStep
<1>3. orders[o] \in Orders
  BY <1>1, OrderRow
<1>4. x \in Orders
  BY <1>3 DEF Orders
<1>5. x.pay = orders[o].pay /\ x.claim = orders[o].claim /\ x.row = FALSE
  BY <1>3 DEF Orders
<1>6. \A q \in Requests \ {r} : At(q, "usage") => task[q].order # o
  BY DEF Shape, Unrecorded, At, Order
<1> HIDE DEF x, o
<1> QED BY <1>1, <1>2, <1>4, <1>5, <1>6, RecordedShape

LEMMA MoveTurns ==
  ASSUME Shape, NEW r \in Requests, Moves(r)
  PROVE  UNCHANGED <<limit, usage, orders, placed, raced, cutShort>> /\ \E t : Turns(r, t)
<1>1. PICK i \in Skus : TakeStock(r, i) \/ UndoLine(r, i) \/ RestoreLine(r, i) \/ RetakeLine(r, i)
  BY DEF Moves
<1>2. UNCHANGED <<limit, usage, orders, placed, raced, cutShort>>
  BY <1>1 DEF TakeStock, UndoLine, RestoreLine, RetakeLine, promotion, carts, book, faults, history
<1>3. CASE TakeStock(r, i)
  BY <1>2, <1>3, TakeStep
<1>4. CASE UndoLine(r, i)
  BY <1>2, <1>4, UndoneLine DEF UndoLine
<1>5. CASE RestoreLine(r, i)
  BY <1>2, <1>5, RestoredLine DEF RestoreLine
<1>6. CASE RetakeLine(r, i)
  BY <1>2, <1>6, RetakenLine DEF RetakeLine
<1> QED BY <1>1, <1>3, <1>4, <1>5, <1>6

LEMMA ShapeStep ==
  ASSUME Shape, [Next]_vars
  PROVE  Shape'
<1>0. RestOK' /\ NoOversell'
  BY RestStep, NoOversellStep DEF Shape
<1>1. CASE Aside
  BY <1>0, <1>1, AsideShape
<1>2. ASSUME NEW r \in Requests, Light(r) PROVE Shape'
  BY <1>0, <1>2, LightShape
<1>3. ASSUME NEW r \in Requests, NEW t, Turns(r, t), UNCHANGED <<orders, placed, limit>> PROVE Shape'
  BY <1>0, <1>3, TurnShape
<1>4. ASSUME NEW r \in Requests, Moves(r) PROVE Shape'
  BY <1>3, <1>4, MoveTurns
<1>5. ASSUME NEW r \in Requests, Costly(r) PROVE Shape'
  BY <1>3, <1>5, CostlyStep
<1>6. ASSUME NEW r \in Requests, Trades(r) PROVE Shape'
  <2>1. CASE Quotes(r)
    BY <1>3, <2>1, QuoteStep
  <2>2. CASE ClaimRedemption(r)
    BY <1>3, <2>2, ClaimStep
  <2>3. CASE ReleaseRedemption(r)
    BY <1>3, <2>3, ReleaseStep
  <2>4. CASE CountUsage(r)
    BY <1>3, <2>4, CountStep
  <2>5. CASE CreateThrows(r)
    BY <1>3, <2>5, UndoStep
  <2>6. CASE CreateOrder(r)
    BY <1>0, <2>6, CreateShape
  <2>7. CASE RecordUsage(r)
    BY <1>0, <2>7, RecordShape
  <2>8. CASE DeleteUsage(r) /\ Order(r).row
    BY <1>0, <2>8, DeleteShape
  <2>9. CASE \E o \in OrderIds : ReportPaid(r, o)
    BY <1>0, <2>9, ReportShape
  <2>10. CASE FailFlip(r) /\ Order(r).pay \notin {"paid", "failed"}
    <3>1. PICK t, x : Turns(r, t) /\ Amends(task[r].order, x)
      BY <2>10, FlipStep
    <3>2. task[r].order \in 1..placed /\ UNCHANGED <<placed, limit>>
      BY <2>10, FlipStep
    <3> QED BY <1>0, <3>1, <3>2, TurnShape
  <2>11. CASE PayFlip(r) /\ Order(r).pay # "paid"
    <3>1. PICK t, x : Turns(r, t) /\ Amends(task[r].order, x)
      BY <2>11, PayStep
    <3>2. task[r].order \in 1..placed /\ UNCHANGED <<placed, limit>>
      BY <2>11, PayStep
    <3> QED BY <1>0, <3>1, <3>2, TurnShape
  <2> QED BY <1>6, <2>1, <2>2, <2>3, <2>4, <2>5, <2>6, <2>7, <2>8, <2>9, <2>10, <2>11 DEF Trades
<1> QED BY <1>1, <1>2, <1>4, <1>5, <1>6, StepCases

LEMMA ShapeInit ==
  ASSUME Init
  PROVE  Shape
<1>0. 0 \in Nat /\ placed = 0 /\ limit \in Limits
  BY DEF Init
<1>1. Good(Idle, 0, limit) /\ Idle.pc = "idle"
  BY <1>0, IdleGood DEF Idle
<1>2. TypeOK
  <2>1. NoOrder \in Orders
    BY DEF NoOrder, Orders, PayStatus, Claims
  <2>2. orders \in [OrderIds -> Orders] /\ task \in [Requests -> Tasks]
    BY <1>1, <2>1 DEF Init, Good
  <2>3. stock \in [Skus -> Int]
    BY InitialNat DEF Init
  <2>4. 0 \in 0..MaxOrders /\ 0 \in 0..MaxBaskets /\ 0 \in 0..MaxNotices /\ 0 \in 0..MaxFailures
    BY BoundsOK
  <2>5. cart \in [Buyers -> SUBSET Skus] /\ owner \in [Requests -> Buyers]
    BY DEF Init
  <2> QED BY <2>2, <2>3, <2>4, <2>5 DEF Init, TypeOK
<1>3. TasksOK
  BY <1>0, <1>1 DEF Init, TasksOK, Good
<1>4. OrdersOK
  <2>1. \A o \in OrderIds : ~(o <= placed) /\ orders[o] = NoOrder
    BY <1>0, BoundsOK DEF Init, OrderIds
  <2> QED BY <2>1 DEF OrdersOK, NoOrder
<1>5. SeenFailed /\ Unrecorded
  BY <1>1 DEF Init, SeenFailed, Unrecorded, At
<1>6. NoOversell
  BY InitialNat DEF Init, NoOversell
<1> QED BY <1>2, <1>3, <1>4, <1>5, <1>6 DEF Shape

\* The state of the checkout is always of its declared form.
THEOREM Typed == Spec => []TypeOK
<1>1. Init => Shape
  BY ShapeInit
<1>2. Shape /\ [Next]_vars => Shape'
  BY ShapeStep
<1>3. Shape => TypeOK
  BY DEF Shape
<1> QED BY <1>1, <1>2, <1>3, PTL DEF Spec

\* create() never takes a unit that is not there, however many checkouts want the
\* last one: stock is negative only after a late payment sold goods again.
THEOREM NothingOversold == Spec => []NoOversell
<1>1. Init => Shape
  BY ShapeInit
<1>2. Shape /\ [Next]_vars => Shape'
  BY ShapeStep
<1>3. Shape => NoOversell
  BY DEF Shape
<1> QED BY <1>1, <1>2, <1>3, PTL DEF Spec

-------------------------------------------------------------------------------
(* Redemptions.                                                              *)

LEMMA CardinalityButOne ==
  ASSUME NEW S, NEW T, NEW x, IsFiniteSet(S), IsFiniteSet(T), S \ {x} = T \ {x}
  PROVE  /\ Cardinality(S) \in Nat /\ Cardinality(T) \in Nat
         /\ Cardinality(T) = Cardinality(S) + (IF x \in T THEN 1 ELSE 0)
                                            - (IF x \in S THEN 1 ELSE 0)
<1>1. Cardinality(S) \in Nat /\ Cardinality(T) \in Nat
  BY FS_CardinalityType
<1>2. Cardinality(S \ {x}) = IF x \in S THEN Cardinality(S) - 1 ELSE Cardinality(S)
  BY FS_RemoveElement
<1>3. Cardinality(T \ {x}) = IF x \in T THEN Cardinality(T) - 1 ELSE Cardinality(T)
  BY FS_RemoveElement
<1> QED BY <1>1, <1>2, <1>3

Redeems(x) == x.claim = "reserved" /\ ~x.freed

Redeemed  == {o \in OrderIds : Redeems(orders[o])}
Reserving == {r \in Requests : Reserves(task[r])}

\* What RedemptionsAccounted says, in these words.
LEMMA Accounted ==
  RedemptionsAccounted <=>
    (limit # NoLimit =>
       /\ usage <= limit
       /\ ~cutShort => usage = Cardinality(Redeemed) + Cardinality(Reserving))
BY DEF RedemptionsAccounted, Redeemed, Redeems, Reserving, Reserves

LEMMA AccountedNext ==
  RedemptionsAccounted' <=>
    (limit' # NoLimit =>
       /\ usage' <= limit'
       /\ ~cutShort' => usage' = Cardinality(Redeemed') + Cardinality(Reserving'))
BY DEF RedemptionsAccounted, Redeemed, Redeems, Reserving, Reserves

LEMMA RedemptionsFinite ==
  /\ IsFiniteSet(Redeemed) /\ IsFiniteSet(Redeemed')
  /\ IsFiniteSet(Reserving) /\ IsFiniteSet(Reserving')
<1>1. IsFiniteSet(OrderIds)
  BY BoundsOK, FS_Interval DEF OrderIds
<1> QED BY <1>1, RequestsFinite, FS_Subset DEF Redeemed, Reserving

LEMMA ReservingStep ==
  ASSUME TypeOK, NEW r \in Requests, NEW t, Become(r, t)
  PROVE  /\ Cardinality(Reserving) \in Nat
         /\ Cardinality(Reserving') = Cardinality(Reserving)
              + (IF Reserves(t) THEN 1 ELSE 0) - (IF Reserves(task[r]) THEN 1 ELSE 0)
         /\ Reserves(task[r]) => Cardinality(Reserving) >= 1
<1>1. task'[r] = t /\ \A q \in Requests : q # r => task'[q] = task[q]
  BY DEF TypeOK, Become
<1>2. Reserving \ {r} = Reserving' \ {r}
  BY <1>1 DEF Reserving, Reserves
<1>3. (r \in Reserving <=> Reserves(task[r])) /\ (r \in Reserving' <=> Reserves(t))
  BY <1>1 DEF Reserving, Reserves
<1>4. /\ Cardinality(Reserving) \in Nat /\ Cardinality(Reserving') \in Nat
      /\ Cardinality(Reserving') = Cardinality(Reserving)
           + (IF r \in Reserving' THEN 1 ELSE 0) - (IF r \in Reserving THEN 1 ELSE 0)
  BY <1>2, RedemptionsFinite, CardinalityButOne
<1>5. ASSUME Reserves(task[r]) PROVE Cardinality(Reserving) >= 1
  <2>1. Reserving # {}
    BY <1>3, <1>5
  <2>2. Cardinality(Reserving) # 0
    BY <2>1, RedemptionsFinite, FS_EmptySet
  <2> QED BY <1>4, <2>2
<1> QED BY <1>3, <1>4, <1>5

Writes(o, x) == orders' = [orders EXCEPT ![o] = x]

LEMMA RedeemedStep ==
  ASSUME TypeOK, NEW o \in OrderIds, NEW x, Writes(o, x)
  PROVE  /\ Cardinality(Redeemed) \in Nat
         /\ Cardinality(Redeemed') = Cardinality(Redeemed)
              + (IF Redeems(x) THEN 1 ELSE 0) - (IF Redeems(orders[o]) THEN 1 ELSE 0)
<1>1. orders'[o] = x /\ \A p \in OrderIds : p # o => orders'[p] = orders[p]
  BY DEF TypeOK, Writes
<1>2. Redeemed \ {o} = Redeemed' \ {o}
  BY <1>1 DEF Redeemed, Redeems
<1>3. (o \in Redeemed <=> Redeems(orders[o])) /\ (o \in Redeemed' <=> Redeems(x))
  BY <1>1 DEF Redeemed, Redeems
<1>4. /\ Cardinality(Redeemed) \in Nat
      /\ Cardinality(Redeemed') = Cardinality(Redeemed)
           + (IF o \in Redeemed' THEN 1 ELSE 0) - (IF o \in Redeemed THEN 1 ELSE 0)
  BY <1>2, RedemptionsFinite, CardinalityButOne
<1> QED BY <1>3, <1>4

\* Orders that are tied, aged or settled keep their redemption.
LEMMA RedeemedSame ==
  ASSUME TypeOK, UNCHANGED orders \/ \E o \in OrderIds : \E x : Amends(o, x)
  PROVE  Redeemed' = Redeemed /\ Cardinality(Redeemed) \in Nat
<1>0. Cardinality(Redeemed) \in Nat
  BY RedemptionsFinite, FS_CardinalityType
<1>1. CASE UNCHANGED orders
  BY <1>0, <1>1 DEF Redeemed
<1>2. ASSUME NEW o \in OrderIds, NEW x, Amends(o, x) PROVE Redeemed' = Redeemed
  <2>1. \A p \in OrderIds : orders'[p].claim = orders[p].claim /\ orders'[p].freed = orders[p].freed
    BY <1>2 DEF Amends, TypeOK
  <2> QED BY <2>1 DEF Redeemed, Redeems
<1> QED BY <1>0, <1>1, <1>2

LEMMA AccountedSame ==
  ASSUME RedemptionsAccounted, UNCHANGED <<limit, usage>>, cutShort' = cutShort,
         Redeemed' = Redeemed, Cardinality(Reserving') = Cardinality(Reserving)
  PROVE  RedemptionsAccounted'
BY Accounted, AccountedNext

\* A request moves on that answers for as many redemptions as before.
LEMMA AccountedTurn ==
  ASSUME Shape, RedemptionsAccounted, NEW r \in Requests, NEW t, Become(r, t),
         Reserves(t) <=> Reserves(task[r]), UNCHANGED <<limit, usage, cutShort>>,
         UNCHANGED orders \/ \E o \in 1..placed : \E x : Amends(o, x)
  PROVE  RedemptionsAccounted'
<1>1. Cardinality(Reserving') = Cardinality(Reserving)
  BY ReservingStep DEF Shape
<1>2. Redeemed' = Redeemed
  BY OrderRow, RedeemedSame DEF Shape
<1> QED BY <1>1, <1>2, AccountedSame

LEMMA AccountedMove ==
  ASSUME Shape, RedemptionsAccounted, NEW r \in Requests, Moves(r)
  PROVE  RedemptionsAccounted'
<1>1. UNCHANGED <<limit, usage, orders, cutShort>>
  BY MoveTurns
<1>2. PICK i \in Skus : TakeStock(r, i) \/ UndoLine(r, i) \/ RestoreLine(r, i) \/ RetakeLine(r, i)
  BY DEF Moves
<1>3. CASE TakeStock(r, i)
  <2>1. \E t : Become(r, t) /\ (Reserves(t) <=> Reserves(task[r]))
    BY <1>3, TakeStep DEF Turns
  <2> QED BY <1>1, <2>1, AccountedTurn
<1>4. CASE UndoLine(r, i)
  <2>1. \E t : Become(r, t) /\ (Reserves(t) <=> Reserves(task[r]))
    BY <1>4, UndoneLine DEF Turns, UndoLine
  <2> QED BY <1>1, <2>1, AccountedTurn
<1>5. CASE RestoreLine(r, i)
  <2>1. \E t : Become(r, t) /\ (Reserves(t) <=> Reserves(task[r]))
    BY <1>5, RestoredLine DEF Turns, RestoreLine
  <2> QED BY <1>1, <2>1, AccountedTurn
<1>6. CASE RetakeLine(r, i)
  <2>1. \E t : Become(r, t) /\ (Reserves(t) <=> Reserves(task[r]))
    BY <1>6, RetakenLine DEF Turns, RetakeLine
  <2> QED BY <1>1, <2>1, AccountedTurn
<1> QED BY <1>2, <1>3, <1>4, <1>5, <1>6

LEMMA EmptyReservesNothing ==
  ASSUME NEW t, EmptyHanded(t)
  PROVE  ~Reserves(t)
BY DEF EmptyHanded, Owing, Reserves

LEMMA CouponNumbers ==
  ASSUME Shape
  PROVE  /\ limit \in Int /\ (limit # NoLimit => limit \in Nat) /\ usage \in Nat
         /\ Cardinality(Redeemed) \in Nat /\ Cardinality(Reserving) \in Nat
<1>1. limit \in Nat \cup {NoLimit}
  BY LimitsOK DEF Shape, TypeOK
<1> QED BY <1>1, RedemptionsFinite, FS_CardinalityType DEF Shape, TypeOK, NoLimit

LEMMA AccountedClaim ==
  ASSUME Shape, RedemptionsAccounted, NEW r \in Requests, ClaimRedemption(r)
  PROVE  RedemptionsAccounted'
<1>0. UNCHANGED <<limit, orders, cutShort>> /\ ~Reserves(task[r])
  BY ClaimStep, EmptyReservesNothing
<1>1. PICK t : /\ Turns(r, t)
               /\ \/ limit = NoLimit
                  \/ ~Reserves(t) /\ usage' = usage
                  \/ Reserves(t) /\ usage < limit /\ usage' = usage + 1
  BY ClaimStep
<1>2. Become(r, t)
  BY <1>1 DEF Turns
<1>3. Cardinality(Reserving') = Cardinality(Reserving) + (IF Reserves(t) THEN 1 ELSE 0)
  BY <1>0, <1>2, CouponNumbers, ReservingStep DEF Shape
<1>4. Redeemed' = Redeemed
  BY <1>0, RedeemedSame DEF Shape
<1>5. CASE limit = NoLimit
  BY <1>0, <1>5, AccountedNext
<1>6. CASE ~Reserves(t) /\ usage' = usage
  <2>1. Cardinality(Reserving') = Cardinality(Reserving)
    BY <1>3, <1>6, CouponNumbers
  <2> QED BY <1>0, <1>4, <1>6, <2>1, AccountedSame
<1>7. CASE limit # NoLimit /\ Reserves(t) /\ usage < limit /\ usage' = usage + 1
  <2>1. Cardinality(Reserving') = Cardinality(Reserving) + 1
    BY <1>3, <1>7
  <2> QED BY <1>0, <1>4, <1>7, <2>1, CouponNumbers, Accounted, AccountedNext
<1> QED BY <1>1, <1>5, <1>6, <1>7

LEMMA AccountedRelease ==
  ASSUME Shape, RedemptionsAccounted, NEW r \in Requests, ReleaseRedemption(r)
  PROVE  RedemptionsAccounted'
<1>0. /\ UNCHANGED <<limit, orders, cutShort>> /\ Reserves(task[r])
      /\ usage' = (IF usage > 0 THEN usage - 1 ELSE usage)
  BY ReleaseStep
<1>1. PICK t : Become(r, t) /\ ~Reserves(t)
  BY ReleaseStep, EmptyReservesNothing DEF Turns
<1>2. /\ Cardinality(Reserving') = Cardinality(Reserving) - 1
      /\ Cardinality(Reserving) >= 1
  BY <1>0, <1>1, CouponNumbers, ReservingStep DEF Shape
<1>3. Redeemed' = Redeemed
  BY <1>0, RedeemedSame DEF Shape
<1>4. usage' <= usage /\ (usage >= 1 => usage' = usage - 1)
  BY <1>0, CouponNumbers
<1>5. ASSUME limit # NoLimit PROVE usage' <= limit
  BY <1>4, <1>5, <1>0, CouponNumbers, Accounted
<1>6. ASSUME limit # NoLimit, ~cutShort
      PROVE  usage' = Cardinality(Redeemed') + Cardinality(Reserving')
  <2>1. usage = Cardinality(Redeemed) + Cardinality(Reserving)
    BY <1>6, Accounted
  <2>2. usage >= 1
    BY <1>2, <2>1, CouponNumbers
  <2> QED BY <1>2, <1>3, <1>4, <2>1, <2>2, CouponNumbers
<1> QED BY <1>0, <1>5, <1>6, AccountedNext

\* The redemption goes over from the checkout to the order it places.
LEMMA AccountedCreate ==
  ASSUME Shape, RedemptionsAccounted, NEW r \in Requests, CreateOrder(r)
  PROVE  RedemptionsAccounted'
<1>0. /\ UNCHANGED <<limit, usage, cutShort>> /\ task[r].pc = "row"
      /\ placed + 1 \in OrderIds /\ orders[placed + 1] = NoOrder
  BY CreateStep
<1>1. PICK t, x : /\ Become(r, t) /\ EmptyHanded(t)
                  /\ orders' = [orders EXCEPT ![placed + 1] = x]
                  /\ x.claim = task[r].claim /\ ~x.freed
  BY CreateStep
<1>2. ~Reserves(t) /\ (Reserves(task[r]) <=> Redeems(x)) /\ ~Redeems(NoOrder)
  BY <1>0, <1>1, EmptyReservesNothing DEF Reserves, Redeems, NoOrder
<1>3. Cardinality(Reserving') = Cardinality(Reserving) - (IF Redeems(x) THEN 1 ELSE 0)
  BY <1>1, <1>2, CouponNumbers, ReservingStep DEF Shape
<1>4. Cardinality(Redeemed') = Cardinality(Redeemed) + (IF Redeems(x) THEN 1 ELSE 0)
  <2>1. Writes(placed + 1, x)
    BY <1>1 DEF Writes
  <2>2. Cardinality(Redeemed') = Cardinality(Redeemed)
          + (IF Redeems(x) THEN 1 ELSE 0) - (IF Redeems(orders[placed + 1]) THEN 1 ELSE 0)
    BY <1>0, <2>1, RedeemedStep DEF Shape
  <2> QED BY <1>0, <1>2, <2>2, CouponNumbers
<1>5. Cardinality(Redeemed') + Cardinality(Reserving') = Cardinality(Redeemed) + Cardinality(Reserving)
  BY <1>3, <1>4, CouponNumbers
<1> QED BY <1>0, <1>5, Accounted, AccountedNext

\* releaseOrderCoupon deletes the record: the redemption goes over to the request.
LEMMA AccountedDelete ==
  ASSUME Shape, RedemptionsAccounted, NEW r \in Requests, DeleteUsage(r), Order(r).row
  PROVE  RedemptionsAccounted'
<1> DEFINE o == task[r].order
           x == [orders[o] EXCEPT !.row = FALSE, !.freed = TRUE]
<1>0. /\ UNCHANGED <<limit, usage, cutShort>> /\ ~Reserves(task[r])
      /\ o \in 1..placed /\ ~orders[o].freed /\ orders[o].claim # "none"
      /\ orders' = [orders EXCEPT ![o] = x]
  BY DeleteStep, EmptyReservesNothing DEF Order
<1>1. PICK t : Become(r, t) /\ t.pc = "free"
  BY DeleteStep DEF Turns
<1>2. o \in OrderIds /\ orders[o] \in Orders
  BY <1>0, OrderRow
<1>3. x.freed = TRUE
  BY <1>2 DEF Orders
<1>4. CASE limit = NoLimit
  BY <1>0, <1>4, AccountedNext
<1>5. CASE limit # NoLimit
  <2>1. Redeems(orders[o])
    <3>1. orders[o].claim # "unlimited"
      BY <1>2, <1>5 DEF Shape, OrdersOK
    <3> QED BY <1>0, <1>2, <3>1 DEF Redeems, Orders, Claims
  <2>2. ~Redeems(x) /\ Reserves(t)
    BY <1>1, <1>3 DEF Redeems, Reserves
  <2> HIDE DEF x, o
  <2>w. Writes(o, x)
    BY <1>0 DEF Writes
  <2>3. Cardinality(Redeemed') = Cardinality(Redeemed) - 1
    BY <1>2, <2>1, <2>2, <2>w, CouponNumbers, RedeemedStep DEF Shape
  <2>4. Cardinality(Reserving') = Cardinality(Reserving) + 1
    BY <1>0, <1>1, <2>2, CouponNumbers, ReservingStep DEF Shape
  <2>5. Cardinality(Redeemed') + Cardinality(Reserving') = Cardinality(Redeemed) + Cardinality(Reserving)
    BY <2>3, <2>4, CouponNumbers
  <2> QED BY <1>0, <2>5, Accounted, AccountedNext
<1> QED BY <1>4, <1>5

LEMMA AccountedRecord ==
  ASSUME Shape, RedemptionsAccounted, NEW r \in Requests, RecordUsage(r)
  PROVE  RedemptionsAccounted'
<1> DEFINE o == task[r].order
           x == [orders[o] EXCEPT !.row = TRUE]
<1>0. /\ UNCHANGED <<limit, usage, cutShort>> /\ ~Reserves(task[r])
      /\ o \in 1..placed /\ orders' = [orders EXCEPT ![o] = x]
  BY RecordStep, EmptyReservesNothing
<1>1. PICK t : Become(r, t) /\ ~Reserves(t)
  BY RecordStep, EmptyReservesNothing DEF Turns
<1>2. o \in OrderIds /\ orders[o] \in Orders
  BY <1>0, OrderRow
<1>3. x.freed = orders[o].freed /\ x.claim = orders[o].claim
  BY <1>2 DEF Orders
<1>4. Redeems(x) <=> Redeems(orders[o])
  BY <1>3 DEF Redeems
<1> HIDE DEF x, o
<1>w. Writes(o, x)
  BY <1>0 DEF Writes
<1>5. Cardinality(Redeemed') = Cardinality(Redeemed)
  BY <1>2, <1>4, <1>w, CouponNumbers, RedeemedStep DEF Shape
<1>6. Cardinality(Reserving') = Cardinality(Reserving)
  BY <1>0, <1>1, CouponNumbers, ReservingStep DEF Shape
<1> QED BY <1>0, <1>5, <1>6, Accounted, AccountedNext

LEMMA AccountedTrade ==
  ASSUME Shape, RedemptionsAccounted, NEW r \in Requests, Trades(r)
  PROVE  RedemptionsAccounted'
<1>1. CASE Quotes(r)
  <2>1. UNCHANGED <<limit, usage, orders, cutShort>> /\ ~Reserves(task[r])
    BY <1>1, QuoteStep, EmptyReservesNothing
  <2>2. \E t : Become(r, t) /\ ~Reserves(t)
    BY <1>1, QuoteStep DEF Turns
  <2> QED BY <2>1, <2>2, AccountedTurn
<1>2. CASE CountUsage(r)
  <2>1. limit' = NoLimit
    BY <1>2, CountStep
  <2> QED BY <2>1, AccountedNext
<1>3. CASE CreateThrows(r)
  <2>1. UNCHANGED <<limit, usage, orders, cutShort>>
    BY <1>3, UndoStep
  <2>2. \E t : Become(r, t) /\ (Reserves(t) <=> Reserves(task[r]))
    BY <1>3, UndoStep DEF Turns
  <2> QED BY <2>1, <2>2, AccountedTurn
<1>4. CASE FailFlip(r) /\ Order(r).pay \notin {"paid", "failed"}
  <2>1. /\ UNCHANGED <<limit, usage, cutShort>> /\ task[r].order \in 1..placed
        /\ ~Reserves(task[r])
    BY <1>4, FlipStep, EmptyReservesNothing
  <2>2. \E t, x : Become(r, t) /\ ~Reserves(t) /\ Amends(task[r].order, x)
    BY <1>4, FlipStep DEF Turns
  <2> QED BY <2>1, <2>2, AccountedTurn
<1>5. CASE PayFlip(r) /\ Order(r).pay # "paid"
  <2>1. /\ UNCHANGED <<limit, usage, cutShort>> /\ task[r].order \in 1..placed
        /\ ~Reserves(task[r])
    BY <1>5, PayStep, EmptyReservesNothing
  <2>2. \E t, x : Become(r, t) /\ ~Reserves(t) /\ Amends(task[r].order, x)
    BY <1>5, PayStep DEF Turns
  <2> QED BY <2>1, <2>2, AccountedTurn
<1>6. ASSUME NEW o \in OrderIds, ReportPaid(r, o) PROVE RedemptionsAccounted'
  <2>1. UNCHANGED <<limit, usage, orders, cutShort>> /\ ~Reserves(task[r])
    BY <1>6, ReportStep, EmptyReservesNothing
  <2>2. \E t : Become(r, t) /\ ~Reserves(t)
    BY <1>6, ReportStep, EmptyReservesNothing
  <2> QED BY <2>1, <2>2, AccountedTurn
<1>7. CASE ClaimRedemption(r) \/ ReleaseRedemption(r) \/ CreateOrder(r) \/ RecordUsage(r)
  BY <1>7, AccountedClaim, AccountedRelease, AccountedCreate, AccountedRecord
<1>8. CASE DeleteUsage(r) /\ Order(r).row
  BY <1>8, AccountedDelete
<1> QED BY <1>1, <1>2, <1>3, <1>4, <1>5, <1>6, <1>7, <1>8 DEF Trades

LEMMA AccountedStep ==
  ASSUME Shape, RedemptionsAccounted, [Next]_vars
  PROVE  RedemptionsAccounted'
<1>1. CASE Aside
  <2>1. /\ UNCHANGED <<limit, usage, cutShort, task>>
        /\ UNCHANGED orders \/ \E o \in 1..placed : \E x : Amends(o, x)
    BY <1>1 DEF Aside, OrdersTied
  <2>2. Redeemed' = Redeemed /\ Reserving' = Reserving
    BY <2>1, OrderRow, RedeemedSame DEF Shape, Reserving
  <2> QED BY <2>1, <2>2, AccountedSame
<1>2. ASSUME NEW r \in Requests, Light(r) PROVE RedemptionsAccounted'
  <2>1. /\ UNCHANGED <<limit, usage, cutShort>> /\ ~Reserves(task[r])
        /\ UNCHANGED orders \/ \E o \in 1..placed : \E x : Amends(o, x)
    BY <1>2, EmptyReservesNothing DEF Light, OrdersTied
  <2>2. \E t : Become(r, t) /\ ~Reserves(t)
    BY <1>2, EmptyReservesNothing DEF Light
  <2> QED BY <2>1, <2>2, AccountedTurn
<1>3. ASSUME NEW r \in Requests, Costly(r) PROVE RedemptionsAccounted'
  <2>1. UNCHANGED <<limit, usage>> /\ cutShort' = TRUE
    BY <1>3, CostlyStep
  <2> QED BY <2>1, Accounted, AccountedNext
<1> QED BY <1>1, <1>2, <1>3, AccountedMove, AccountedTrade, StepCases

\* A limited coupon is never redeemed more often than its limit, and its counter is
\* the number of redemptions held by orders and by requests about to place one or to
\* hand one back, unless a request was cut short: of claimRedemption,
\* releaseRedemption and releaseOrderCoupon racing in any number of checkouts.
THEOREM LimitIsKept == Spec => []RedemptionsAccounted
<1>1. Init => Shape /\ RedemptionsAccounted
  <2>1. SUFFICES ASSUME Init PROVE Shape /\ RedemptionsAccounted
    OBVIOUS
  <2>0. Shape
    BY <2>1, ShapeInit
  <2>2. usage = 0 /\ limit \in Limits
    BY <2>1 DEF Init
  <2>3. Redeemed = {} /\ Reserving = {}
    <3>1. /\ \A o \in OrderIds : orders[o].claim = "none"
          /\ \A r \in Requests : task[r].pc = "idle"
      BY <2>1 DEF Init, NoOrder, Idle
    <3> QED BY <3>1 DEF Redeemed, Redeems, Reserving, Reserves
  <2>4. Cardinality(Redeemed) = 0 /\ Cardinality(Reserving) = 0
    BY <2>3, FS_EmptySet
  <2> QED BY <2>0, <2>2, <2>4, CouponNumbers, Accounted
<1>2. Shape /\ RedemptionsAccounted /\ [Next]_vars => (Shape /\ RedemptionsAccounted)'
  BY ShapeStep, AccountedStep
<1> QED BY <1>1, <1>2, PTL DEF Spec

-------------------------------------------------------------------------------
(* Units.                                                                    *)

OneIf(p) == IF p THEN 1 ELSE 0

\* What a request answers for of SKU s: what it took or has to hand back, less
\* what it has yet to take for a late payment.
Carries(t, s) == OneIf(s \in t.took) + OneIf(t.pc = "restore" /\ s \in t.todo)
                                     - OneIf(t.pc = "retake" /\ s \in t.todo)

Holds(x, s) == OneIf(s \in x.lines /\ x.pay \in {"pending", "awaiting_payment", "paid"})

Carried(s) == Cardinality(Took(s)) + Cardinality(Moving(s, "restore"))
                                   - Cardinality(Moving(s, "retake"))

Balance(s) == stock[s] + Cardinality(Holding(s)) + Carried(s)

LEMMA UnitsFinite ==
  ASSUME NEW s
  PROVE  /\ IsFiniteSet(Holding(s)) /\ IsFiniteSet(Holding(s)')
         /\ IsFiniteSet(Took(s)) /\ IsFiniteSet(Took(s)')
         /\ IsFiniteSet(Moving(s, "restore")) /\ IsFiniteSet(Moving(s, "restore")')
         /\ IsFiniteSet(Moving(s, "retake")) /\ IsFiniteSet(Moving(s, "retake")')
<1>1. IsFiniteSet(OrderIds)
  BY BoundsOK, FS_Interval DEF OrderIds
<1> QED BY <1>1, RequestsFinite, FS_Subset DEF Holding, Took, Moving

LEMMA TookStep ==
  ASSUME TypeOK, NEW s, NEW r \in Requests, NEW t, Become(r, t)
  PROVE  /\ Cardinality(Took(s)) \in Nat /\ Cardinality(Took(s)') \in Nat
         /\ Cardinality(Took(s)') = Cardinality(Took(s))
                                    + OneIf(s \in t.took) - OneIf(s \in task[r].took)
<1>1. task'[r] = t /\ \A q \in Requests : q # r => task'[q] = task[q]
  BY DEF TypeOK, Become
<1>2. Took(s) \ {r} = Took(s)' \ {r}
  BY <1>1 DEF Took
<1>3. (r \in Took(s) <=> s \in task[r].took) /\ (r \in Took(s)' <=> s \in t.took)
  BY <1>1 DEF Took
<1>4. /\ Cardinality(Took(s)) \in Nat /\ Cardinality(Took(s)') \in Nat
      /\ Cardinality(Took(s)') = Cardinality(Took(s))
           + (IF r \in Took(s)' THEN 1 ELSE 0) - (IF r \in Took(s) THEN 1 ELSE 0)
  BY <1>2, UnitsFinite, CardinalityButOne
<1> QED BY <1>3, <1>4 DEF OneIf

LEMMA MovingStep ==
  ASSUME TypeOK, NEW s, NEW r \in Requests, NEW t, Become(r, t), NEW pc \in {"restore", "retake"}
  PROVE  /\ Cardinality(Moving(s, pc)) \in Nat /\ Cardinality(Moving(s, pc)') \in Nat
         /\ Cardinality(Moving(s, pc)') = Cardinality(Moving(s, pc))
              + OneIf(t.pc = pc /\ s \in t.todo) - OneIf(task[r].pc = pc /\ s \in task[r].todo)
<1>1. task'[r] = t /\ \A q \in Requests : q # r => task'[q] = task[q]
  BY DEF TypeOK, Become
<1>2. Moving(s, pc) \ {r} = Moving(s, pc)' \ {r}
  BY <1>1 DEF Moving
<1>3. /\ r \in Moving(s, pc) <=> task[r].pc = pc /\ s \in task[r].todo
      /\ r \in Moving(s, pc)' <=> t.pc = pc /\ s \in t.todo
  BY <1>1 DEF Moving
<1>4. /\ Cardinality(Moving(s, pc)) \in Nat /\ Cardinality(Moving(s, pc)') \in Nat
      /\ Cardinality(Moving(s, pc)') = Cardinality(Moving(s, pc))
           + (IF r \in Moving(s, pc)' THEN 1 ELSE 0) - (IF r \in Moving(s, pc) THEN 1 ELSE 0)
  BY <1>2, UnitsFinite, CardinalityButOne
<1> QED BY <1>3, <1>4 DEF OneIf

LEMMA CarriedStep ==
  ASSUME TypeOK, NEW s, NEW r \in Requests, NEW t, Become(r, t)
  PROVE  /\ Carried(s) \in Int /\ Carries(t, s) \in Int /\ Carries(task[r], s) \in Int
         /\ Carried(s)' = Carried(s) + Carries(t, s) - Carries(task[r], s)
<1> DEFINE now(pc)  == OneIf(task[r].pc = pc /\ s \in task[r].todo)
           next(pc) == OneIf(t.pc = pc /\ s \in t.todo)
<1>1. /\ Cardinality(Took(s)) \in Nat /\ Cardinality(Took(s)') \in Nat
      /\ Cardinality(Took(s)') = Cardinality(Took(s))
                                 + OneIf(s \in t.took) - OneIf(s \in task[r].took)
  BY TookStep
<1>2. /\ Cardinality(Moving(s, "restore")) \in Nat /\ Cardinality(Moving(s, "restore")') \in Nat
      /\ Cardinality(Moving(s, "restore")') = Cardinality(Moving(s, "restore"))
                                              + next("restore") - now("restore")
  BY MovingStep
<1>3. /\ Cardinality(Moving(s, "retake")) \in Nat /\ Cardinality(Moving(s, "retake")') \in Nat
      /\ Cardinality(Moving(s, "retake")') = Cardinality(Moving(s, "retake"))
                                             + next("retake") - now("retake")
  BY MovingStep
<1>4. /\ OneIf(s \in t.took) \in Int /\ OneIf(s \in task[r].took) \in Int
      /\ next("restore") \in Int /\ now("restore") \in Int
      /\ next("retake") \in Int /\ now("retake") \in Int
  BY DEF OneIf
<1>5. /\ Carries(t, s) = OneIf(s \in t.took) + next("restore") - next("retake")
      /\ Carries(task[r], s) = OneIf(s \in task[r].took) + now("restore") - now("retake")
  BY DEF Carries
<1> HIDE DEF now, next
<1> QED BY <1>1, <1>2, <1>3, <1>4, <1>5 DEF Carried

LEMMA HoldingStep ==
  ASSUME TypeOK, NEW s, NEW o \in OrderIds, NEW x, Writes(o, x)
  PROVE  /\ Cardinality(Holding(s)) \in Nat /\ Cardinality(Holding(s)') \in Nat
         /\ Holds(x, s) \in Int /\ Holds(orders[o], s) \in Int
         /\ Cardinality(Holding(s)') = Cardinality(Holding(s)) + Holds(x, s) - Holds(orders[o], s)
<1>1. orders'[o] = x /\ \A p \in OrderIds : p # o => orders'[p] = orders[p]
  BY DEF TypeOK, Writes
<1>2. Holding(s) \ {o} = Holding(s)' \ {o}
  BY <1>1 DEF Holding
<1>3. /\ o \in Holding(s) <=> s \in orders[o].lines
                              /\ orders[o].pay \in {"pending", "awaiting_payment", "paid"}
      /\ o \in Holding(s)' <=> s \in x.lines /\ x.pay \in {"pending", "awaiting_payment", "paid"}
  BY <1>1 DEF Holding
<1>4. /\ Cardinality(Holding(s)) \in Nat /\ Cardinality(Holding(s)') \in Nat
      /\ Cardinality(Holding(s)') = Cardinality(Holding(s))
           + (IF o \in Holding(s)' THEN 1 ELSE 0) - (IF o \in Holding(s) THEN 1 ELSE 0)
  BY <1>2, UnitsFinite, CardinalityButOne
<1> QED BY <1>3, <1>4 DEF OneIf, Holds

\* Orders that are tied or aged hold what they held.
LEMMA HoldingSame ==
  ASSUME Shape, OrdersTied, NEW s
  PROVE  Holding(s)' = Holding(s)
<1>1. CASE UNCHANGED orders
  BY <1>1 DEF Holding
<1>2. ASSUME NEW o \in 1..placed, NEW x, Amends(o, x), x.pay = orders[o].pay
      PROVE  Holding(s)' = Holding(s)
  <2>1. \A p \in OrderIds : orders'[p].lines = orders[p].lines /\ orders'[p].pay = orders[p].pay
    BY <1>2 DEF Amends, Shape, TypeOK
  <2> QED BY <2>1 DEF Holding
<1> QED BY <1>1, <1>2 DEF OrdersTied

\* A request hands units over to stock or takes them from there.
LEMMA BalanceTurn ==
  ASSUME Shape, RestOK', NEW s \in Skus, NEW r \in Requests, NEW t, Become(r, t), OrdersTied,
         stock'[s] + Carries(t, s) = stock[s] + Carries(task[r], s)
  PROVE  Balance(s)' = Balance(s)
<1>1. /\ Carried(s) \in Int /\ Carries(t, s) \in Int /\ Carries(task[r], s) \in Int
      /\ Carried(s)' = Carried(s) + Carries(t, s) - Carries(task[r], s)
  BY CarriedStep DEF Shape
<1>2. Cardinality(Holding(s)') = Cardinality(Holding(s)) /\ Cardinality(Holding(s)) \in Nat
  BY HoldingSame, UnitsFinite, FS_CardinalityType
<1>3. stock[s] \in Int /\ stock'[s] \in Int
  BY DEF Shape, TypeOK, RestOK
<1>4. stock'[s] + Carried(s)' = stock[s] + Carried(s)
  BY <1>1, <1>3
<1> QED BY <1>1, <1>2, <1>3, <1>4 DEF Balance

\* A request hands units over to an order, or an order to the request.
LEMMA BalanceWrite ==
  ASSUME Shape, NEW s \in Skus, NEW r \in Requests, NEW t, Become(r, t),
         NEW o \in OrderIds, NEW x, Writes(o, x), UNCHANGED stock,
         Holds(x, s) + Carries(t, s) = Holds(orders[o], s) + Carries(task[r], s)
  PROVE  Balance(s)' = Balance(s)
<1>1. /\ Carried(s) \in Int /\ Carries(t, s) \in Int /\ Carries(task[r], s) \in Int
      /\ Carried(s)' = Carried(s) + Carries(t, s) - Carries(task[r], s)
  BY CarriedStep DEF Shape
<1>2. /\ Cardinality(Holding(s)) \in Nat /\ Holds(x, s) \in Int /\ Holds(orders[o], s) \in Int
      /\ Cardinality(Holding(s)') = Cardinality(Holding(s)) + Holds(x, s) - Holds(orders[o], s)
  BY HoldingStep DEF Shape
<1>3. stock[s] \in Int /\ stock'[s] = stock[s]
  BY DEF Shape, TypeOK
<1> QED BY <1>1, <1>2, <1>3 DEF Balance

LEMMA EmptyCarriesNothing ==
  ASSUME NEW t, NEW s, t.took = {}, t.pc \notin {"restore", "retake"}
  PROVE  Carries(t, s) = 0
BY DEF Carries, OneIf

\* What StockAccounted says, in these words.
LEMMA Balanced ==
  ASSUME Shape
  PROVE  StockAccounted <=>
           (~cutShort /\ ~raced => \A s \in Skus \ CustomSkus : Balance(s) = Initial[s])
<1>1. ASSUME NEW s \in Skus
      PROVE  Balance(s) = Initial[s] <=>
               stock[s] + Cardinality(Holding(s)) + Cardinality(Took(s))
                        + Cardinality(Moving(s, "restore"))
                 = Initial[s] + Cardinality(Moving(s, "retake"))
  <2>1. /\ Cardinality(Holding(s)) \in Nat /\ Cardinality(Took(s)) \in Nat
        /\ Cardinality(Moving(s, "restore")) \in Nat /\ Cardinality(Moving(s, "retake")) \in Nat
    BY UnitsFinite, FS_CardinalityType
  <2>2. stock[s] \in Int /\ Initial[s] \in Int
    BY InitialNat DEF Shape, TypeOK
  <2> QED BY <2>1, <2>2 DEF Balance, Carried
<1> QED BY <1>1 DEF StockAccounted

LEMMA BalancedNext ==
  ASSUME Shape'
  PROVE  StockAccounted' <=>
           (~cutShort' /\ ~raced' => \A s \in Skus \ CustomSkus : Balance(s)' = Initial[s])
<1>1. ASSUME NEW s \in Skus
      PROVE  Balance(s)' = Initial[s] <=>
               stock'[s] + Cardinality(Holding(s)') + Cardinality(Took(s)')
                         + Cardinality(Moving(s, "restore")')
                 = Initial[s] + Cardinality(Moving(s, "retake")')
  <2>1. /\ Cardinality(Holding(s)') \in Nat /\ Cardinality(Took(s)') \in Nat
        /\ Cardinality(Moving(s, "restore")') \in Nat /\ Cardinality(Moving(s, "retake")') \in Nat
    BY UnitsFinite, FS_CardinalityType
  <2>2. stock'[s] \in Int /\ Initial[s] \in Int
    BY InitialNat DEF Shape, TypeOK
  <2> QED BY <2>1, <2>2 DEF Balance, Carried
<1> QED BY <1>1 DEF StockAccounted

\* A request moves on that carries nothing, before and after.
LEMMA BalanceIdle ==
  ASSUME Shape, RestOK', NEW s \in Skus, NEW r \in Requests, NEW t, Become(r, t), OrdersTied,
         UNCHANGED stock, task[r].took = {}, task[r].pc \notin {"restore", "retake"},
         t.took = {}, t.pc \notin {"restore", "retake"}
  PROVE  Balance(s)' = Balance(s)
<1>1. Carries(task[r], s) = 0 /\ Carries(t, s) = 0
  BY EmptyCarriesNothing
<1> QED BY <1>1, BalanceTurn

\* A checkout that turns to another stage with what it has.
LEMMA BalanceKept ==
  ASSUME Shape, RestOK', NEW s \in Skus, NEW r \in Requests, NEW t, Become(r, t), OrdersTied,
         UNCHANGED stock, task[r].pc \notin {"restore", "retake"},
         t.took = task[r].took, t.pc \notin {"restore", "retake"}
  PROVE  Balance(s)' = Balance(s)
<1>1. Carries(task[r], s) = Carries(t, s)
  BY DEF Carries, OneIf
<1> QED BY <1>1, BalanceTurn

\* One unit taken, put back or taken again.
LEMMA BalanceMoves ==
  ASSUME Shape, RestOK', NEW s \in Skus, NEW r \in Requests, Moves(r)
  PROVE  Balance(s)' = Balance(s)
<1>1. PICK i \in Skus : TakeStock(r, i) \/ UndoLine(r, i) \/ RestoreLine(r, i) \/ RetakeLine(r, i)
  BY DEF Moves
<1>2. OrdersTied /\ stock \in [Skus -> Int]
  BY MoveTurns DEF OrdersTied, Shape, TypeOK
<1>3. CASE TakeStock(r, i)
  <2>1. PICK t : /\ Turns(r, t) /\ t.pc \in {"stock", "row", "undo", "release", "idle"}
                 /\ \/ /\ stock[i] >= 1 /\ stock' = [stock EXCEPT ![i] = stock[i] - 1]
                       /\ i \notin task[r].took /\ t.took = task[r].took \cup {i}
                    \/ stock' = stock /\ t.took = task[r].took
    BY <1>3, TakeStep
  <2>2. task[r].pc = "stock" /\ Become(r, t)
    BY <1>3, <2>1, TakeStep DEF Turns
  <2>3. CASE stock' = stock /\ t.took = task[r].took
    BY <1>2, <2>1, <2>2, <2>3, BalanceKept
  <2>4. CASE /\ stock' = [stock EXCEPT ![i] = stock[i] - 1]
             /\ i \notin task[r].took /\ t.took = task[r].took \cup {i}
    <3>1. Carries(task[r], s) = OneIf(s \in task[r].took) /\ Carries(t, s) = OneIf(s \in t.took)
      BY <2>1, <2>2 DEF Carries, OneIf
    <3>2. OneIf(s \in t.took) = OneIf(s \in task[r].took) + OneIf(s = i)
      BY <2>4 DEF OneIf
    <3>3. stock'[s] = stock[s] - OneIf(s = i) /\ stock[s] \in Int
      BY <1>2, <2>4 DEF OneIf
    <3>4. OneIf(s = i) \in Int /\ OneIf(s \in task[r].took) \in Int
      BY DEF OneIf
    <3>5. stock'[s] + Carries(t, s) = stock[s] + Carries(task[r], s)
      BY <3>1, <3>2, <3>3, <3>4
    <3> QED BY <1>2, <2>2, <3>5, BalanceTurn
  <2> QED BY <2>1, <2>3, <2>4
<1>4. CASE UndoLine(r, i)
  <2>1. /\ At(r, "undo") /\ i \in task[r].todo /\ task[r].pc = "undo"
        /\ Become(r, [Looped(r, i, Released(r)) EXCEPT !.took = task[r].took \ {i}])
        /\ stock' = [stock EXCEPT ![i] = @ + 1]
    BY <1>4 DEF UndoLine, At
  <2>2. PICK t : Turns(r, t) /\ t.pc \in {"undo", "release", "idle"} /\ t.took = task[r].took \ {i}
    BY <2>1, UndoneLine
  <2>3. i \in task[r].took /\ Become(r, t)
    BY <2>1, <2>2, UndoneLine DEF Turns
  <2>4. Carries(task[r], s) = OneIf(s \in task[r].took) /\ Carries(t, s) = OneIf(s \in t.took)
    BY <2>1, <2>2 DEF Carries, OneIf
  <2>5. OneIf(s \in task[r].took) = OneIf(s \in t.took) + OneIf(s = i)
    BY <2>2, <2>3 DEF OneIf
  <2>6. stock'[s] = stock[s] + OneIf(s = i) /\ stock[s] \in Int
    BY <1>2, <2>1 DEF OneIf
  <2>7. OneIf(s = i) \in Int /\ OneIf(s \in t.took) \in Int
    BY DEF OneIf
  <2>8. stock'[s] + Carries(t, s) = stock[s] + Carries(task[r], s)
    BY <2>4, <2>5, <2>6, <2>7
  <2> QED BY <1>2, <2>3, <2>8, BalanceTurn
<1>5. CASE RestoreLine(r, i)
  <2>1. /\ At(r, "restore") /\ i \in task[r].todo /\ task[r].pc = "restore"
        /\ Become(r, Looped(r, i, AfterFail(task[r], TRUE)))
        /\ stock' = [stock EXCEPT ![i] = @ + 1]
    BY <1>5 DEF RestoreLine, At
  <2>2. PICK t : /\ Turns(r, t) /\ t.took = {} /\ t.pc # "retake"
                 /\ ~Reserves(t) /\ ~Reserves(task[r])
                 /\ \A z : t.pc = "restore" /\ z \in t.todo <=> z \in task[r].todo /\ z # i
    BY <2>1, RestoredLine
  <2>3. task[r].took = {} /\ Become(r, t)
    BY <2>1, <2>2, RestoredLine DEF Turns
  <2>4. /\ Carries(task[r], s) = OneIf(s \in task[r].todo)
        /\ Carries(t, s) = OneIf(s \in task[r].todo /\ s # i)
    BY <2>1, <2>2, <2>3 DEF Carries, OneIf
  <2>5. OneIf(s \in task[r].todo) = OneIf(s \in task[r].todo /\ s # i) + OneIf(s = i)
    BY <2>1 DEF OneIf
  <2>6. stock'[s] = stock[s] + OneIf(s = i) /\ stock[s] \in Int
    BY <1>2, <2>1 DEF OneIf
  <2>7. OneIf(s = i) \in Int /\ OneIf(s \in task[r].todo /\ s # i) \in Int
    BY DEF OneIf
  <2>8. stock'[s] + Carries(t, s) = stock[s] + Carries(task[r], s)
    BY <2>4, <2>5, <2>6, <2>7
  <2> QED BY <1>2, <2>3, <2>8, BalanceTurn
<1>6. CASE RetakeLine(r, i)
  <2>1. /\ At(r, "retake") /\ i \in task[r].todo /\ task[r].pc = "retake"
        /\ Become(r, Looped(r, i, Idle))
        /\ stock' = [stock EXCEPT ![i] = @ - 1]
    BY <1>6 DEF RetakeLine, At
  <2>2. PICK t : /\ Turns(r, t) /\ t.took = {} /\ t.pc # "restore"
                 /\ \A z : t.pc = "retake" /\ z \in t.todo <=> z \in task[r].todo /\ z # i
    BY <2>1, RetakenLine
  <2>3. task[r].took = {} /\ Become(r, t)
    BY <2>1, <2>2, RetakenLine DEF Turns
  <2>4. /\ Carries(task[r], s) = 0 - OneIf(s \in task[r].todo)
        /\ Carries(t, s) = 0 - OneIf(s \in task[r].todo /\ s # i)
    BY <2>1, <2>2, <2>3 DEF Carries, OneIf
  <2>5. OneIf(s \in task[r].todo) = OneIf(s \in task[r].todo /\ s # i) + OneIf(s = i)
    BY <2>1 DEF OneIf
  <2>6. stock'[s] = stock[s] - OneIf(s = i) /\ stock[s] \in Int
    BY <1>2, <2>1 DEF OneIf
  <2>7. OneIf(s = i) \in Int /\ OneIf(s \in task[r].todo /\ s # i) \in Int
    BY DEF OneIf
  <2>8. stock'[s] + Carries(t, s) = stock[s] + Carries(task[r], s)
    <3> DEFINE a == OneIf(s = i)
               b == OneIf(s \in task[r].todo /\ s # i)
    <3>1. /\ a \in Int /\ b \in Int /\ stock[s] \in Int /\ stock'[s] = stock[s] - a
          /\ Carries(t, s) = 0 - b /\ Carries(task[r], s) = 0 - (b + a)
      BY <2>4, <2>5, <2>6, <2>7
    <3> HIDE DEF a, b
    <3> QED BY <3>1
  <2> QED BY <1>2, <2>3, <2>8, BalanceTurn
<1> QED BY <1>1, <1>3, <1>4, <1>5, <1>6

LEMMA EmptyParts ==
  ASSUME NEW t, EmptyHanded(t)
  PROVE  t.took = {} /\ t.pc \notin {"restore", "retake"}
BY DEF EmptyHanded, Owing

\* The order takes over what the checkout took: every line but custom ones.
LEMMA BalanceCreate ==
  ASSUME Shape, NEW s \in Skus \ CustomSkus, NEW r \in Requests, CreateOrder(r)
  PROVE  Balance(s)' = Balance(s)
<1>0. /\ UNCHANGED stock /\ placed + 1 \in OrderIds /\ orders[placed + 1] = NoOrder
      /\ task[r].pc = "row" /\ task[r].took = task[r].lines \ CustomSkus
  BY CreateStep
<1>1. PICK t, x : /\ Become(r, t) /\ EmptyHanded(t)
                  /\ orders' = [orders EXCEPT ![placed + 1] = x]
                  /\ x.pay \in Payable /\ x.lines = task[r].lines
  BY CreateStep
<1>2. Writes(placed + 1, x)
  BY <1>1 DEF Writes
<1>3. Holds(orders[placed + 1], s) = 0
  BY <1>0 DEF Holds, OneIf, NoOrder
<1>4. Holds(x, s) = OneIf(s \in task[r].took) /\ Carries(task[r], s) = OneIf(s \in task[r].took)
  BY <1>0, <1>1 DEF Holds, OneIf, Payable, Carries
<1>5. Carries(t, s) = 0 /\ OneIf(s \in task[r].took) \in Int
  BY <1>1, EmptyParts, EmptyCarriesNothing DEF OneIf
<1> QED BY <1>0, <1>1, <1>2, <1>3, <1>4, <1>5, BalanceWrite

\* The coupon's record does not change what the order holds.
LEMMA BalanceRecord ==
  ASSUME Shape, NEW s \in Skus, NEW r \in Requests,
         RecordUsage(r) \/ (DeleteUsage(r) /\ Order(r).row)
  PROVE  Balance(s)' = Balance(s)
<1>1. ASSUME NEW t, Become(r, t), NEW o \in 1..placed, NEW x,
             orders' = [orders EXCEPT ![o] = x], x.pay = orders[o].pay, x.lines = orders[o].lines,
             UNCHANGED stock, EmptyHanded(task[r]), t.took = {}, t.pc \notin {"restore", "retake"}
      PROVE  Balance(s)' = Balance(s)
  <2>1. Holds(x, s) = Holds(orders[o], s) /\ Carries(t, s) = 0 /\ Carries(task[r], s) = 0
    BY <1>1, EmptyParts, EmptyCarriesNothing DEF Holds
  <2>2. Writes(o, x) /\ o \in OrderIds
    BY <1>1, OrderRow DEF Writes
  <2> QED BY <1>1, <2>1, <2>2, BalanceWrite
<1>2. CASE RecordUsage(r)
  <2> DEFINE o == task[r].order
             x == [orders[o] EXCEPT !.row = TRUE]
  <2>1. /\ o \in 1..placed /\ EmptyHanded(task[r]) /\ UNCHANGED stock
        /\ orders' = [orders EXCEPT ![o] = x]
    BY <1>2, RecordStep
  <2>2. x.pay = orders[o].pay /\ x.lines = orders[o].lines
    BY <2>1, OrderRow DEF Orders
  <2>3. PICK t : Become(r, t) /\ t.took = {} /\ t.pc \notin {"restore", "retake"}
    BY <1>2, RecordStep, EmptyParts DEF Turns
  <2> HIDE DEF x, o
  <2> QED BY <1>1, <2>1, <2>2, <2>3
<1>3. CASE DeleteUsage(r) /\ Order(r).row
  <2> DEFINE o == task[r].order
             x == [orders[o] EXCEPT !.row = FALSE, !.freed = TRUE]
  <2>1. /\ o \in 1..placed /\ EmptyHanded(task[r]) /\ UNCHANGED stock
        /\ orders' = [orders EXCEPT ![o] = x]
    BY <1>3, DeleteStep
  <2>2. x.pay = orders[o].pay /\ x.lines = orders[o].lines
    BY <2>1, OrderRow DEF Orders
  <2>3. PICK t : Become(r, t) /\ t.took = {} /\ t.pc \notin {"restore", "retake"}
    BY <1>3, DeleteStep DEF Turns
  <2> HIDE DEF x, o
  <2> QED BY <1>1, <2>1, <2>2, <2>3
<1> QED BY <1>2, <1>3

\* A write-off hands the order's lines to the request that restores them.
LEMMA BalanceFlip ==
  ASSUME Shape, NEW s \in Skus, NEW r \in Requests,
         FailFlip(r), Order(r).pay \notin {"paid", "failed"}
  PROVE  Balance(s)' = Balance(s)
<1>0. /\ EmptyHanded(task[r]) /\ task[r].order \in 1..placed /\ UNCHANGED stock
      /\ Order(r).pay \in Payable
  BY FlipStep
<1>1. PICK t, x : /\ Turns(r, t) /\ t.took = {} /\ t.pc = "restore" /\ t.todo = Order(r).lines
                  /\ Amends(task[r].order, x) /\ x.pay = "failed"
  BY FlipStep
<1>2. Writes(task[r].order, x) /\ Become(r, t) /\ task[r].order \in OrderIds
  BY <1>0, <1>1, OrderRow DEF Amends, Writes, Turns
<1>3. Holds(x, s) = 0 /\ Holds(orders[task[r].order], s) = OneIf(s \in Order(r).lines)
  BY <1>0, <1>1 DEF Holds, OneIf, Payable, Order
<1>4. Carries(task[r], s) = 0 /\ Carries(t, s) = OneIf(s \in Order(r).lines)
  <2>1. Carries(task[r], s) = 0
    BY <1>0, EmptyParts, EmptyCarriesNothing
  <2> QED BY <1>1, <2>1 DEF Carries, OneIf
<1>5. OneIf(s \in Order(r).lines) \in Int
  BY DEF OneIf
<1> QED BY <1>0, <1>2, <1>3, <1>4, <1>5, BalanceWrite

\* A payment: the order holds on to its lines, or has them taken again.
LEMMA BalancePay ==
  ASSUME Shape, NEW s \in Skus, NEW r \in Requests, PayFlip(r), Order(r).pay # "paid", ~raced'
  PROVE  Balance(s)' = Balance(s) /\ raced' = raced
<1>0. EmptyHanded(task[r]) /\ task[r].order \in 1..placed /\ UNCHANGED stock
  BY PayStep
<1>1. PICK t, x : /\ Turns(r, t) /\ t.took = {} /\ t.pc # "restore"
                  /\ Amends(task[r].order, x) /\ x.pay = "paid"
                  /\ \/ raced' = TRUE
                     \/ raced' = raced /\ Order(r).pay \in Payable /\ t.pc # "retake"
                     \/ /\ raced' = raced /\ Order(r).pay = "failed"
                        /\ t.pc = "retake" /\ t.todo = Order(r).lines
  BY PayStep
<1>2. Writes(task[r].order, x) /\ Become(r, t) /\ task[r].order \in OrderIds
  BY <1>0, <1>1, OrderRow DEF Amends, Writes, Turns
<1>3. Carries(task[r], s) = 0
  BY <1>0, EmptyParts, EmptyCarriesNothing
<1>4. x.lines = Order(r).lines
  BY <1>1 DEF Amends, Order
<1>5. CASE raced' = raced /\ Order(r).pay \in Payable /\ t.pc # "retake"
  <2>1. Carries(t, s) = 0
    BY <1>1, <1>5, EmptyCarriesNothing
  <2>2. Holds(x, s) = Holds(orders[task[r].order], s)
    BY <1>1, <1>4, <1>5 DEF Holds, OneIf, Payable, Order
  <2> QED BY <1>0, <1>2, <1>3, <1>5, <2>1, <2>2, BalanceWrite
<1>6. CASE /\ raced' = raced /\ Order(r).pay = "failed"
           /\ t.pc = "retake" /\ t.todo = Order(r).lines
  <2> DEFINE a == OneIf(s \in Order(r).lines)
  <2>1. Carries(t, s) = 0 - a
    BY <1>1, <1>6 DEF Carries, OneIf
  <2>2. Holds(x, s) = a /\ Holds(orders[task[r].order], s) = 0
    BY <1>1, <1>4, <1>6 DEF Holds, OneIf, Order
  <2>3. a \in Int
    BY DEF OneIf
  <2> HIDE DEF a
  <2>4. Holds(x, s) + Carries(t, s) = Holds(orders[task[r].order], s) + Carries(task[r], s)
    BY <1>3, <2>1, <2>2, <2>3
  <2> QED BY <1>0, <1>2, <1>6, <2>4, BalanceWrite
<1> QED BY <1>1, <1>5, <1>6

LEMMA BalanceTrade ==
  ASSUME Shape, RestOK', NEW s \in Skus \ CustomSkus, NEW r \in Requests, Trades(r),
         ~cutShort', ~raced'
  PROVE  Balance(s)' = Balance(s) /\ ~cutShort /\ ~raced
<1>0. ASSUME UNCHANGED orders PROVE OrdersTied
  BY <1>0 DEF OrdersTied
<1>1. CASE Quotes(r)
  <2>1. UNCHANGED <<stock, orders, raced, cutShort>> /\ EmptyHanded(task[r])
    BY <1>1, QuoteStep
  <2>2. PICK t : Become(r, t) /\ t.took = {} /\ t.pc \notin {"restore", "retake"}
    BY <1>1, QuoteStep DEF Turns
  <2> QED BY <1>0, <2>1, <2>2, EmptyParts, BalanceIdle
<1>2. CASE ClaimRedemption(r)
  <2>1. UNCHANGED <<stock, orders, raced, cutShort>> /\ EmptyHanded(task[r])
    BY <1>2, ClaimStep
  <2>2. PICK t : Become(r, t) /\ t.took = {} /\ t.pc \notin {"restore", "retake"}
    BY <1>2, ClaimStep DEF Turns
  <2> QED BY <1>0, <2>1, <2>2, EmptyParts, BalanceIdle
<1>3. CASE ReleaseRedemption(r)
  <2>1. /\ UNCHANGED <<stock, orders, raced, cutShort>>
        /\ task[r].took = {} /\ task[r].pc \notin {"restore", "retake"}
    BY <1>3, ReleaseStep
  <2>2. PICK t : Become(r, t) /\ t.took = {} /\ t.pc \notin {"restore", "retake"}
    BY <1>3, ReleaseStep, EmptyParts DEF Turns
  <2> QED BY <1>0, <2>1, <2>2, BalanceIdle
<1>4. CASE CountUsage(r)
  <2>1. UNCHANGED <<stock, orders, raced, cutShort>> /\ EmptyHanded(task[r])
    BY <1>4, CountStep
  <2>2. PICK t : Become(r, t) /\ t.took = {} /\ t.pc \notin {"restore", "retake"}
    BY <1>4, CountStep, EmptyParts DEF Turns
  <2> QED BY <1>0, <2>1, <2>2, EmptyParts, BalanceIdle
<1>5. CASE CreateThrows(r)
  <2>1. UNCHANGED <<stock, orders, raced, cutShort>> /\ task[r].pc \in {"stock", "row"}
    BY <1>5, UndoStep
  <2>2. PICK t : Become(r, t) /\ t.took = task[r].took /\ t.pc \in {"undo", "release", "idle"}
    BY <1>5, UndoStep DEF Turns
  <2> QED BY <1>0, <2>1, <2>2, BalanceKept
<1>6. ASSUME NEW o \in OrderIds, ReportPaid(r, o)
      PROVE  Balance(s)' = Balance(s) /\ ~cutShort /\ ~raced
  <2>1. UNCHANGED <<stock, orders, raced, cutShort>> /\ EmptyHanded(task[r])
    BY <1>6, ReportStep
  <2>2. PICK t : Become(r, t) /\ t.took = {} /\ t.pc \notin {"restore", "retake"}
    BY <1>6, ReportStep, EmptyParts
  <2> QED BY <1>0, <2>1, <2>2, EmptyParts, BalanceIdle
<1>7. CASE CreateOrder(r)
  BY <1>7, BalanceCreate, CreateStep
<1>8. CASE RecordUsage(r)
  BY <1>8, BalanceRecord, RecordStep
<1>9. CASE DeleteUsage(r) /\ Order(r).row
  BY <1>9, BalanceRecord, DeleteStep
<1>10. CASE FailFlip(r) /\ Order(r).pay \notin {"paid", "failed"}
  BY <1>10, BalanceFlip, FlipStep
<1>11. CASE PayFlip(r) /\ Order(r).pay # "paid"
  BY <1>11, BalancePay, PayStep
<1> QED BY <1>1, <1>2, <1>3, <1>4, <1>5, <1>6, <1>7, <1>8, <1>9, <1>10, <1>11 DEF Trades

LEMMA BalanceStep ==
  ASSUME Shape, [Next]_vars, NEW s \in Skus \ CustomSkus, ~cutShort', ~raced'
  PROVE  Balance(s)' = Balance(s) /\ ~cutShort /\ ~raced
<1>0. RestOK'
  BY RestStep DEF Shape
<1>1. CASE Aside
  <2>1. UNCHANGED <<stock, task, raced, cutShort>> /\ OrdersTied
    BY <1>1 DEF Aside
  <2>2. Cardinality(Holding(s)') = Cardinality(Holding(s))
    BY <2>1, HoldingSame
  <2>3. Carried(s)' = Carried(s)
    BY <2>1 DEF Carried, Took, Moving
  <2> QED BY <2>1, <2>2, <2>3 DEF Balance
<1>2. ASSUME NEW r \in Requests, Light(r) PROVE Balance(s)' = Balance(s) /\ ~cutShort /\ ~raced
  <2>1. UNCHANGED <<stock, raced, cutShort>> /\ OrdersTied /\ EmptyHanded(task[r])
    BY <1>2 DEF Light
  <2>2. PICK t : Become(r, t) /\ EmptyHanded(t)
    BY <1>2 DEF Light
  <2> QED BY <1>0, <2>1, <2>2, EmptyParts, BalanceIdle
<1>3. ASSUME NEW r \in Requests, Moves(r) PROVE Balance(s)' = Balance(s) /\ ~cutShort /\ ~raced
  BY <1>0, <1>3, MoveTurns, BalanceMoves
<1>4. ASSUME NEW r \in Requests, Costly(r) PROVE FALSE
  BY <1>4, CostlyStep
<1> QED BY <1>0, <1>1, <1>2, <1>3, <1>4, BalanceTrade, StepCases

\* Every unit is in stock, with a payable or paid order, with a checkout about to
\* place one, or on its way back, as long as no request was cut short and no
\* payment crossed a write-off: of takes, compensations, write-offs and late
\* payments in any number of requests.
THEOREM EveryUnitHasItsPlace == Spec => []StockAccounted
<1>1. Init => Shape /\ StockAccounted
  <2>1. SUFFICES ASSUME Init PROVE Shape /\ StockAccounted
    OBVIOUS
  <2>2. Shape
    BY <2>1, ShapeInit
  <2>3. ASSUME NEW s \in Skus PROVE Balance(s) = Initial[s]
    <3>1. /\ \A o \in OrderIds : orders[o].lines = {}
          /\ \A r \in Requests : task[r].took = {} /\ task[r].todo = {}
      BY <2>1 DEF Init, NoOrder, Idle
    <3>2. /\ Holding(s) = {} /\ Took(s) = {}
          /\ Moving(s, "restore") = {} /\ Moving(s, "retake") = {}
      BY <3>1 DEF Holding, Took, Moving
    <3>3. stock[s] = Initial[s] /\ Initial[s] \in Int
      BY <2>1, InitialNat DEF Init
    <3>4. /\ Cardinality(Holding(s)) = 0 /\ Cardinality(Took(s)) = 0
          /\ Cardinality(Moving(s, "restore")) = 0 /\ Cardinality(Moving(s, "retake")) = 0
      BY <3>2, FS_EmptySet
    <3> QED BY <3>3, <3>4 DEF Balance, Carried
  <2> QED BY <2>2, <2>3, Balanced
<1>2. Shape /\ StockAccounted /\ [Next]_vars => (Shape /\ StockAccounted)'
  <2>1. SUFFICES ASSUME Shape, StockAccounted, [Next]_vars PROVE Shape' /\ StockAccounted'
    OBVIOUS
  <2>2. Shape'
    BY <2>1, ShapeStep
  <2>3. ASSUME NEW s \in Skus \ CustomSkus, ~cutShort', ~raced' PROVE Balance(s)' = Initial[s]
    BY <2>1, <2>3, BalanceStep, Balanced
  <2> QED BY <2>2, <2>3, BalancedNext
<1> QED BY <1>1, <1>2, PTL DEF Spec

-------------------------------------------------------------------------------
(* The checkout implements Reservations.                                     *)

Free == [s \in Skus |-> stock[s] + Cardinality(Took(s))]

Stutters == UNCHANGED <<Free, placed, lateSale, cutShort>>

LEMMA IsPlace ==
  ASSUME NEW lines \in SUBSET Skus, lateSale \/ \A s \in lines : Free[s] >= 1,
         Free' = [s \in Skus |-> IF s \in lines THEN Free[s] - 1 ELSE Free[s]],
         placed' = placed + 1, UNCHANGED <<lateSale, cutShort>>
  PROVE  Reserved!Next
<1>1. Reserved!Place(lines)
  BY DEF Reserved!Place, Reserved!Minus, Free
<1> QED BY <1>1 DEF Reserved!Next

LEMMA IsLose ==
  ASSUME NEW lines \in SUBSET Skus,
         Free' = [s \in Skus |-> IF s \in lines THEN Free[s] - 1 ELSE Free[s]],
         cutShort' = TRUE, UNCHANGED <<placed, lateSale>>
  PROVE  Reserved!Next
<1>1. Reserved!Lose(lines)
  BY DEF Reserved!Lose, Reserved!Minus, Free
<1> QED BY <1>1 DEF Reserved!Next

LEMMA IsReturn ==
  ASSUME NEW i \in Skus, Free' = [Free EXCEPT ![i] = Free[i] + 1],
         UNCHANGED <<placed, lateSale, cutShort>>
  PROVE  Reserved!Next
<1>1. Reserved!Return(i)
  BY DEF Reserved!Return, Free
<1> QED BY <1>1 DEF Reserved!Next

LEMMA IsSellAgain ==
  ASSUME NEW i \in Skus, Free' = [Free EXCEPT ![i] = Free[i] - 1], lateSale' = TRUE,
         UNCHANGED <<placed, cutShort>>
  PROVE  Reserved!Next
<1>1. Reserved!SellAgain(i)
  BY DEF Reserved!SellAgain, Free
<1> QED BY <1>1 DEF Reserved!Next

\* How one request's step changes what is free of SKU s.
LEMMA FreeStep ==
  ASSUME Shape, RestOK', NEW s \in Skus, NEW r \in Requests, NEW t, Become(r, t)
  PROVE  /\ Free[s] \in Int /\ Free'[s] \in Int /\ stock[s] \in Int /\ stock'[s] \in Int
         /\ Free'[s] = Free[s] + (stock'[s] - stock[s])
                       + OneIf(s \in t.took) - OneIf(s \in task[r].took)
<1>1. /\ Cardinality(Took(s)) \in Nat /\ Cardinality(Took(s)') \in Nat
      /\ Cardinality(Took(s)') = Cardinality(Took(s))
                                 + OneIf(s \in t.took) - OneIf(s \in task[r].took)
  BY TookStep DEF Shape
<1>2. stock[s] \in Int /\ stock'[s] \in Int
  BY DEF Shape, TypeOK, RestOK
<1>3. Free[s] = stock[s] + Cardinality(Took(s)) /\ Free'[s] = stock'[s] + Cardinality(Took(s)')
  BY DEF Free
<1>4. OneIf(s \in t.took) \in Int /\ OneIf(s \in task[r].took) \in Int
  BY DEF OneIf
<1> HIDE DEF Free
<1> QED BY <1>1, <1>2, <1>3, <1>4

LEMMA FreeFunction ==
  /\ Free = [s \in Skus |-> Free[s]] /\ DOMAIN Free = Skus
  /\ Free' = [s \in Skus |-> Free'[s]] /\ DOMAIN Free' = Skus
BY DEF Free

\* Nothing moves from outside.
LEMMA KeepStutters ==
  ASSUME Shape, RestOK', NEW r \in Requests, NEW t, Become(r, t), t.took = task[r].took,
         UNCHANGED <<stock, placed, lateSale, cutShort>>
  PROVE  Stutters
<1>1. ASSUME NEW s \in Skus PROVE Free'[s] = Free[s]
  <2>1. OneIf(s \in t.took) \in Int
    BY DEF OneIf
  <2> QED BY <2>1, FreeStep
<1>2. Free' = Free
  BY <1>1, FreeFunction
<1> QED BY <1>2 DEF Stutters

LEMMA TradeReserves ==
  ASSUME Shape, RestOK', NEW r \in Requests, Trades(r), ~CreateOrder(r)
  PROVE  Stutters
<1>1. CASE Quotes(r)
  BY <1>1, QuoteStep, EmptyParts, KeepStutters DEF Turns
<1>2. CASE ClaimRedemption(r)
  BY <1>2, ClaimStep, EmptyParts, KeepStutters DEF Turns
<1>3. CASE ReleaseRedemption(r)
  BY <1>3, ReleaseStep, EmptyParts, KeepStutters DEF Turns
<1>4. CASE CountUsage(r)
  <2>1. UNCHANGED <<stock, placed, lateSale, cutShort>> /\ EmptyHanded(task[r])
    BY <1>4, CountStep
  <2>2. PICK t : Become(r, t) /\ EmptyHanded(t)
    BY <1>4, CountStep DEF Turns
  <2> QED BY <2>1, <2>2, EmptyParts, KeepStutters
<1>5. CASE CreateThrows(r)
  BY <1>5, UndoStep, KeepStutters DEF Turns
<1>6. ASSUME NEW o \in OrderIds, ReportPaid(r, o) PROVE Stutters
  <2>1. UNCHANGED <<stock, placed, lateSale, cutShort>> /\ EmptyHanded(task[r])
    BY <1>6, ReportStep
  <2>2. PICK t : Become(r, t) /\ EmptyHanded(t)
    BY <1>6, ReportStep
  <2> QED BY <2>1, <2>2, EmptyParts, KeepStutters
<1>7. CASE RecordUsage(r)
  BY <1>7, RecordStep, EmptyParts, KeepStutters DEF Turns
<1>8. CASE DeleteUsage(r) /\ Order(r).row
  BY <1>8, DeleteStep, EmptyParts, KeepStutters DEF Turns
<1>9. CASE FailFlip(r) /\ Order(r).pay \notin {"paid", "failed"}
  BY <1>9, FlipStep, EmptyParts, KeepStutters DEF Turns
<1>10. CASE PayFlip(r) /\ Order(r).pay # "paid"
  BY <1>10, PayStep, EmptyParts, KeepStutters DEF Turns
<1> QED BY <1>1, <1>2, <1>3, <1>4, <1>5, <1>6, <1>7, <1>8, <1>9, <1>10 DEF Trades

\* Partial takes and their compensation are not seen from outside; what is, is a
\* unit given back or sold again.
LEMMA MoveReserves ==
  ASSUME Shape, RestOK', NEW r \in Requests, Moves(r)
  PROVE  Stutters \/ Reserved!Next
<1>0. UNCHANGED <<placed, cutShort>> /\ stock \in [Skus -> Int]
  BY MoveTurns DEF Shape, TypeOK
<1>1. PICK i \in Skus : TakeStock(r, i) \/ UndoLine(r, i) \/ RestoreLine(r, i) \/ RetakeLine(r, i)
  BY DEF Moves
<1>2. CASE TakeStock(r, i)
  <2>1. PICK t : /\ Turns(r, t)
                 /\ \/ /\ stock[i] >= 1 /\ stock' = [stock EXCEPT ![i] = stock[i] - 1]
                       /\ i \notin task[r].took /\ t.took = task[r].took \cup {i}
                    \/ stock' = stock /\ t.took = task[r].took
    BY <1>2, TakeStep
  <2>2. Become(r, t) /\ lateSale' = lateSale
    BY <1>2, <2>1, TakeStep DEF Turns
  <2>3. CASE stock' = stock /\ t.took = task[r].took
    BY <1>0, <2>2, <2>3, KeepStutters
  <2>4. CASE /\ stock' = [stock EXCEPT ![i] = stock[i] - 1]
             /\ i \notin task[r].took /\ t.took = task[r].took \cup {i}
    <3>1. ASSUME NEW s \in Skus PROVE Free'[s] = Free[s]
      <4>1. stock'[s] - stock[s] = 0 - OneIf(s = i)
        BY <1>0, <2>4 DEF OneIf
      <4>2. OneIf(s \in t.took) = OneIf(s \in task[r].took) + OneIf(s = i)
        BY <2>4 DEF OneIf
      <4>3. OneIf(s = i) \in Int /\ OneIf(s \in task[r].took) \in Int
        BY DEF OneIf
      <4>4. /\ Free[s] \in Int
            /\ Free'[s] = Free[s] + (stock'[s] - stock[s])
                          + OneIf(s \in t.took) - OneIf(s \in task[r].took)
        BY <2>2, FreeStep
      <4> QED BY <4>1, <4>2, <4>3, <4>4
    <3>2. Free' = Free
      BY <3>1, FreeFunction
    <3> QED BY <1>0, <2>2, <3>2 DEF Stutters
  <2> QED BY <2>1, <2>3, <2>4
<1>3. CASE UndoLine(r, i)
  <2>1. /\ At(r, "undo") /\ i \in task[r].todo /\ lateSale' = lateSale
        /\ Become(r, [Looped(r, i, Released(r)) EXCEPT !.took = task[r].took \ {i}])
        /\ stock' = [stock EXCEPT ![i] = @ + 1]
    BY <1>3 DEF UndoLine, history
  <2>2. PICK t : Turns(r, t) /\ t.took = task[r].took \ {i}
    BY <2>1, UndoneLine
  <2>3. i \in task[r].took /\ Become(r, t)
    BY <2>1, <2>2, UndoneLine DEF Turns
  <2>4. ASSUME NEW s \in Skus PROVE Free'[s] = Free[s]
    <3>1. stock'[s] - stock[s] = OneIf(s = i)
      BY <1>0, <2>1 DEF OneIf
    <3>2. OneIf(s \in task[r].took) = OneIf(s \in t.took) + OneIf(s = i)
      BY <2>2, <2>3 DEF OneIf
    <3>3. OneIf(s = i) \in Int /\ OneIf(s \in t.took) \in Int
      BY DEF OneIf
    <3>4. /\ Free[s] \in Int
          /\ Free'[s] = Free[s] + (stock'[s] - stock[s])
                        + OneIf(s \in t.took) - OneIf(s \in task[r].took)
      BY <2>3, FreeStep
    <3> QED BY <3>1, <3>2, <3>3, <3>4
  <2>5. Free' = Free
    BY <2>4, FreeFunction
  <2> QED BY <1>0, <2>1, <2>5 DEF Stutters
<1>4. ASSUME NEW t, Become(r, t), t.took = {}, task[r].took = {}, NEW d \in {1, -1},
             stock' = [stock EXCEPT ![i] = stock[i] + d]
      PROVE  Free' = [Free EXCEPT ![i] = Free[i] + d]
  <2>1. ASSUME NEW s \in Skus PROVE Free'[s] = [Free EXCEPT ![i] = Free[i] + d][s]
    <3>1. /\ Free[s] \in Int /\ stock[s] \in Int /\ Free'[s] = Free[s] + (stock'[s] - stock[s])
      <4>1. OneIf(s \in t.took) = 0 /\ OneIf(s \in task[r].took) = 0
        BY <1>4 DEF OneIf
      <4> QED BY <1>4, <4>1, FreeStep
    <3>2. stock'[s] = IF s = i THEN stock[s] + d ELSE stock[s]
      BY <1>0, <1>4
    <3>3. Free'[s] = IF s = i THEN Free[s] + d ELSE Free[s]
      BY <3>1, <3>2
    <3> QED BY <3>3, FreeFunction
  <2> QED BY <2>1, FreeFunction
<1>5. CASE RestoreLine(r, i)
  <2>1. /\ At(r, "restore") /\ i \in task[r].todo /\ lateSale' = lateSale
        /\ Become(r, Looped(r, i, AfterFail(task[r], TRUE)))
        /\ stock' = [stock EXCEPT ![i] = stock[i] + 1]
    BY <1>5 DEF RestoreLine, history
  <2>2. PICK t : Turns(r, t) /\ t.took = {}
    BY <2>1, RestoredLine
  <2>3. task[r].took = {} /\ Become(r, t)
    BY <2>1, <2>2, RestoredLine DEF Turns
  <2>4. Free' = [Free EXCEPT ![i] = Free[i] + 1]
    BY <1>4, <2>1, <2>2, <2>3
  <2> QED BY <1>0, <2>1, <2>4, IsReturn
<1>6. CASE RetakeLine(r, i)
  <2>1. /\ At(r, "retake") /\ i \in task[r].todo /\ lateSale' = TRUE
        /\ Become(r, Looped(r, i, Idle))
        /\ stock' = [stock EXCEPT ![i] = stock[i] - 1]
    BY <1>6 DEF RetakeLine
  <2>2. PICK t : Turns(r, t) /\ t.took = {}
    BY <2>1, RetakenLine
  <2>3. task[r].took = {} /\ Become(r, t)
    BY <2>1, <2>2, RetakenLine DEF Turns
  <2>4. stock[i] \in Int /\ Free[i] \in Int
    BY <1>0, <2>3, FreeStep
  <2>5. stock' = [stock EXCEPT ![i] = stock[i] + (-1)]
    BY <2>1, <2>4
  <2>6. Free' = [Free EXCEPT ![i] = Free[i] + (-1)]
    BY <1>4, <2>2, <2>3, <2>5
  <2>7. Free' = [Free EXCEPT ![i] = Free[i] - 1]
    BY <2>4, <2>6
  <2> QED BY <1>0, <2>1, <2>7, IsSellAgain
<1> QED BY <1>1, <1>2, <1>3, <1>5, <1>6

\* The order takes its units in one step: there were that many.
LEMMA CreateReserves ==
  ASSUME Shape, RestOK', NEW r \in Requests, CreateOrder(r)
  PROVE  Reserved!Next
<1> DEFINE lines == task[r].took
<1>0. /\ UNCHANGED <<stock, lateSale, cutShort>> /\ placed' = placed + 1
  BY CreateStep
<1>1. PICK t : Become(r, t) /\ t.took = {}
  BY CreateStep, EmptyParts
<1>2. lines \in SUBSET Skus
  BY GoodTask, TaskFields
<1>3. ASSUME NEW s \in Skus
      PROVE  /\ Free'[s] = IF s \in lines THEN Free[s] - 1 ELSE Free[s]
             /\ s \in lines /\ ~lateSale => Free[s] >= 1
  <2>1. /\ Free[s] \in Int /\ stock[s] \in Int
        /\ Free'[s] = Free[s] + (stock'[s] - stock[s])
                      + OneIf(s \in t.took) - OneIf(s \in task[r].took)
    BY <1>1, FreeStep
  <2>2. OneIf(s \in t.took) = 0 /\ stock'[s] = stock[s]
    BY <1>0, <1>1 DEF OneIf
  <2>3. Free'[s] = IF s \in lines THEN Free[s] - 1 ELSE Free[s]
    BY <2>1, <2>2 DEF OneIf
  <2>4. ASSUME s \in lines, ~lateSale PROVE Free[s] >= 1
    <3>1. stock[s] >= 0
      BY <2>4 DEF Shape, NoOversell
    <3>2. Took(s) # {} /\ IsFiniteSet(Took(s)) /\ Cardinality(Took(s)) \in Nat
      BY <2>4, UnitsFinite, FS_CardinalityType DEF Took
    <3>3. Cardinality(Took(s)) >= 1
      BY <3>2, FS_EmptySet
    <3>4. Free[s] = stock[s] + Cardinality(Took(s))
      BY DEF Free
    <3> QED BY <2>1, <3>1, <3>2, <3>3, <3>4
  <2> QED BY <2>3, <2>4
<1> HIDE DEF lines
<1>4. Free' = [s \in Skus |-> IF s \in lines THEN Free[s] - 1 ELSE Free[s]]
  BY <1>3, FreeFunction
<1>5. lateSale \/ \A s \in lines : Free[s] >= 1
  BY <1>2, <1>3
<1> QED BY <1>0, <1>2, <1>4, <1>5, IsPlace

\* A failure loses units, and says so.
LEMMA CostlyReserves ==
  ASSUME Shape, RestOK', NEW r \in Requests, Costly(r)
  PROVE  Reserved!Next
<1>0. cutShort' = TRUE /\ UNCHANGED <<stock, placed, lateSale>>
  BY CostlyStep
<1>1. PICK t : Become(r, t) /\ t.took \subseteq task[r].took
  BY CostlyStep DEF Turns
<1> DEFINE lines == task[r].took \ t.took
<1>2. lines \in SUBSET Skus
  BY GoodTask, TaskFields
<1>3. ASSUME NEW s \in Skus
      PROVE  Free'[s] = IF s \in lines THEN Free[s] - 1 ELSE Free[s]
  <2>1. /\ Free[s] \in Int /\ stock[s] \in Int
        /\ Free'[s] = Free[s] + (stock'[s] - stock[s])
                      + OneIf(s \in t.took) - OneIf(s \in task[r].took)
    BY <1>1, FreeStep
  <2> QED BY <1>0, <1>1, <2>1 DEF OneIf
<1> HIDE DEF lines
<1>4. Free' = [s \in Skus |-> IF s \in lines THEN Free[s] - 1 ELSE Free[s]]
  BY <1>3, FreeFunction
<1> QED BY <1>0, <1>2, <1>4, IsLose

LEMMA ReservesStep ==
  ASSUME Shape, [Next]_vars
  PROVE  Stutters \/ Reserved!Next
<1>0. RestOK'
  BY RestStep DEF Shape
<1>1. CASE Aside
  BY <1>1 DEF Aside, Stutters, Free, Took
<1>2. ASSUME NEW r \in Requests, Light(r) PROVE Stutters
  <2>1. /\ UNCHANGED <<stock, placed, lateSale, cutShort>> /\ EmptyHanded(task[r])
    BY <1>2 DEF Light
  <2>2. PICK t : Become(r, t) /\ EmptyHanded(t)
    BY <1>2 DEF Light
  <2> QED BY <1>0, <2>1, <2>2, EmptyParts, KeepStutters
<1> QED BY <1>0, <1>1, <1>2, MoveReserves, TradeReserves, CreateReserves, CostlyReserves, StepCases

\* The checkout implements the reservation of whole orders: whatever checkouts,
\* write-offs and payments interleave, an order's units are all taken in one step,
\* when there are that many, and what a failed create() took in between is never
\* seen from outside.
THEOREM OrdersAppearWhole == Spec => ReservesAllOrNothing
<1>1. Init => Reserved!Init
  <2>1. SUFFICES ASSUME Init PROVE Reserved!Init
    OBVIOUS
  <2>2. ASSUME NEW s \in Skus PROVE stock[s] + Cardinality(Took(s)) = Initial[s]
    <3>1. \A r \in Requests : task[r].took = {}
      BY <2>1 DEF Init, Idle
    <3>2. Took(s) = {}
      BY <3>1 DEF Took
    <3>3. Cardinality(Took(s)) = 0
      BY <3>2, FS_EmptySet
    <3> QED BY <2>1, <3>3, InitialNat DEF Init
  <2>3. [s \in Skus |-> stock[s] + Cardinality(Took(s))] = Initial
    BY <2>2, InitialNat
  <2> QED BY <2>1, <2>3 DEF Init, Reserved!Init
<1>2. Shape /\ [Next]_vars
        => [Reserved!Next]_<<[s \in Skus |-> stock[s] + Cardinality(Took(s))], placed, lateSale, cutShort>>
  BY ReservesStep DEF Stutters, Free
<1>3. Init => Shape
  BY ShapeInit
<1>4. Shape /\ [Next]_vars => Shape'
  BY ShapeStep
<1> QED BY <1>1, <1>2, <1>3, <1>4, PTL DEF Spec, ReservesAllOrNothing, Reserved!Spec
================================================================================
