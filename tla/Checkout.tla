------------------------------- MODULE Checkout --------------------------------
(***************************************************************************)
(* Placing orders: OrdersService.create, with the coupon counters of       *)
(* PromotionsService and the abandonment sweep.                            *)
(*                                                                         *)
(* Concurrent checkouts share the stock of the products, the redemption    *)
(* counter of a coupon and, when a buyer has two tabs open, a cart.  A cart *)
(* checkout first sweeps orders that were never paid, then claims the      *)
(* coupon, takes the stock line by line with conditional updates, creates  *)
(* the order, records the coupon and empties the cart; when the stock or   *)
(* the order fails, what was taken is handed back.  A Kustom snapshot      *)
(* checkout skips the sweep and the cart, and its order may be abandoned.  *)
(* Payments land on orders, also on orders already written off.  One       *)
(* database statement is one step; no transaction spans two of them.       *)
(*                                                                         *)
(* A line is one unit of one SKU (the conditional update tests "enough for *)
(* this line", whatever the quantity).  Prices are left out, and the rows  *)
(* only the order itself reads (custom field values, commission); refunds  *)
(* and the order status are in OrderPayment.                               *)
(***************************************************************************)
EXTENDS Integers, FiniteSets

CONSTANTS
  Skus,         \* products and variants whose inventory is tracked
  CustomSkus,   \* variants sold through a custom product: create() takes none
  Initial,      \* units of each SKU in stock
  Limits,       \* what the coupon's usage_limit may be
  Requests,     \* requests in flight at the same time
  Buyers,       \* customers with a cart
  MaxOrders,    \* bound: orders placed
  MaxBaskets,   \* bound: carts filled and Kustom snapshots submitted
  MaxNotices,   \* bound: payments, declines and session edits that reach us
  MaxFailures   \* bound: statements that throw, requests that die

NoLimit == -1   \* usage_limit is null

ASSUME SkusFinite     == IsFiniteSet(Skus) /\ CustomSkus \subseteq Skus
ASSUME InitialNat     == Initial \in [Skus -> Nat]
ASSUME LimitsOK       == Limits \subseteq Nat \cup {NoLimit}
ASSUME RequestsFinite == IsFiniteSet(Requests)
ASSUME BoundsOK       == /\ MaxOrders \in Nat /\ MaxBaskets \in Nat
                         /\ MaxNotices \in Nat /\ MaxFailures \in Nat

VARIABLES
  stock,     \* stock_quantity of each SKU
  limit,     \* Promotion.usage_limit
  usage,     \* Promotion.usage_count
  cart,      \* the lines in each buyer's cart
  owner,     \* whose requests a request slot carries (two may be one buyer's)
  orders,    \* the order rows
  placed,    \* how many there are
  task,      \* the requests in flight
  baskets, notices, failures,  \* counters of the bounds
  cutShort,  \* history: a failure left stock or a redemption behind
  raced,     \* history: a payment flipped an order written off after its read
  lateSale   \* history: a late payment took stock without looking

promotion == <<limit, usage>>
book      == <<orders, placed>>
carts     == <<cart, owner, baskets, notices>>
faults    == <<failures, cutShort>>
history   == <<raced, lateSale>>
vars      == <<stock, limit, usage, cart, owner, orders, placed, task, baskets,
               notices, failures, cutShort, raced, lateSale>>

OrderIds == 1..MaxOrders
PayStatus == {"none", "pending", "awaiting_payment", "paid", "failed"}
Claims == {"none", "unlimited", "reserved"}

\* link: "card", or how the order is tied to its Kustom session; claim: what
\* claimRedemption answered; row: the PromotionUsage row exists; freed:
\* releaseOrderCoupon deleted it; aged: past the payment window.
NoOrder == [pay |-> "none", link |-> "card", lines |-> {}, claim |-> "none",
            row |-> FALSE, freed |-> FALSE, aged |-> FALSE]
Orders == [pay : PayStatus, link : {"card", "unlinked", "linked", "detaching"},
           lines : SUBSET Skus, claim : Claims, row : BOOLEAN, freed : BOOLEAN,
           aged : BOOLEAN]

\* took: lines whose stock create() holds before the order exists; todo: lines
\* still to take, restore or retake; sweep: orders the sweep has yet to fail.
Idle == [pc |-> "idle", kind |-> "none", lines |-> {}, coupon |-> FALSE,
         claim |-> "none", took |-> {}, todo |-> {}, order |-> 0, sweep |-> {},
         read |-> "none"]
Tasks == [pc : {"idle", "cart", "validate", "claim", "stock", "row", "undo",
                "release", "usage", "count", "empty", "link",
                "failRead", "failFlip", "restore", "couponFind", "couponDelete",
                "free", "unlink", "relink", "payFlip", "retake"},
          kind : {"none", "cart", "snapshot", "paid", "failed", "abandon", "detach"},
          lines : SUBSET Skus, coupon : BOOLEAN, claim : Claims,
          took : SUBSET Skus, todo : SUBSET Skus, order : 0..MaxOrders,
          sweep : SUBSET OrderIds, read : PayStatus]

TypeOK ==
  /\ stock \in [Skus -> Int] /\ limit \in Limits /\ usage \in Nat
  /\ cart \in [Buyers -> SUBSET Skus] /\ owner \in [Requests -> Buyers]
  /\ orders \in [OrderIds -> Orders] /\ placed \in 0..MaxOrders
  /\ task \in [Requests -> Tasks]
  /\ baskets \in 0..MaxBaskets /\ notices \in 0..MaxNotices /\ failures \in 0..MaxFailures
  /\ cutShort \in BOOLEAN /\ raced \in BOOLEAN /\ lateSale \in BOOLEAN

Init ==
  /\ stock = Initial /\ limit \in Limits /\ usage = 0
  /\ cart = [b \in Buyers |-> {}] /\ owner \in [Requests -> Buyers]
  /\ orders = [o \in OrderIds |-> NoOrder] /\ placed = 0
  /\ task = [r \in Requests |-> Idle]
  /\ baskets = 0 /\ notices = 0 /\ failures = 0
  /\ cutShort = FALSE /\ raced = FALSE /\ lateSale = FALSE

-------------------------------------------------------------------------------
(* Where a request goes next.                                                *)

At(r, pc)    == task[r].pc = pc
Become(r, t) == task' = [task EXCEPT ![r] = t]
Goto(r, pc)  == Become(r, [task[r] EXCEPT !.pc = pc])
Order(r)     == orders[task[r].order]

\* One more line done: go round again, or on to t after the last one.
Looped(r, i, t) == IF task[r].todo = {i} THEN t
                   ELSE [task[r] EXCEPT !.todo = task[r].todo \ {i}]

\* The sweep fails the orders it listed oldest first, then the cart is read.
SweepOn(t, rest) ==
  LET base == [Idle EXCEPT !.kind = "cart", !.coupon = t.coupon]
      oldest == CHOOSE o \in rest : \A p \in rest : o <= p
  IN  IF rest = {} THEN [base EXCEPT !.pc = "cart"]
      ELSE [base EXCEPT !.pc = "failRead", !.order = oldest, !.sweep = rest \ {oldest}]

\* markOrderFailed returns to the sweep, to abandonOrder (which frees the
\* coupon if the order is failed; if not, detachPendingOrder hands the order
\* back to its session) or to its webhook.
AfterFail(t, failed) ==
  IF t.kind = "cart" THEN SweepOn(t, t.sweep)
  ELSE IF t.kind \in {"abandon", "detach"} /\ failed
    THEN [t EXCEPT !.pc = "couponFind", !.todo = {}]
  ELSE IF t.kind = "detach" THEN [t EXCEPT !.pc = "relink", !.todo = {}]
  ELSE Idle

\* markOrderFailed's read: a paid or failed order is left alone.
ReadForFail(t) ==
  IF orders[t.order].pay \in {"paid", "failed"}
  THEN AfterFail(t, orders[t.order].pay = "failed")
  ELSE [t EXCEPT !.pc = "failFlip"]

\* releaseOrderCoupon returns to detachPendingOrder, which unlinks the order.
AfterCoupon(r) == IF task[r].kind = "detach" THEN [task[r] EXCEPT !.pc = "unlink"]
                  ELSE Idle

\* Only lines with a stock operation are taken; a custom product has none.
Taking(t) == IF t.lines \subseteq CustomSkus THEN [t EXCEPT !.pc = "row"]
             ELSE [t EXCEPT !.pc = "stock", !.todo = t.lines \ CustomSkus]

Quoting(t) == IF t.coupon THEN [t EXCEPT !.pc = "validate"] ELSE Taking(t)

\* MUTANT: a checkout that fails on stock keeps its redemption.
ReleasedNever(r) == Idle

Released(r) == IF task[r].claim = "reserved"
               THEN [Idle EXCEPT !.pc = "release", !.claim = "reserved"]
               ELSE Idle

\* create()'s catch blocks: restoreStock, then releaseRedemption.
Undo(r) == IF task[r].took = {} THEN Released(r)
           ELSE [task[r] EXCEPT !.pc = "undo", !.todo = task[r].took]

\* An order's row, with the lines and the claim of the request that places it.
Row(t, pay) == [NoOrder EXCEPT !.pay = pay, !.lines = t.lines, !.claim = t.claim,
                               !.link = IF t.kind = "cart" THEN "card" ELSE "unlinked"]

\* What create() ends with: emptying the cart, or the session's own update.
Ending(t) == IF t.kind = "cart" THEN "empty" ELSE "link"

-------------------------------------------------------------------------------
(* Customers, and time passing.                                              *)

FillCart(b, lines) ==
  /\ baskets < MaxBaskets /\ lines # {}
  /\ cart' = [cart EXCEPT ![b] = @ \cup lines] /\ baskets' = baskets + 1
  /\ UNCHANGED <<stock, promotion, owner, notices, book, task, faults, history>>

\* Nobody paid within the window of the order's payment method.
Age(o) ==
  /\ orders[o].pay = "awaiting_payment" /\ ~orders[o].aged
  /\ orders' = [orders EXCEPT ![o].aged = TRUE]
  /\ UNCHANGED <<stock, promotion, carts, placed, task, faults, history>>

\* MUTANT: the sweep looks for orders already written off.
CartCheckoutSweepsFailed(r, coupon) ==
  /\ At(r, "idle")
  /\ Become(r, SweepOn([Idle EXCEPT !.coupon = coupon],
                       {o \in OrderIds : orders[o].pay = "failed" /\ orders[o].aged}))
  /\ UNCHANGED <<stock, promotion, carts, book, faults, history>>

\* create() for the cart begins by listing the orders to sweep.
CartCheckout(r, coupon) ==
  /\ At(r, "idle")
  /\ Become(r, SweepOn([Idle EXCEPT !.coupon = coupon],
                       {o \in OrderIds : /\ orders[o].pay = "awaiting_payment"
                                         /\ orders[o].aged}))
  /\ UNCHANGED <<stock, promotion, carts, book, faults, history>>

\* create() from handleValidation: the session's lines, no sweep, no cart.
SnapshotCheckout(r, lines, coupon) ==
  /\ At(r, "idle") /\ baskets < MaxBaskets /\ baskets' = baskets + 1 /\ lines # {}
  /\ Become(r, Quoting([Idle EXCEPT !.kind = "snapshot", !.lines = lines,
                                    !.coupon = coupon]))
  /\ UNCHANGED <<stock, promotion, cart, owner, notices, book, faults, history>>

\* Something is reported about an online order: a new request, which reads it.
Notice(r, o, t) ==
  /\ At(r, "idle") /\ notices < MaxNotices /\ notices' = notices + 1
  /\ orders[o].pay \in {"awaiting_payment", "paid", "failed"}
  /\ Become(r, t)
  /\ UNCHANGED <<stock, promotion, cart, owner, baskets, placed, faults, history>>

\* markOrderPaid, for any order the provider can still name.
ReportPaid(r, o) ==
  /\ orders[o].link # "unlinked" /\ orders[o].pay # "paid"
  /\ Notice(r, o, [Idle EXCEPT !.pc = "payFlip", !.kind = "paid", !.order = o,
                               !.read = orders[o].pay])
  /\ UNCHANGED orders

\* payment_intent.payment_failed of a card order.
ReportFailed(r, o) ==
  /\ orders[o].link = "card"
  /\ Notice(r, o, ReadForFail([Idle EXCEPT !.kind = "failed", !.order = o]))
  /\ UNCHANGED orders

\* detachPendingOrder: the session lets go of its unpaid order.
Detach(r, o) ==
  /\ orders[o].pay = "awaiting_payment" /\ orders[o].link = "linked"
  /\ orders' = [orders EXCEPT ![o].link = "detaching"]
  /\ Notice(r, o, [Idle EXCEPT !.pc = "failRead", !.kind = "detach", !.order = o])

-------------------------------------------------------------------------------
(* create(): cart and coupon.                                                *)

\* An empty cart is refused.
ReadCart(r) ==
  /\ At(r, "cart")
  /\ LET lines == cart[owner[r]]
     IN  Become(r, IF lines = {} THEN Idle
                   ELSE Quoting([task[r] EXCEPT !.lines = lines]))
  /\ UNCHANGED <<stock, promotion, carts, book, faults, history>>

\* The limit is checked when it is truthy: a limit of 0 passes here.
ValidateCoupon(r) ==
  /\ At(r, "validate")
  /\ IF limit \notin {NoLimit, 0} /\ usage >= limit THEN Become(r, Idle)
     ELSE Goto(r, "claim")
  /\ UNCHANGED <<stock, promotion, carts, book, faults, history>>

\* claimRedemption: the counter moves only while it is below the limit.
ClaimRedemption(r) ==
  /\ At(r, "claim")
  /\ \/ /\ limit = NoLimit
        /\ Become(r, Taking([task[r] EXCEPT !.claim = "unlimited"]))
        /\ UNCHANGED usage
     \/ /\ limit # NoLimit /\ usage < limit /\ usage' = usage + 1
        /\ Become(r, Taking([task[r] EXCEPT !.claim = "reserved"]))
     \/ /\ limit # NoLimit /\ usage >= limit
        /\ Become(r, Idle)
        /\ UNCHANGED usage
  /\ UNCHANGED <<stock, limit, carts, book, faults, history>>

-------------------------------------------------------------------------------
(* create(): stock, order, and their compensation.                           *)

\* MUTANT: decrement without "where stock_quantity >= qty".
TakeStockUnguarded(r, i) ==
  /\ At(r, "stock") /\ i \in task[r].todo
  /\ stock' = [stock EXCEPT ![i] = @ - 1]
  /\ Become(r, [Looped(r, i, [task[r] EXCEPT !.pc = "row", !.todo = {}])
                  EXCEPT !.took = task[r].took \cup {i}])
  /\ UNCHANGED <<promotion, carts, book, faults, history>>

TakeStock(r, i) ==
  /\ At(r, "stock") /\ i \in task[r].todo
  /\ \/ /\ stock[i] >= 1
        /\ stock' = [stock EXCEPT ![i] = @ - 1]
        /\ Become(r, [Looped(r, i, [task[r] EXCEPT !.pc = "row", !.todo = {}])
                        EXCEPT !.took = task[r].took \cup {i}])
     \/ /\ stock[i] < 1
        /\ Become(r, Undo(r))
        /\ UNCHANGED stock
  /\ UNCHANGED <<promotion, carts, book, faults, history>>

\* restoreStock, one line at a time.
UndoLine(r, i) ==
  /\ At(r, "undo") /\ i \in task[r].todo
  /\ stock' = [stock EXCEPT ![i] = @ + 1]
  /\ Become(r, [Looped(r, i, Released(r)) EXCEPT !.took = task[r].took \ {i}])
  /\ UNCHANGED <<promotion, carts, book, faults, history>>

\* releaseRedemption, for a failed create() and for an abandoned order.
ReleaseRedemption(r) ==
  /\ task[r].pc \in {"release", "free"}
  /\ usage' = (IF usage > 0 THEN usage - 1 ELSE usage)
  /\ Become(r, IF At(r, "free") THEN AfterCoupon(r) ELSE Idle)
  /\ UNCHANGED <<stock, limit, carts, book, faults, history>>

\* COD orders start "pending" and are never settled by a provider.
CreateOrder(r) ==
  /\ At(r, "row") /\ placed < MaxOrders /\ placed' = placed + 1
  /\ \E pay \in IF task[r].kind = "cart" THEN {"pending", "awaiting_payment"}
                ELSE {"awaiting_payment"} :
       orders' = [orders EXCEPT ![placed + 1] = Row(task[r], pay)]
  /\ Become(r, [Idle EXCEPT !.kind = task[r].kind, !.claim = task[r].claim,
                  !.order = placed + 1,
                  !.pc = IF task[r].coupon THEN "usage" ELSE Ending(task[r])])
  /\ UNCHANGED <<stock, promotion, carts, faults, history>>

-------------------------------------------------------------------------------
(* create(): after the order exists.                                         *)

\* recordUsage: the audit row; unlimited coupons are counted only now.
RecordUsage(r) ==
  /\ At(r, "usage")
  /\ orders' = [orders EXCEPT ![task[r].order].row = TRUE]
  /\ Goto(r, IF task[r].claim = "reserved" THEN Ending(task[r]) ELSE "count")
  /\ UNCHANGED <<stock, promotion, carts, placed, faults, history>>

CountUsage(r) ==
  /\ At(r, "count") /\ usage' = usage + 1 /\ Goto(r, Ending(task[r]))
  /\ UNCHANGED <<stock, limit, carts, book, faults, history>>

\* All of the cart, also what was added since it was read.
EmptyCart(r) ==
  /\ At(r, "empty")
  /\ cart' = [cart EXCEPT ![owner[r]] = {}]
  /\ Become(r, Idle)
  /\ UNCHANGED <<stock, promotion, owner, baskets, notices, book, faults, history>>

\* handleValidation ties the order to the session, or abandons it.
LinkOrder(r) ==
  /\ At(r, "link")
  /\ \/ /\ orders' = [orders EXCEPT ![task[r].order].link = "linked"]
        /\ Become(r, Idle)
     \/ /\ Become(r, [Idle EXCEPT !.pc = "failRead", !.kind = "abandon",
                                  !.order = task[r].order])
        /\ UNCHANGED orders
  /\ UNCHANGED <<stock, promotion, carts, placed, faults, history>>

-------------------------------------------------------------------------------
(* markOrderFailed, releaseOrderCoupon and detachPendingOrder.               *)

FailRead(r) ==
  /\ At(r, "failRead") /\ Become(r, ReadForFail(task[r]))
  /\ UNCHANGED <<stock, promotion, carts, book, faults, history>>

\* MUTANT: where payment_status is not 'paid', forgetting 'failed'.
FailFlipTwice(r) ==
  /\ At(r, "failFlip")
  /\ IF Order(r).pay = "paid"
     THEN Become(r, AfterFail(task[r], FALSE)) /\ UNCHANGED orders
     ELSE /\ orders' = [orders EXCEPT ![task[r].order].pay = "failed"]
          /\ Become(r, [task[r] EXCEPT !.pc = "restore", !.todo = Order(r).lines])
  /\ UNCHANGED <<stock, promotion, carts, placed, faults, history>>

\* A caller that loses the flip reports the row it had read: not failed.
FailFlip(r) ==
  /\ At(r, "failFlip")
  /\ \/ /\ Order(r).pay \in {"paid", "failed"}
        /\ Become(r, AfterFail(task[r], FALSE))
        /\ UNCHANGED orders
     \/ /\ Order(r).pay \notin {"paid", "failed"}
        /\ orders' = [orders EXCEPT ![task[r].order].pay = "failed"]
        /\ Become(r, [task[r] EXCEPT !.pc = "restore", !.todo = Order(r).lines])
  /\ UNCHANGED <<stock, promotion, carts, placed, faults, history>>

\* restoreOrderItemsStock: every line with a tracked product or variant,
\* whether create() took it or not.
RestoreLine(r, i) ==
  /\ At(r, "restore") /\ i \in task[r].todo
  /\ stock' = [stock EXCEPT ![i] = @ + 1]
  /\ Become(r, Looped(r, i, AfterFail(task[r], TRUE)))
  /\ UNCHANGED <<promotion, carts, book, faults, history>>

FindUsage(r) ==
  /\ At(r, "couponFind")
  /\ Become(r, IF Order(r).row THEN [task[r] EXCEPT !.pc = "couponDelete"]
               ELSE AfterCoupon(r))
  /\ UNCHANGED <<stock, promotion, carts, book, faults, history>>

DeleteUsage(r) ==
  /\ At(r, "couponDelete")
  /\ \/ /\ Order(r).row
        /\ orders' = [orders EXCEPT ![task[r].order].row = FALSE,
                                    ![task[r].order].freed = TRUE]
        /\ Goto(r, "free")
     \/ /\ ~Order(r).row
        /\ Become(r, AfterCoupon(r))
        /\ UNCHANGED orders
  /\ UNCHANGED <<stock, promotion, carts, placed, faults, history>>

\* Only a failed order gives up its Kustom link.
Unlink(r) ==
  /\ At(r, "unlink")
  /\ orders' = [orders EXCEPT ![task[r].order].link =
                  IF Order(r).pay = "failed" THEN "unlinked" ELSE @]
  /\ Become(r, Idle)
  /\ UNCHANGED <<stock, promotion, carts, placed, faults, history>>

\* The order could not be failed: back to its session, unless a validation
\* has claimed the session meanwhile.
Relink(r) ==
  /\ At(r, "relink")
  /\ \E link \in {"linked", "detaching"} :
       orders' = [orders EXCEPT ![task[r].order].link = link]
  /\ Become(r, Idle)
  /\ UNCHANGED <<stock, promotion, carts, placed, faults, history>>

-------------------------------------------------------------------------------
(* markOrderPaid.                                                            *)

PayFlip(r) ==
  /\ At(r, "payFlip")
  /\ \/ /\ Order(r).pay = "paid"
        /\ Become(r, Idle)
        /\ UNCHANGED <<orders, raced>>
     \/ /\ Order(r).pay # "paid"
        /\ orders' = [orders EXCEPT ![task[r].order].pay = "paid"]
        /\ Become(r, IF task[r].read = "failed"
                     THEN [Idle EXCEPT !.pc = "retake", !.kind = "paid",
                                       !.todo = Order(r).lines]
                     ELSE Idle)
        /\ raced' = (raced \/ (Order(r).pay = "failed" /\ task[r].read # "failed"))
  /\ UNCHANGED <<stock, promotion, carts, placed, faults, lateSale>>

\* decrementOrderItemsStock: no guard on purpose.
RetakeLine(r, i) ==
  /\ At(r, "retake") /\ i \in task[r].todo
  /\ stock' = [stock EXCEPT ![i] = @ - 1] /\ lateSale' = TRUE
  /\ Become(r, Looped(r, i, Idle))
  /\ UNCHANGED <<promotion, carts, book, faults, raced>>

-------------------------------------------------------------------------------
(* Failures.                                                                 *)

Cut(leaves) ==
  /\ failures < MaxFailures /\ failures' = failures + 1
  /\ cutShort' = (cutShort \/ leaves)
  /\ UNCHANGED <<stock, promotion, carts, book, history>>

\* A stock update or order.create throws: create() compensates.
CreateThrows(r) == task[r].pc \in {"stock", "row"} /\ Become(r, Undo(r)) /\ Cut(FALSE)

\* Recording the usage is best-effort: logged, and on it goes.
UsageThrows(r) ==
  task[r].pc \in {"usage", "count"} /\ Goto(r, Ending(task[r])) /\ Cut(FALSE)

\* A statement of markOrderFailed outside its stock loop throws, before the
\* flip or right after it.  The sweep gives up and its checkout goes on;
\* abandonOrder reports that the order was not failed.
FailThrows(r) ==
  /\ \/ task[r].pc \in {"failRead", "failFlip"}
     \/ At(r, "restore") /\ task[r].todo = Order(r).lines
  /\ Become(r, IF task[r].kind = "cart" THEN SweepOn(task[r], {})
               ELSE AfterFail(task[r], FALSE))
  /\ Cut(At(r, "restore"))

\* releaseOrderCoupon swallows its errors.
CouponThrows(r) ==
  /\ task[r].pc \in {"couponFind", "couponDelete", "free"}
  /\ Become(r, AfterCoupon(r)) /\ Cut(At(r, "free"))

\* One line of a restore or retake loop fails; the loop goes on.
LineThrows(r, i) ==
  /\ i \in task[r].todo /\ Cut(TRUE)
  /\ \/ /\ At(r, "undo")
        /\ Become(r, [Looped(r, i, Released(r)) EXCEPT !.took = task[r].took \ {i}])
     \/ At(r, "restore") /\ Become(r, Looped(r, i, AfterFail(task[r], TRUE)))
     \/ At(r, "retake") /\ Become(r, Looped(r, i, Idle))

\* The process dies, or a statement no catch covers throws.
Interrupt(r) ==
  /\ ~At(r, "idle") /\ Become(r, Idle)
  /\ Cut(task[r].pc \in {"stock", "row", "undo", "release", "restore", "free", "retake"})

-------------------------------------------------------------------------------
Start(r) ==
  \/ \E coupon \in BOOLEAN :
       \/ CartCheckout(r, coupon)
       \/ \E lines \in SUBSET Skus : SnapshotCheckout(r, lines, coupon)
  \/ \E o \in OrderIds : ReportPaid(r, o) \/ ReportFailed(r, o) \/ Detach(r, o)

Proceed(r) ==
  \/ ReadCart(r) \/ ValidateCoupon(r) \/ ClaimRedemption(r)
  \/ ReleaseRedemption(r) \/ CreateOrder(r) \/ RecordUsage(r) \/ CountUsage(r)
  \/ EmptyCart(r) \/ LinkOrder(r) \/ FailRead(r) \/ FailFlip(r)
  \/ FindUsage(r) \/ DeleteUsage(r) \/ Unlink(r) \/ Relink(r) \/ PayFlip(r)
  \/ \E i \in Skus : \/ TakeStock(r, i) \/ UndoLine(r, i)
                     \/ RestoreLine(r, i) \/ RetakeLine(r, i)

Fail(r) == \/ CreateThrows(r) \/ UsageThrows(r) \/ FailThrows(r)
           \/ CouponThrows(r) \/ Interrupt(r)
           \/ \E i \in Skus : LineThrows(r, i)

Next ==
  \/ \E b \in Buyers, lines \in SUBSET Skus : FillCart(b, lines)
  \/ \E o \in OrderIds : Age(o)
  \/ \E r \in Requests : Start(r) \/ Proceed(r) \/ Fail(r)

Spec == Init /\ [][Next]_vars

\* A request in flight goes on, and customers keep checking out: the sweep has
\* no scheduler, it runs inside the next cart checkout.
Fairness ==
  /\ \A r \in Requests : WF_vars(Proceed(r))
  /\ SF_vars(\E r \in Requests, coupon \in BOOLEAN : CartCheckout(r, coupon))

FairSpec == Spec /\ Fairness

-------------------------------------------------------------------------------
(* Properties.                                                               *)

\* A limited coupon is never redeemed more often than its limit, however many
\* checkouts passed validateCoupon before the first of them claimed.  Its
\* counter is the number of orders and checkouts that really hold a redemption:
\* a failed create() and an abandoned order give theirs back, exactly once,
\* unless a request was cut short in between.
RedemptionsAccounted ==
  limit # NoLimit =>
    /\ usage <= limit
    /\ ~cutShort =>
         usage = Cardinality({o \in OrderIds : orders[o].claim = "reserved" /\ ~orders[o].freed})
               + Cardinality({r \in Requests :
                   \/ task[r].claim = "reserved" /\ task[r].pc \in {"stock", "row", "undo", "release"}
                   \/ task[r].pc = "free"})

Holding(s) == {o \in OrderIds : s \in orders[o].lines
                                /\ orders[o].pay \in {"pending", "awaiting_payment", "paid"}}
Took(s)    == {r \in Requests : s \in task[r].took}
Moving(s, pc) == {r \in Requests : task[r].pc = pc /\ s \in task[r].todo}

\* Every unit is accounted for: in stock, with an order that is payable or
\* paid, with a checkout about to place one, or on its way back; nothing is
\* kept by a checkout that failed.  Variants sold through custom products are
\* excepted: create() never takes them, yet a write-off puts them back.
StockAccounted ==
  ~cutShort /\ ~raced => \A s \in Skus \ CustomSkus :
    stock[s] + Cardinality(Holding(s)) + Cardinality(Took(s))
             + Cardinality(Moving(s, "restore"))
      = Initial[s] + Cardinality(Moving(s, "retake"))

\* The checkout implements the reservation of whole orders that Reservations
\* states: partial takes of a checkout that fails are never seen from outside.
Reserved == INSTANCE Reservations WITH
  free <- [s \in Skus |-> stock[s] + Cardinality(Took(s))]
ReservesAllOrNothing == Reserved!Spec

\* An order nobody pays does not lock its stock for ever: once past its window
\* it is written off (or paid), as long as customers keep checking out.
AbandonedIsReleased ==
  \A o \in OrderIds : orders[o].aged /\ orders[o].pay = "awaiting_payment"
                        ~> orders[o].pay # "awaiting_payment"
================================================================================
