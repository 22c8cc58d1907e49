# multi-stores-api: TLA+ models, checks and proofs

This directory holds a verification development of the NestJS API under
`src/src`: TLA+ modules translated from its source, TLC configurations that
check them on small instances, and TLAPS proofs of what matters most for every
instance. Paths below are relative to the repository (`src/...` is its own
source directory) and `orders.service.ts` stands for
`src/src/modules/orders/orders.service.ts`, and so on.

Run a check with `tlc -workers 2 -config OrderPayment.cfg MCOrderPayment.tla`
(any pair of the table in "Runs"), a proof with `tlapm OrderPaymentProofs.tla`.

## 1. Inventory

The API is one stateless Node process (or several behind pm2) over one
PostgreSQL database. All shared state is in that database; there is almost no
use of transactions across statements, no row locking beyond single conditional
`updateMany` statements, and no job queue. What makes it hard is therefore
always the same: two requests interleave between two `await`s, or one of them
stops between two statements, and the payment providers deliver late, twice, or
in another order.

| Component | State | Operations | Interacts with |
|---|---|---|---|
| Order payment transitions (`orders.service.ts` 2396-2760) | `Order.payment_status`, `Order.status`, `OrderCommission.status`, stock of the lines | `markOrderPaid`, `markOrderFailed`, `markAuthorizationReleased`, `markOrderRefunded`, ADMIN `updateStatus`, `restoreOrderItemsStock`, `decrementOrderItemsStock` | called by Stripe webhooks, Kustom pushes, page reloads, the sweep, dashboards |
| Checkout (`orders.service.ts` 1099-1640, `promotions.service.ts`) | stock, `Promotion.usage_count`, `PromotionUsage`, carts, orders | `create`, `claimRedemption`, `releaseRedemption`, `recordUsage`, `releaseExpiredAwaitingPaymentOrders`, `releaseOrderCoupon` | carts, coupons, payment transitions |
| Kustom session-first (`kustom-checkout.service.ts`) | `KustomCheckoutSession`, its orders, Kustom's own checkout | `createSession`, `updateSession`, `handleCheckoutUpdate`, `handleValidation`, `revalidateOrdered`, `detachPendingOrder`, `abandonOrder` | Kustom callbacks and API, checkout, payment transitions |
| Kustom order-first and money (`kustom.service.ts`) | `kustom_order_id`, the token, `kustom_captured_at`, addresses, refunds, the Kustom order | `createSession`, `handleValidation`, `processCompletedCheckout`, `syncShippingAddress`, `captureOrder`, `captureOnShipped`, `refundOrder`, `getLiveStatus`, `syncReleasedAuthorization` | Kustom's checkout and order management APIs, dashboards |
| Stripe money (`payments.service.ts`) | PaymentIntents, `OrderPayout` rows, Connect accounts | `createPaymentIntentForOrder`, webhook handlers, `issueOrderTransfers`, `verifyOrderPayment`, account replacement and disconnection | Stripe webhooks and API |
| Fulfilment (`orders.service.ts` 2090-2395) | item statuses, order status, commission | `updateStatus`, `updateItemStatus`, `recomputeOrderStatusFromItems` | providers, creators, Kustom capture, mail |
| Backups (`backups/`) | `Backup` rows, dump files, the scheduler's last-run mark, two in-memory flags | `create`, `delete`, `restore`, `applyRetention`, `tick`, boot cleanup | pg_dump, pg_restore, the file system, its own table |
| Pricing (`orders.service.ts` 494-915, 1644-1708, `bundles`, `taxes`, `shipping`, `common/money`) | none | `priceLine`, `computeTotals`, `computeTaxes`, `computeMarketplaceCommission`, the Kustom body | everything that shows or charges an amount |
| Storefront reads and the cart's estimate | none | `getProducts`, `getProduct`, `getCategories`, `getCart`, menus, pages, sitemap | every writer of what they show |
| Products, variants, collections | `Product`, `ProductVariant`, their parts, `CreatorCategory` | the editor's save, stock, copies, moves, reordering | orders, cart, custom products |
| Custom products and bundles | `CustomProduct`, translations, `BundleOffer` | create, copy, edit, submit, approve, reject, attach and detach bundles | provider products, cart, orders |
| Cart | `CartItem` rows | add, merge, update, remove, clear | bundles, checkout |
| Pages, themes, kits, menus | `Page`, `PageSection`, `PageVersion`, `MenuItem` | edit, publish, restore, apply a kit or a preset, ensure singletons | storefront |
| Translated documents | rows with a text per locale | create, replace, merge, delete, machine translation | storefront, mail |
| Accounts | `User`, `Session`, `Customer`, `Creator`, `Provider` | register, guests, reset, log out, administrator edits | mail, Kustom |
| Store desk | `Store`, tax classes and rates, shipping profiles, payment settings | saves, type switch and sweep, defaults, revalidation | pricing, storefront cache |
| Mail (`mail.service.ts`) | `StoreEmailSettings`, `PlatformSettings`, `EmailDeliveryLog` | the mails of an order and an account, the store's sender with the platform's behind it, the log and its retention, saves and tests of both senders | SMTP servers, every writer of orders and accounts |
| Commission reports, uploads, CORS, guards | their own rows or none | reads and output | |

What is hard to test, and what makes each component correct:

- **Order payment.** Confirmations, declines, sweeps, releases, refunds and
  administrators write one order concurrently, each deciding on a row it read
  earlier. Correct: the stock an order holds follows its payment status and is
  never taken twice, the commission follows the order status, money the
  provider holds is recognised, and an order loses "paid" only with the money.
- **Checkout.** Several checkouts share stock and a coupon's counter, with
  hand-written compensation when a later step fails. Correct: no oversell, no
  order with part of its lines, no redemption above the limit, nothing kept by
  a checkout that failed.
- **Kustom.** Shopper, Kustom's callbacks, the push and the sweep change one
  session or one order. Correct: an approved amount is backed by exactly that
  order, the customer pays once and where we look, authorized money is
  recognised, captures and refunds are what the order says they are.
- **Stripe.** Correct: nobody is paid twice, a paid order names a charge that
  was made, an account is charged only when it can receive.
- **Fulfilment.** Correct: the status is the one the lines call for, and the
  commission, the hooks and the mails follow it.
- **Backups.** Correct: never wedged, files and rows agree, each slot is served
  once, across crashes and restores.
- **Pricing.** Correct: Kustom accepts the lines, figures add up, the split gives
  away what came in, and what was shown is what is charged.
- **Mail.** Every move of an order passes through here, over two servers that
  may refuse or answer late. Correct: a message arrives and once, the log says
  what became of it, a move is told once, a sender shown as verified is one that
  was tested.
- **Catalogue, cart, site, desk.** Saves that run statement by statement and
  overlap. Correct: nothing written is lost or doubled, what is published is
  what was approved, links open, defaults stand, the cache is told.

`PROJECT.json` lists every component with its files, and every hazard at the
line where it bites.

## 2. Modules

| Module | Models | Checked by |
|---|---|---|
| `OrderPayment`, `OrderPaymentProofs` | the payment transitions of one order, and theorems about them | `order_payment`, TLAPS |
| `Reservations` | abstract: what the checkout promises about stock | refined by `Checkout` |
| `Checkout`, `CheckoutProofs` | concurrent `create()`, coupons, sweep, abandonment, late payments; theorems about them, the refinement among them | `checkout`, TLAPS |
| `KustomSession`, `KustomSessionProofs` | one session-first Kustom checkout, its row and its orders | `kustom_session`, TLAPS |
| `KustomOrder`, `KustomProofs` | one order-first Kustom order: its payment page, push and address | `kustom_order`, TLAPS |
| `KustomMoney`, `KustomProofs` | capture, refund and release of one Kustom order against Kustom's ledger | `kustom_order`, TLAPS |
| `Backups`, `DeskProofs` | the backup engine and its scheduler | `backups`, `backups_restore`, TLAPS |
| `Money`, `Tax`, `Shipping`, `KustomLines` | rounding and sharing; the tax engine; shipping quotes; the body sent to Kustom | `pricing`; the first three: TLAPS |
| `Pricing`, `StorefrontProofs` | quote, session, order and commission split over those, with edits in between | `pricing`, TLAPS |
| `Shown`, `StorefrontProofs` | what storefront and cart show of the same shop | `pricing`, TLAPS |
| `Payouts`, `OrdersProofs` | Stripe accounts, charges and transfers of one order | `orders`, TLAPS |
| `Fulfilment`, `OrdersProofs` | lines, order status, commission, hooks, mails | `orders`, TLAPS |
| `Products`, `Collections`, `Cart`, `Shop`, `ShopProofs` | own products and variants; the tree of collections; the cart; the three together | `shop`, TLAPS |
| `CustomProducts`, `ShopProofs` | custom products, review, bundles | `shop`, TLAPS |
| `Pages`, `Translated`, `Site`, `StorefrontProofs` | the page builder; rows with texts per locale; both with menus and what visitors reach | `site`, TLAPS |
| `Accounts`, `StoreDesk`, `DeskProofs` | users, links and profiles; stores, taxes, shipping and payment settings | `desk`, TLAPS |
| `Mail`, `DeskProofs` | which mails go out, by which sender, and what the log keeps | `desk`, `desk_verified`, TLAPS |
| `Requests` | what the back-office modules share of a request | |
| `MC...` | TLC instances: values of the constants, symmetry, bounds | |

Conventions. A request in flight is a record (in `task`, `job` of `Fulfilment`, or `req` in the modules
that extend `Requests`) with a program counter named for the next statement and
the values the code holds in local variables (what it read earlier, what it has
still to do). One database statement, or one call of an external service, is one
step; what runs between two `await`s is part of the step before. A failure is an
action of its own, bounded by a constant: a statement that throws continues
where the code's `catch` does, a crash drops the request. Variables marked
*history* are written by the actions and never read by them. Operators commented
`MUTANT` are plausible wrong versions of a definition below them, each one
refuted by the property it is listed with in `PROJECT.json`; the specifications
never use them.

Many properties have an exception, worded "unless": a history variable records
that the code went through a window it leaves open (two saves that overlap, a
statement that failed outside a transaction). The property then says that
this window is the only one. Section 5 collects these windows.

### 2.1 OrderPayment

`pay`, `status` and `commission` are the columns of the same names; `taken[i]`
is how many times line `i`'s quantity is out of the shared stock because of this
order (1 after `create()`); `psp` is what really happened at the provider and
`inbox` the notifications it has emitted, each deliverable at any time and any
number of times. `PaidRead`/`PaidFlip` are the two halves of `markOrderPaid`
(the `findUnique` with its early return, the conditional `updateMany`), likewise
for `markOrderFailed`, `markAuthorizationReleased` and `markOrderRefunded`;
`WriteCommission` is the commission update, `MoveStock` one iteration of a stock
loop, `AdminWrite` the status write of an administrator. Where the code
schedules the stock loop after the commission, so does the module.

Transitions address one order by id and move that order's lines only, so one
order is enough; shared stock is in `Checkout`.

The four *raced* transitions are the ones the code lets through although the
stock will not follow: a confirmation whose read is older than a write-off, a
confirmation of a refunded order, a refund of a written-off order, a decline of
a refunded order. `StockFollowsPayment` says there is no fifth one.

### 2.2 Checkout and Reservations

`stock`, `limit`/`usage` (the coupon), `cart` and `orders` are shared by the
requests. A cart checkout goes sweep, read, validate, claim, take each line,
create the order, record the coupon, empty the cart; a failure on the way runs
the compensations of the code (`UndoLine`, `ReleaseRedemption`). A Kustom
snapshot checkout skips sweep and cart. `FailRead`/`FailFlip`/`RestoreLine`/
`FindUsage`/`DeleteUsage`/`Unlink` are a write-off with its coupon, and
`PayFlip`/`RetakeLine` a payment that may be late.

`Reservations` knows only how many units of a SKU nothing holds. Orders appear
in one step with all of their lines or not at all. `Checkout` implements it
with `free[s] = stock[s] +` the units that a checkout still under way has taken:
its partial takes and their undoing are stuttering steps, creating the order is
`Place`. Oversell is possible only after `lateSale` (the code decrements
without a guard when a payment lands on an order already written off, "the
goods are sold either way").

### 2.3 KustomSession

`session` is the `KustomCheckoutSession` row, `orders` the orders made from it,
`kustom` Kustom's own view of the checkout. Requests are validations, address
or shipping callbacks, shopper edits and pushes. An amount is the pair of what
the snapshot costs and the destination, so that two snapshots may cost the same.

Assumed of Kustom, from how the code uses it: it accepts an answer only while
it waits for one, gives up on a callback after a timeout, refuses an update once
the checkout is complete, replaces what it validated when the amount is
updated, authorizes only after an approval, and pushes until acknowledged.
`approved` distinguishes an approval after comparing amounts (`checked`) from
one without comparison (`unchecked`): a validation that finds the session
already ordered, or that waited for a concurrent one, is approved without one.

`stray` records the cases excluded from the promises about amounts: two edits
overlapping, Kustom having given up on a request that still runs, an edit that
replaces a pending order by one of the very same amount, and a callback whose
answer gives Kustom back the amount of an order that an edit is about to replace
(section 5).

### 2.4 KustomMoney and KustomOrder

`KustomMoney`: `order` is the part of the order row that speaks of money
(`payment_status`, whether `kustom_captured_at` is set, whether the status is
terminal), `ledger` the order as Kustom holds it, `wire` the calls under way,
`task` the requests. A request loads the row (`Load`), reads Kustom (`LookLive`,
`ConfirmLive`, `RefundLive`, `Recheck`), sends a call and waits, and writes the
row (`MarkPaid`, `MarkCaptured`, `MarkReleased`, `Settle`): one step per await
that another request can change the outcome of. `TimeOut` leaves the call on the
wire, where it may still be executed; `Retry` asks for the same refund again.
The `mark...` methods of `OrdersService` are one step each, their interleavings
are `OrderPayment`.

Assumed of Kustom, from how the code uses it: it refuses to capture more than
was authorized, to refund more than was captured, and to cancel after a capture;
a call whose idempotency key it has executed is answered as the first time and
not executed again, a refused one is not remembered; the order stays `CAPTURED`
after refunds; an authorization expires or is cancelled only while nothing is
captured. `hit`, `doubted` and `crossed` are histories: how often the refund a request is
after was executed, whether a refund was tried again under another key (which
takes that it, or another one, was executed before the retry), whether another
refund was executed while this one waited. Nothing bounds the number of refunds
but the total.

`KustomOrder`: the payment page of an order that exists already. `order` holds
its token, the id of the checkout it points to, its address; `checkout` is what
Kustom has under each id. A page (`OpenPage`, `WriteToken`, `BackfillTax`)
takes up the checkout the order holds or creates one and stores its id only if
the order still holds what was read (`Claim`); pushes and confirmations read
Kustom, mark the order paid and take the typed address over in a find, a create
and an update. `Expire` is Kustom's 48 hours; a checkout expires only while no
request is in flight. `Die` cuts a request anywhere.

### 2.5 Backups

`rows` is the `Backup` table, `files` the dumps on disk, `dumps[b]` what dump
`b` contains (the Backup table and the last-run mark, as pg_dump saw them);
`running` and `restoring` are the flags of `BackupsService`. `Count` and
`Insert` are the two ends of `start()`; `StartRun`, `Dump`, `Finish`, `Fail` are
`run()`; `Retain`, `Unlink`, `Drop` are retention and delete; `FindFile` to
`LowerFlag` are `restore()`; `Crash` is a crash with the clean-up of
`onModuleInit`. Time is the number of the latest slot of the schedule. A file
written in part counts as no file. `OncePerSlot` (safety: no slot is backed up
twice) and `SlotServed` (liveness: each one is) are properties of their own.

### 2.6 Pricing and Shown

Everything is an operator over records; the only state is the sequence of
figures that depend on each other: `session` (what Kustom holds), `checked`
(the method a validation found it right with), `order`, `split`, and `edits`
that change the `shop` in between. Amounts are integers in hundredths, as the
`Decimal(10,2)` columns are, so that `Math.round` is exact. The reference
definitions are not the code's own: Kustom's rule that every line multiplies out
and the lines sum to the amount (`KustomAccepts`), the accounting identity of an
order row (`OrderAddsUp`, whose bound on the discount shares is half a currency
unit per line), the conservation of the revenue and the provider's floor
(`SplitIsWhole`).

`Shown` computes the prices of the same shop the way the storefront and the cart
do, with code of their own, and compares: `CartIsQuoted` (the cart's unit prices
and tax estimate are the order's), `OffersAreHonoured` (an offer the cart takes
is one the order does not refuse), `ListedIsSold` (a listed
product opens, at the prices of its card, and can be ordered; no category shown
is empty), `PageIsCharged` (the page's price is charged, but for the surcharge
in section 5).

### 2.7 Payouts and Fulfilment

`Payouts` has the rows (`party`, `order`, `ledger`) and what Stripe holds
(`stripe`, `intents`, `transfers` by idempotency key). Requests connect,
replace or disconnect an account, create an intent, settle a payment and issue
the transfers, one call per step; `Settle` makes the balance transaction ready.
Three histories name the windows: `lost` (a party that changed its account with a
transfer missing from the ledger), `crossed` (flags written by a sync for an
account replaced meanwhile, or by one of two connects that overlapped, or a reset
that was cut off), `overlapped` (an intent recorded over another).
`Fulfilment` has the lines' stages, the order status, the commission, and what
was hooked and mailed; `AdvanceOwn` and `AdvanceLine` are the fulfillers' and
the administrator's writes on lines, `ReadOrder`/`ReadItems`/`WriteStatus`/
`WriteCommission` the recomputation, `Cascade` what an administrator's status
does to the lines. The history `byHand` says that the status stands since an
administrator set it, which the recomputation does not always override.

### 2.8 The shop: Products, Collections, Cart, CustomProducts

`Products` models the editor's round trip: the page loads a product and sends
all of it back, and the save runs part by part (`req[r].todo` is what is left
of it). `book` is the shelf: counted by hand, minus what was sold.
`Collections` is the tree with `assertNoCycle` as a walk, one read per step; a
deleted collection leaves its id behind (`GoneCat`), which is not given twice.
`Cart` has the lines and the offers they carry; `wanted` and `ordered` count
pieces, as does `Pieces`, of what the lines hold. `CustomProducts` has the review, the floor under a bundle's price, and
the slugs; an edit is a record of the fields the payload holds, {} for one that
is left out.

### 2.9 The site: Pages, Translated, Site

A page is a set of sections with positions; publishing freezes the visible ones
into `versions`; kits and presets put a restore point there first. `Planned` is
the pure plan of a preset (`apply-chrome.ts`), checked by `PresetsAreClean`
against what it promises. `Translated` is one module for eleven kinds of rows:
each kind has the statements of its own service (which fields it replaces,
whether a transaction holds them, whether it merges one JSON value), over one
notion of a row with locales. `Site` adds menus and what the navigation, the
sitemap and the pages serve: `PagesAreFound` is that singletons are single, links
open, and what is served was published.

### 2.10 The desk: Accounts, StoreDesk

`Accounts`: looking an address up, hashing, and storing are separate steps;
`Normal` is the lower-cased address. `StoreDesk`: the store's row, its type
with the sweep of unpaid orders after a switch, tax classes and rates, shipping
profiles, and `cache`, what the storefront keeps until it is told.

### 2.11 Mail

`sold` is the status and payment of one order, `box` the copies that were
delivered and by which sender, `log` the delivery log. A handler reads the order,
writes it, and only then hands its mails over one by one (`Resolves`); the store's
sender is tried first when it has one (`HasSender`), its failure is logged and the
platform's takes over (`FallsBack`). A server accepts, refuses, or takes the
message and answers too late, which the code cannot tell from a refusal. `Ages`
lets the retention period pass, after which any row that is written may take the
old ones away. `Fulfilment` decides when an order moves; here its moves are inputs,
and `met` marks requests that read the order while another one was about to
write it. Histories `late`, `unlogged`, `cut`, `old` and `doubt` name what the
properties except; `plain` are the requests that met a marketplace store only.

### 2.12 How the modules compose

`KustomSession` calls `create()` and `markOrderFailed` as single outcomes; what
they do to stock and coupons under concurrency is checked in `Checkout`, whose
snapshot checkouts with their links `unlinked`, `linked` and `detaching` are the
same life of an order seen from the stock side. `OrderPayment` is the same order
again, in the detail of its status, commission and provider events, which the
others abstract to `pay`; `KustomMoney`, `KustomOrder` and `Payouts` are where
those events come from. `Pricing` gives the amounts that `KustomSession` compares
and `Payouts` transfers. `Shop`, `Site` and `MCDesk` put modules over one set of
requests; `MCOrders`, `MCShop` and `MCKustom` have two halves next to each other, and `MCDesk`
has the mails next to the desk. `Checkout` implements `Reservations` (`ReservesAllOrNothing`).

## 3. Runs

| Run | Module, cfg | Instance | What it shows |
|---|---|---|---|
| `order_payment` | `MCOrderPayment`, `OrderPayment.cfg` | 2 lines, 2 requests at a time, 3 non-confirmation requests, 1 interruption | what the order holds, what the commission says, which payments are kept, that a charge is recognised |
| `checkout` | `MCCheckout`, `Checkout.cfg` | 2 SKUs with one unit each, 2 requests, 2 orders, 1 basket, coupon unlimited or once, one failed statement or dead request | no oversell, every unit and every redemption has one holder, refinement of `Reservations`, the liveness of the sweep |
| `kustom_session` | `MCKustomSession`, `KustomSession.cfg` | 2 snapshots, 2 destinations, 2 requests, 3 calls, 2 orders, 1 failure | approvals are backed; session and orders agree; authorized money is recognised |
| `kustom_order` | `MCKustom`, `Kustom.cfg` | page: 3 requests, 2 checkouts, 2 addresses, 1 cut; money: 2 units, 2 requests at a time, 3 calls, 1 portal move, 1 timeout | paid once and where held, the push taken over whole, captures and refunds real, a lost authorization noticed |
| `backups` | `MCBackups`, `Backups.cfg` | 3 requests, 2 at a time, 2 slots, 2 backups, 1 failure or crash, retention 1 | never wedged, files match rows, slots served exactly once |
| `pricing` | `MCPricing`, `Pricing.cfg` | 3 baskets, 4 destinations, 3 stores, 2 platforms, 4 coupons, 8 edits one at a time | lines Kustom accepts, amounts that agree, figures that add up, prices shown that are charged |
| `orders` | `MCOrders`, `Orders.cfg` | payouts: 2 parties, 3 accounts, 2 intents, 2 workers, 3 requests, 1 fault; way: 2 lines, 2 clerks, 3 requests, 1 cut | paid out once, flags and charges that are so, an order that follows its lines |
| `shop` | `MCShop`, `Shop.cfg` | 2 products with 3 variants, 3 collections, 2 cart lines, 1 offer, 2 custom products, 1 bundle; 2 requests from every state of one part | stock counted, catalogue and cart whole, published was reviewed, bundles above cost, slugs open |
| `site` | `MCSite`, `Site.cfg` | 3 pages, a kit, 2 presets, 11 kinds of rows, 2 locales, 3 requests | pages found and kept, presets clean, texts saved as sent |
| `desk` | `MCDesk`, `Desk.cfg` | 5 users, 2 spellings of an address, 3 orders, 3 classes, 2 rates, 3 profiles, 3 requests; mail: 2 requests, 2 faults, 2 passwords, 6 statuses | accounts sound, settings stand, the cache current, a mail arrives once and the log says so, moves are told |
| `desk_verified` | `MCDesk`, `DeskVerified.cfg` | 2 hosts of a mail server | *violation* of `VerifiedWorks`: a sender whose host is changed, the password kept, is still shown as verified |
| `backups_restore` | `MCBackups`, `BackupsRestore.cfg` | 3 backups, no failures | *violation* of `FilesStayListed`: the row of the restored dump comes back RUNNING without its file and blocks later backups |

**Bounds.** Every hazard of the list is a race of two requests, or of one
request and a failure, about one order, unit, coupon, session, product or page;
two requests in flight, one spare unit, one redemption and one failure are the
smallest instance in which each of them happens. Where a theorem states the same
property, the instance only guards the model: `checkout` has one basket (two
tabs that submit one cart) and `kustom_session` three calls, while
`CheckoutProofs` and `KustomSessionProofs` hold for any number. Safety of
`KustomSession` was also checked with four calls, and with five and three orders
without failures, outside the runs. `MaxStarts`, `MaxBaskets`,
`MaxNotices`, `MaxCalls`, `MaxSlots`, `MaxOrders`, `MaxBackups`, `MaxRequests`
bound how long a history is, not what may overlap in it. Payment confirmations
are not bounded. Runs that reach their bound stop, hence `CHECK_DEADLOCK FALSE`.
Every action of every module fires in the passing runs.

Where one run checks several modules, the variable `area` says which of them a
behaviour is about, and the others keep their initial state. That loses
nothing where the parts share no rows (`kustom_order`: the page is over before
the money is captured; `orders`: payouts read no line status; `site`; `desk`,
where area `told` keeps the mail settings and area `mail` the order), and it is a
bound where they do (`shop`: products and collections share links, and
area `both` has them together from one state). Further bounds, each in an MC
module: in `shop`, products start in every state but that with stock 0, custom
products with one at any stage of its review, a base price of 1 and a marketplace
store (`OneCustom`); in `site` no more than two requests go to
translated rows; the platform's configuration row exists; prices in `pricing`
are small numbers whose rounding meets every case (halves, currencies without
decimals, discounts that do not divide).

**Fairness.** *Requests* (`WF` of each request's steps): an HTTP request that
has begun runs to its end unless a failure action takes it; nothing in the code
waits for another request. *Confirmations* (`SF` of `ReceivePaid`, `WF` of
`Push`): Stripe repeats a webhook and Kustom a push until it is acknowledged,
and the code acknowledges only after processing. *Callbacks*: Kustom gives up
in the end (`WF` of `GiveUp`). *Calls*: a call under way to Kustom is executed
or refused in the end (`WF` of `Execute`). *Looks* (`SF` of `Look`): Kustom
sends no push for a lost authorization, so noticing it needs a merchant who
opens the order's live state now and then. *Sweep* (`SF` of `CartCheckout` in `Checkout`):
it has no timer, it runs inside the next cart checkout; "as long as customers
keep checking out" is the assumption, and without it abandoned stock stays
locked. *Scheduler* (`WF` of `Tick`): `setInterval`. Nothing is assumed of
shoppers, administrators or failures. The other modules state safety only:
nothing in `Payouts`, `Shop`, `Site` or `Desk` is retried by the code itself.

## 4. Proofs

Eight modules hold theorems, each next to the modules it is about. Every one of
them is proved by the same three facts: the initial states satisfy an inductive
invariant, every step keeps it, and it implies the property. TLC had checked each
of these invariants on the run of its module before it was proved. A theorem
holds for every value of the constants that meets the assumptions below: any
finite number of requests, any number of orders, sessions, checkouts, backups or
calls, any amounts and any bounds.

| Module | Theorem | Property |
|---|---|---|
| `OrderPaymentProofs` | `Typing` | `TypeOK` |
| | `StockNeverTakenTwice` | `NeverTakenTwice` |
| | `StockMatchesPayment` | `StockFollowsPayment` |
| | `CommissionMatchesStatus` | `CommissionFollowsStatus` |
| | `PaidIsKept` | `PaidOnlyLostWithTheMoney` (an action property) |
| `CheckoutProofs` | `Typed` | `TypeOK` |
| | `NothingOversold` | stock is never negative unless a late payment sold on (`NoOversell`) |
| | `EveryUnitHasItsPlace` | `StockAccounted` |
| | `LimitIsKept` | `RedemptionsAccounted` |
| | `OrdersAppearWhole` | `ReservesAllOrNothing` (`Checkout` implements `Reservations`) |
| `KustomSessionProofs` | `Typed` | `TypeOK` |
| | `ApprovedIsBacked` | `ApprovedHasOrder` |
| | `SessionAndOrderAgree` | `SessionHoldsOrder` |
| `KustomProofs` | `WellTyped` | `PageTypeOK` and the steps each kind of request can be at |
| | `PaidOnceAndFound` | `PaidWhereHeld` |
| | `WholeWhenAcknowledged` | `AcknowledgedIsWhole` |
| | `Typing` | `TypeOK` |
| | `MoneyIsAsKustomHasIt` | `MoneyIsReal` |
| `OrdersProofs` | `TypedRows` | `TypeOK` |
| | `NobodyPaidTwice` | `PaidOnce` |
| | `FlagsAreOfTheAccount` | `FlagsDescribeAccount` |
| | `ChargeIsFound` | `PaidChargeIsFound` |
| | `WayTyped` | `WayTypeOK` |
| | `LinesAreFollowed` | `OrderFollowsLines` |
| `DeskProofs` | `Typed` | `TypeOK` of `Backups` and what each step of a request holds |
| | `NothingIsWedged` | `NeverWedged` |
| | `SlotsAreServedOnce` | `OncePerSlot` |
| | `FilesAgree` | `FilesMatchRows` |
| | `AccountsTyped` | the shape of users, links and requests |
| | `AccountsStaySound` | `AccountsAreSound` |
| | `DeskTyped` | the shape of the store, its orders, rows and requests |
| | `SettingsStayStanding` | `SettingsStand` |
| | `ShownStaysCurrent` | `ShownIsCurrent` |
| | `MailTyped` | the shape of messages, log, senders and requests |
| | `MailsArrive` | `MailArrives` |
| | `MovesAreAlwaysTold` | `MovesAreTold` |
| `ShopProofs` | `CustomTyped` | the shape of custom products, bundles and requests |
| | `OfferedStaysSound` | `OfferedIsSound` |
| | `ShopTyped` | the shape of products, collections, cart and requests |
| | `StockStaysCounted` | `StockIsCounted` |
| | `CatalogueStaysWhole` | `CatalogueIsWhole` |
| | `CartStaysWhole` | `CartIsWhole` |
| `StorefrontProofs` | `SiteKept` | the inductive invariant of pages, translated rows and menus |
| | `PagesStayFound` | `PagesAreFound` |
| | `TextsStayAsSent` | `SavedAsSent` |
| | `BillsAddUp` | `PricedRight` (`OrderAddsUp` and `SplitIsWhole`) |
| | `WhatIsAuthorizedIsOrdered` | `AuthorizedIsOrdered` |
| | `PricesShownAreCharged` | `CartIsQuoted` and `PageIsCharged`, two parts of `ShownIsCharged` |

**Assumptions.** They are the named `ASSUME`s at the top of the modules, which
TLC evaluates in every run. Requests, lines and SKUs are finite sets
(cardinalities are counted over them); stock, costs and bounds are naturals, a
coupon's limit a natural or none; a total is not 0, retention keeps at least one
backup; `AdminStatuses` is a subset of the enum; a value that stands for
"nothing" (`None`, `Nobody`) is not one of the things it is the absence of, the
creator is not a provider, the scheduler not a request. The theorems on `Fulfilment`
have theirs as a hypothesis, `ConstantsOK` (an order has a line, the sets of statuses that may
be asked for are sets of statuses), which `MCOrders` has TLC evaluate for its
instance. `Normal` maps addresses to addresses, and "paid" is no status of `Rank`.
In the shop every variant has its product and there is a variant, lines are a
finite set, quantities and the pieces an offer takes are positive, a slug is not
the id of a custom product, and edits are payloads of the declared shape.
In the site, page ids are `1..n` for some `n`, kits bring no listing template,
presets only header and footer, and what may be sent is sets of locales. In
pricing, `ShopsPriced`, `ShopsShelved` and `BasketsOrdered` say what a shop and a
basket are (prices not negative, a percentage at most 100, a unit of currency,
positive quantities); `BillsAddUp` and
`PricesShownAreCharged` assume besides that an edit of such a shop leaves such a
shop, at any depth.
What is assumed of Kustom and Stripe is in the actions that model them (2.3, 2.4, 2.7).

### 4.1 OrderPayment

None of the properties is inductive. `Settled(i)` counts what the order will
hold of a line once all requests in flight are done, so that a flip and the
stock loop it starts cancel out. The inductive invariant is

    Inv == TypeOK /\ TaskShape /\ SeenFailed /\ Caused
           /\ StockBounded /\ StockFollowsPayment /\ CommissionOwed

- `TaskShape`: which stages a request of each kind can be in; only stock loops
  have lines left, only write-offs, refunds and administrators owe a commission.
- `SeenFailed`: a confirmation that read a written-off order cannot find it
  unpaid again, so its decision to retake the stock is not made on a status the
  order may return to.
- `Caused`: releases and refunds run only once the money is really gone, the
  reason why `PaidOnlyLostWithTheMoney` holds of the flips without reading `psp`.
- `StockBounded`: `Settled(i) <= Held(pay)`, stronger than `NeverTakenTwice`
  (a written-off order holds nothing), which is what a later confirmation needs.
- `CommissionOwed`: at most one commission write is outstanding and it carries
  the current status; without it `CommissionFollowsStatus` says nothing while a
  write is on its way.

The stock part of each step is reduced to one lemma, `FlipSettled`: a flip
changes what one request owes by `d` per line and nothing else; `SettledStep`
does the cardinalities.

### 4.2 Checkout and Reservations

`Shape == TypeOK /\ TasksOK /\ OrdersOK /\ SeenFailed /\ Unrecorded /\ NoOversell`
says what a request has in hand at each of its stages (what it took and what it
has still to take are its lines; what it undoes is what it took), that only the
request which placed an order records its redemption, and once, and that orders
are numbered in the order they were placed. The two properties are inductive
together with it.

There are some forty kinds of steps, and few of them touch stock or coupon.
`StepCases` says so once: every step is one of five, `Aside` (stock, coupon and
requests stay as they are), `Light` (a request that holds nothing goes on and
still holds nothing), `Moves` (a unit moves between shelf and request), `Trades`
(the statements that reserve, place, record, write off or pay) and `Costly` (a
failure that loses what its request held). Each property then has one lemma per
class, and under `Trades` one per action:

- `StockAccounted`: `Balance(s)`, the shelf plus the orders that hold a unit plus
  what requests carry (took, have to hand back, less what they have yet to take
  for a late payment), keeps its initial value.
- `RedemptionsAccounted`: `usage` counts the orders that redeemed and the requests
  that reserved (`Accounted`); a claim finds `usage < limit` in the statement
  that increments it.
- `ReservesAllOrNothing`: `free[s] = stock[s]` plus what checkouts under way have
  taken. Takes and their undoing leave `free` alone and stutter, creating the
  order is `Place`, a line that a write-off hands back is `Return`, one that a
  late payment takes `SellAgain`, and what a failure loses `Lose` (`IsPlace` ...
  `IsLose`, `ReservesStep`).

### 4.3 KustomSession

`SessionsInv` is a conjunction of nine parts, each about one thing another
request could spoil:

- `TaskInv`: what a request of each kind holds at each step, and that nobody
  knows of an order that is not there yet.
- `SessionInv`: the session is `ordered` exactly while it has an order, which is
  linked and has its coupon.
- `OwnInv`: an order a request answers for (made and not linked, or detached and
  not failed) is neither the session's nor another request's.
- `AwaitInv`, `FreedInv`: an order that waits for money is the session's or has
  such a request behind it; a failed one is freed or about to be. At rest these
  are `NoOrphans` and `ReplacedIsFreed`.
- `PushInv`, `AskInv`: the push comes after the purchase; Kustom waits for every
  callback in flight, and one edit runs at a time.
- `AmountInv`: what requests still under way know of the amount. A validation has
  the amount Kustom holds; if it finds the session's order at that amount, no
  edit is about to detach it; an edit at `detach` replaces an order of another
  amount.
- `PaidInv`: a paid order, and one about to be, is the session's and of the
  amount Kustom holds.

A step that changes neither orders nor what Kustom holds is dealt with once
(`AsideKept`, from `Rows`, `Money`, `Aside` and `Knows`); the others have a lemma
each. The proof needs `stray` to cover four windows. The fourth, a callback's
answer that overtakes an edit (section 5), was found by this proof: the invariant
was not inductive at `Answer`, and TLC then printed the behaviour with four
requests, one more than the run has.

### 4.4 KustomOrder and KustomMoney

`PaidWhereHeld` follows from `PageInv`: once a page was handed out the order holds
a checkout, only the checkout it holds is ever approved, and a request that has
read an id, or made a checkout and lost the claim, knows that the order holds one
and replaces only an expired one. `AcknowledgedIsWhole` follows from `AddressInv`
on top of it: there is one completed checkout at most, so the address an order
has is the one it started with or that checkout's, and what each verification
knows of it stays true.

`MoneyInv` has `LedgerInv` (what Kustom executed shows in its ledger, and a
refund under way is numbered no higher than the refunds there are), `TaskInv`
(what a request is about to write of the money is so), `OrderInv` (three parts of
`MoneyIsReal`) and `KeyInv` (the calls of one refund have one key unless it was
`doubted`, which is why it is executed once). An expired or cancelled
authorization is final, and captures only grow: that is what makes a status read
before an await still true after it.

### 4.5 Payouts

`PaidOnce` needs `Keyed` (a transfer lies under the key of its account, and who
is about to record a payout has its transfer) and, for a recipient that did not
change its account too early, `Kept`: whoever pays it uses the account it has, a
transfer to another account is in the ledger with nobody disputing it, and there
is one transfer at most. The crossing of webhook and confirmation is then harmless
because both send the same idempotency key. `FlagInv` adds that what a sync read
stays true and that a party without account is not enabled, `ChargeInv` that a
payment about to be recognised was charged where the order says.

### 4.6 Backups

`HeldInv`: until a restore brings rows back, a raised flag or an active row has a
request at it, so at rest nothing blocks. `SlotInv`: a slot is claimed before its
backup is counted and only a later one is due. `FileInv`: each run has a row of
its own, active and without a file until its dump; what is being deleted is no
run's, and its file is gone once its row is next. Retention deletes the oldest
rows first, which needs that a set of ids that is not empty has a greatest
element: it is read from the well-foundedness of the naturals (`HasGreatest`),
since the library's induction theorems take an operator, which no prover here can
instantiate.

### 4.7 Fulfilment

`ShippedInv` is about the first half of `OrderFollowsLines`: every line at SHIPPED
or beyond is one that `shipped` recorded, and a status SHIPPED or DELIVERED, be it
written or about to be, has all of them. The second half holds when no request is
in flight, so each of its three parts needs its counterpart for the time between:
`CommissionInv` (one request at most has written the status and not yet what
follows from it, and it carries the current one), `ToldInv` (whoever made the
order SHIPPED has run the hooks and sent the mail, or is about to) and
`BehindInv` (while the status is behind the lines, a request is in flight that
will bring one to the other: it has yet to read, or it has read a status that is
behind, or it will write one that is not, or it will cascade). Ranks and the
slowest line are minima and positions in a sequence; `OrderRanks`, `StageRanks`,
`Slowest` and `Candidate` say once what they are.

The general theorem was false of the property as it had been stated for the run:
with CONFIRMED among the statuses an administrator may set, the lines are set to
PROCESSING and the order stays one step behind them. The run now has that status
and the property names the case (`Ahead`, section 5).

### 4.8 Accounts, StoreDesk and Mail

The three are proved apart, each for its own specification (`AccountsSpec`,
`DeskSpec`, `MailSpec`) with any number of requests, whose initial states are
those that requests which did not overlap can leave. The run starts from some of
them.

*Accounts.* `AccountsInv` has `OneAccountEach` as it stands, and `WholeInv`: what
`AccountsAreWhole` says once a user's requests have ended holds at every moment,
or a request at `revoke`, or at `profile`, is about to make it so. Links of a user
not yet made are part of it, since ids are given out later.

*StoreDesk.* `DeskInv` has a part for each promise. `GovernsInv`: a save that has
not met a switch still knows the type, and an order split by the old type is
covered by a sweep that has yet to list it or to derive it. `TaxInv`: while no two
saves of classes met, what each of them read (the defaults to clear, that a class
is not the default and has no rates) is still so. `ShipInv`: between its two
statements a request that sets the default profile leaves none. `ShownOrTold`:
the cache is current or an announcement is on its way; that shop and checkout
offer the same methods follows from the definitions of both.

*Mail.* `SentInv` follows each message. A row of the log is true when it is
written and stays so (`RowTrue`); what a request at each stage of a delivery knows
of the copies and rows of its message (`StageSound`) is what makes the next
sender's attempt the only one; a message nobody works on any more has a row
(`MessageSound`); each event is handed over once (`AskedSound`). `SettingsInv` adds
that a request which met a marketplace store only is not at the store's sender
(`PlainSound`), and that a test about to be recorded went out with the password it
holds (`TestSound`). `ToldInv`: what a request has told and has still to tell is
what it moved, which needs that a writer who met nobody still knows the status.

### 4.9 The shop: custom products, catalogue and cart

*Custom products* are proved for their own specification (`CustomSpec`), which
starts in any row and bundle that meets the promise. `CustomInv` says of the
stored row and bundles what `OfferedIsSound` says (`PublishedWasReviewed`,
`BundleAboveCost`, and `SlugInv` for slugs), and of every request what it may still
rely on at its next statement (`RequestSound`), unless a history records that
something was written in between; no two requests create one row (`CreatesApart`).

*Products, collections and cart* are proved together, for `ShopSpec`: they share
the requests, and products and collections the links. `ShopInv` is the typing, the
property `StockIsCounted` (inductive as it stands) and one invariant for each of
the others:

- `PartsInv`: a save is a list of statements, `Plans` has all that can be left of
  one, and `Missing` the parts that such a rest has yet to create. A product with
  one save under way has exactly the other parts, once each. `PlanMoves` goes
  through the plans once; every statement then is one use of it.
- `TreeInv`: parents are rows, a new collection is not below anything before it
  is stored, and the one move there may be has climbed a closed set: all that is
  above what it has `seen` is seen or next, and the moved collection is not in it
  (`Climbs`). When the walk ends the new parent's ancestors are known, and a set of
  collections without a root would have to go through the moved one.
- `CartInv`: lines carry offers that exist; and unless two requests overlapped,
  one request writes at a time, lines are whole, the cart balances (or an order was
  placed and the cart is about to be emptied) and the request that writes still
  knows the line it read, up to offers that sellers have taken off it since
  (`AddSound`, `UpdateSound`, `CheckoutSound`). `PiecesMove` says that a change of
  one line changes the pieces by what that line has; a quantity that is whole stays
  so by `WholeAdds`.

A step of a seller, and the reading of the cart, can only take offers off the
lines (`CartThins`); a step of the request that writes is `CartWrites`.

### 4.10 The site

`SiteInv` is `DocInv /\ PagesInv /\ MenuInv`, over any number of pages, rows,
locales, kits and presets.

- `DocInv`: a row nobody tore has exactly the texts meant for it, or none while its
  save is between delete and insert (`Cleared`); who merges still knows them all.
- `PagesInv`: rows are used from the lowest id on and no two pages share an
  address; of a sort that was not raced for there is one page (`OnePage`);
  a live page points at a version that was published, which holds the visible
  sections unless the page was revised since (`Versioned`); and what a request found
  before an await, or took a snapshot of, is still so where it is going to rely on
  it (`Found`, `Snapped`). Every statement does one of five things to a page (it
  leaves, fills, touches, shows or removes it: `Turns`), and one lemma,
  for all of them, carries `PagesInv` over.
- `MenuInv`: while no two saves of items were mixed, the menu is the list last sent.

The proof showed that the model's reordering of sections had a guard no page met;
it was put right, and the run with it.

### 4.11 The amounts

*Sums and sequences.* The folds of the library are `CHOOSE`n recursive functions, so
each one used (sums over sets, products of rates, concatenations, the
largest-remainder steps) is first shown to have a function that meets its
recursion. This is done without an induction theorem: a set of numbers that is not
empty has a least element (`HasLeast`), and the set that is applied to is the set of
counterexamples.

*`BillInv`* says that the shop is `Priced`, that the order is the row of a `Sound`
priced basket, and that the split is whole. A basket is sound when it adds up
(lines, discount, shipping and taxes give the total, the tax lines give the tax, a
share is within half a unit per line of what is proportional) and owes what it
should. Sharing a discount by largest remainder loses nothing whatever the weights;
taxes are summed line by line in the order the code sums them, and the breakdown by
label and rate has the same sum because the groups partition the parts. The bound on
the shares needs its slack *per line*: in a currency without decimals, three lines
of 0.40 and a coupon of 100 % round one by one, and the discount as a whole.

*`HeldInv`* needs no arithmetic: the order is the row of some priced basket, and an
order made while a session was there was compared with its amount.

*Shown.* In a shop that is `Shelved` (what the rows of a product look like, per
pricing mode), cart and order reach one unit price by two different paths through
modes, variants and custom products, and so do the page and the order, but for
the surcharge in section 5. The proof found that two arms of a CASE in the model
overlapped (a custom product of a priced variant); they are ordered now as in the
code.

### 4.12 What is only model-checked

- Liveness: `ChargeIsRecognised`, `AbandonedIsReleased`, `AuthorizedIsPaid`,
  `GoneIsNoticed`, `SlotServed`. They rest on fairness and `ENABLED`, which the
  prover cannot reason about.
- `KustomAccepts`: its tolerance per line does not hold for every amount, since the
  rate sent for a line with stacked rates is rounded to a basis point; it holds for
  amounts as small as those of the run.
- `ListedIsSold` and `OffersAreHonoured`: they rest on data the code enforces in
  part only (end of section 5).
- `PagesAreKept`: the plans of kits and presets are folds over the sections they
  find, and what a plan claims is recursive.
- `VerifiedWorks` and `FilesStayListed` are violated (section 3).

## 5. Where the code leaves a window

Each of these is in the models. The property named holds around it: its history
variable or its exception is the window, and removing the exception makes TLC
print the shortest run that leads there.

| Where | What happens | Excepted in |
|---|---|---|
| `orders.service.ts:2536` | a decline after a refund, or a refund after a write-off, restores the lines twice (the comment at 2660 says it cannot) | `StockFollowsPayment` (`raced`) |
| `orders.service.ts:2418` | a confirmation delivered after the refund marks the order paid again | `StockFollowsPayment` (`raced`) |
| `orders.service.ts:2732` | writing off an order of a custom product with a variant adds stock that was never taken | no run has such a SKU (`CustomSkus`) |
| `orders.service.ts:2163` | the recomputed status is written by id over a newer one, so a cancelled or refunded order can ship again (the comment at 2129 says "Advance-only") | `CaughtUp` (`overwritten`) |
| `orders.service.ts:2272` | CONFIRMED set by an administrator makes the lines PROCESSING: the status is behind its slowest line (the comment at 2126 says it reflects it) until a line moves again | `CaughtUp` (`Ahead`) |
| `orders.service.ts:2182`, `:2279` | the shipped hooks run when the status becomes SHIPPED: an order that goes straight to DELIVERED is never captured by them | `CaughtUp` speaks of SHIPPED only |
| `kustom-checkout.service.ts:1304` | an edit detaches the order first; the validation takes its failed detach for a paid order and approves (comment at 1297) | `ApprovedHasOrder` (`stray`) |
| `kustom-checkout.service.ts:797` | an edit that keeps the amount detaches an order Kustom has authorized in between | `ApprovedHasOrder` (`stray`) |
| `kustom-checkout.service.ts:1028`, `:787` | the answer of a callback that priced the old snapshot reaches Kustom after an edit's update, and gives it back the amount of the order the edit is about to detach; that amount is approved, and then its order is gone | `ApprovedHasOrder` (`stray`) |
| `kustom-checkout.service.ts:1282` | a session whose order was swept is still approved, without comparing amounts | `ApprovedHasOrder` (approval `unchecked`) |
| `kustom.service.ts:1633` | a refund times out and is executed all the same, or another refund is executed before the retry; the retry reads one refund more, makes another key and may refund again (the comment at 1627 says it is deduplicated) | `MoneyIsReal` (`doubted`) |
| `kustom.service.ts:925`, `:1590` | a reload of the confirmation page marks a refunded order paid; partial refunds that add up never mark it refunded | no promise says otherwise |
| `kustom.service.ts:384` | two first visits to the page of an order without a token overwrite each other's token; the checkout with the lost one is refused until it expires | `PaidWhereHeld` is about payments only |
| `storefront.service.ts:1247` | the page of a SINGLE-priced product adds a variant's surcharge that neither cart nor order charges (`orders.service.ts:551`) | `PageIsCharged` (`Surcharged`) |
| `payments.service.ts:1179` | a recipient who changes its account while a transfer is missing from the ledger is paid again | `PaidOnce` (`lost`) |
| `payments.service.ts:1149` | payouts deferred until the balance is ready are attempted again only by hand | no fairness claimed |
| `bundles.service.ts:331` | every update of a bundle deletes and recreates its offers, so the order items that carried one lose it, though a delete refuses exactly that | no run; `sold` records it |
| `custom-products.service.ts:639` | a DRAFT is published by an edit that says so, without a review | `OfferedIsSound` (`selfPublished`) |
| `custom-products.service.ts:806`, `pages.service.ts:77`, `products.service.ts:677` | translations and parts are deleted and created again outside a transaction | `OfferedIsSound`, `SavedAsSent`, `CatalogueIsWhole` |
| `products.service.ts:256` | the editor writes the stock its page was loaded with over sales made since | `StockIsCounted` (`stale`) |
| `cart.service.ts:778`, `orders.service.ts:1616` | overlapping tabs lose or double pieces; a crash between order and emptied cart leaves the cart full | `CartIsWhole` (`raced`) |
| `pages-v2.service.ts:437`, `:483` | header and footer are found or created without the lock the listing templates take | `PagesAreFound` (`raced`) |
| `users.service.ts:137`, `:213` | the administrator's check of an address is exact, so another case of it makes a second account | `AccountsAreSound` (`twice`) |
| `stores.service.ts:238`, `:379` | a save that crosses a type switch keeps a currency only the old type has; orders placed during the sweep keep the old split | `SettingsStand` (`crossed`) |
| `tax-management.service.ts:154`, `shipping.service.ts:280` | two first classes at once make two defaults; two default profiles chosen at once, none or two | `SettingsStand` (`clash`) |
| `payments.service.ts:438` | a sync that crosses a change of the account, or one of two connects at once, writes flags that are not those of the account the party has | `FlagsDescribeAccount` (`crossed`) |
| `mail.service.ts:374` | a server that takes a message and answers too late counts as failed, and the platform's sender sends a second copy | `MailArrives` (`late`) |
| `mail.service.ts:1637` | a test that ends after the password was changed marks the new one as verified | `MailArrives` (`doubt`) |
| `orders.service.ts:2197` | two writers of one status each compare with the status they read, so the customer may be told twice or not at all | `MovesAreTold` (`met`) |
| `backups.service.ts:221` | `isBusy` and the insert are separate awaits: two backups overlap | `NeverWedged` holds all the same |

Three assumptions of `pricing` are about data that the code lets in. A variant's
`price_adjustment` may be negative (`variants/dto/variant.dto.ts:20` has no
`@Min`): the instance has none that outweighs its price. The slug of an own product
is not compared with those of custom products (only
`custom-products.service.ts:203` compares, the other way round): slugs in the
instance differ. A SINGLE `final_price` of 0 counts as absent in the cart's check of
an offer and as 0 in the order: the instance has none.

## 6. Not modelled

Commission reports, lists, searches and details: reads that decide nothing.
Mail: the wording and layout of the messages, the templates and their texts
(`Translated` has their rows), the timing of SMTP. Uploads: file I/O. CORS, guards, crypto: stateless.
Within the modelled parts: custom field values and order numbers in `Checkout`;
the purge of sessions long expired in `KustomSession`; checks of ownership
wherever failing one changes nothing; onboarding links and dashboards of Stripe;
the settings form, the uploads archive, several processes, and the arithmetic of
slots in `Backups`; the refresh rotation of sessions in `Accounts`; texts, images
and looks in the shop and the site.

## 7. Plan

1. Proofs: `PagesAreKept` of `Site`; `KustomAccepts` for a store whose rates do not
   stack; the rest of `ShownIsCharged` under the data it needs.
2. A run for custom products in `Checkout`, with the units the write-off adds
   counted apart.
3. The refresh rotation of sessions, and the order of the mails of one order.
