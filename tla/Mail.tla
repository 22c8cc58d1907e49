---------------------------------- MODULE Mail ----------------------------------
(***************************************************************************)
(* The mails of a store (mail.service.ts): which are sent when an order is *)
(* paid, moved or refunded (orders.service.ts, payments.service.ts), how   *)
(* one goes out by the store's own sender and then by the platform's, what *)
(* the delivery log keeps of it, and the settings and tests of both        *)
(* senders.  A server accepts a message, refuses it, or takes it and       *)
(* answers too late.  The timeline, commission and stock of the order are  *)
(* in Fulfilment and OrderPayment; the text of a mail is left out.         *)
(***************************************************************************)
EXTENDS Requests, Sequences, FiniteSets

CONSTANTS
  Hosts, Passwords,   \* of a store's SMTP account; 0 is none
  Rank,               \* order status -> its place on the way to delivery, 0 off it
  MaxFaults           \* bound: late answers, refusals, lost log rows, deaths

ASSUME RankOK == Rank \in [DOMAIN Rank -> Int] /\ DOMAIN Rank \subseteq STRING /\ "paid" \notin DOMAIN Rank
ASSUME MaxFaultsNat == MaxFaults \in Nat

VARIABLES
  type,       \* the store's type
  own,        \* its mail settings
  platform,   \* an SMTP host in the database, one in the environment
  sold,       \* status and payment of one order
  box,        \* copies delivered, <<message, sender>>
  log,        \* rows of the delivery log
  \* history
  faults,
  asked,      \* messages handed to the service: <<request, event>>
  moved,      \* <<request, where it moved the order>>
  met,        \* requests that read the order while another was about to write it
  late,       \* copies that went out and count as failed: the answer was late, or not recorded
  unlogged,   \* messages with a row that could not be written
  cut,        \* requests that died
  old,        \* requests of more than EMAIL_LOG_RETENTION_MS ago
  plain,      \* requests that have only seen the store as a marketplace store
  tested,     \* <<host, password>> with which a test went out
  doubt       \* verified was set for a password that is no longer the stored one

orders   == <<sold, moved, met>>
settings == <<type, own, platform, plain, tested, doubt>>
mails    == <<box, log, asked, late, unlogged, old>>
limits   == <<faults, cut>>
varsM    == <<orders, settings, mails, limits>>

Statuses == DOMAIN Rank
Terminal == {"CANCELLED", "REFUNDED", "RETURNED"} \cap Statuses
NoSender == [host |-> 0, pass |-> 0, on |-> FALSE, verified |-> FALSE]
-----------------------------------------------------------------------------
(* Messages.  One with own may leave by the store's sender. *)

Message(event, fromStore) == [event |-> event, own |-> fromStore]
OrderConfirmation == Message("order_confirmation", TRUE)
OrderShipped      == Message("order_shipped", TRUE)
OrderDelivered    == Message("order_delivered", TRUE)
OrderCancelled    == Message("order_cancelled", TRUE)
OrderRefunded     == Message("order_refunded", TRUE)
NewOrderToOwner   == Message("new_order_owner", TRUE)
PasswordReset     == Message("password_reset", FALSE)
Welcome           == Message("welcome", FALSE)
TemplateTest(fromStore) == Message("template_test", fromStore)

\* The message of a status, if it has one.
StatusMail(to) ==
  CASE to = "SHIPPED"   -> <<OrderShipped>>
    [] to = "DELIVERED" -> <<OrderDelivered>>
    [] to = "CANCELLED" -> <<OrderCancelled>>
    [] to = "REFUNDED"  -> <<OrderRefunded>>
    [] OTHER            -> <<>>
StatusMails(from, to) == IF from = to THEN <<>> ELSE StatusMail(to)

NoRow == [status |-> "none"]
\* A handler goes on to its mails, or is over.
Mails(r, ms) ==
  IF ms = <<>> THEN Ends(r) ELSE Start(r, [op |-> "mail", at |-> "resolve", mails |-> ms, row |-> NoRow])
-----------------------------------------------------------------------------
(* What orders and accounts send *)

Writers == {"pays", "sets", "refunds"}
\* The handler has read the order and will write it.
Reads(r, q) ==
  LET others == {o \in InFlight : req[o].op \in Writers} IN
  /\ Start(r, q)
  /\ met' = IF others = {} THEN met ELSE met \cup others \cup {r}
Arrived(r) == plain' = IF type = "MARKETPLACE" THEN plain \cup {r} ELSE plain

OrderRequest(r) == Arrives(r) /\ Arrived(r)
  /\ UNCHANGED <<sold, moved, type, own, platform, tested, doubt, limits, mails>>
Confirms(r) ==
  /\ OrderRequest(r)
  /\ IF sold.payment = "paid" THEN Ends(r) /\ UNCHANGED met
     ELSE Reads(r, [op |-> "pays", at |-> "flip", saw |-> sold.status])
PaysOff(r) ==
  /\ At(r, "pays", "flip")
  /\ IF sold.payment # "paid"
     THEN LET to == IF req[r].saw = "PENDING" THEN "CONFIRMED" ELSE req[r].saw IN
          /\ sold' = [payment |-> "paid", status |-> to]
          /\ moved' = moved \cup {<<r, "paid">>} \cup (IF to # sold.status THEN {<<r, to>>} ELSE {})
          /\ Mails(r, <<OrderConfirmation, NewOrderToOwner>>)
     ELSE Ends(r) /\ UNCHANGED <<sold, moved>>
  /\ UNCHANGED <<met, settings, mails, limits>>

AdminSets(r, to) ==
  /\ OrderRequest(r)
  /\ Reads(r, [op |-> "sets", at |-> "write", saw |-> sold.status, to |-> to])
\* The slowest of its lines takes the order on, never back.
Advances(r, to) ==
  /\ OrderRequest(r)
  /\ IF sold.status \notin Terminal /\ Rank[to] > Rank[sold.status]
     THEN Reads(r, [op |-> "sets", at |-> "write", saw |-> sold.status, to |-> to])
     ELSE Ends(r) /\ UNCHANGED met
Moves(r, to) ==
  /\ sold' = [sold EXCEPT !.status = to]
  /\ moved' = IF to # sold.status THEN moved \cup {<<r, to>>} ELSE moved
MovesOrder(r) ==
  LET q == req[r] IN
  /\ At(r, "sets", "write")
  /\ Moves(r, q.to)
  /\ Mails(r, StatusMails(q.saw, q.to))
  /\ UNCHANGED <<met, settings, mails, limits>>

Refunds(r) ==
  /\ OrderRequest(r)
  /\ IF sold.payment = "refunded" THEN Ends(r) /\ UNCHANGED met
     ELSE Reads(r, [op |-> "refunds", at |-> "flip", saw |-> sold.status])
\* MUTANT: the mail is sent whoever refunded the order.
RefundMailsAlways(saw) == <<OrderRefunded>>

RefundMails(saw) == IF saw = "REFUNDED" THEN <<>> ELSE <<OrderRefunded>>
RefundFlips(r) ==
  /\ At(r, "refunds", "flip")
  /\ IF sold.payment # "refunded"
     THEN /\ sold' = [payment |-> "refunded", status |-> "REFUNDED"]
          /\ moved' = IF sold.status # "REFUNDED" THEN moved \cup {<<r, "REFUNDED">>} ELSE moved
          /\ Mails(r, RefundMails(req[r].saw))
     ELSE Ends(r) /\ UNCHANGED <<sold, moved>>
  /\ UNCHANGED <<met, settings, mails, limits>>

\* A reset link, a welcome, or the test of a template, the store's or the platform's.
Writes(r, m) ==
  /\ Arrives(r) /\ Arrived(r)
  /\ IF m = TemplateTest(TRUE) /\ type # "INDEPENDENT" THEN Ends(r) ELSE Mails(r, <<m>>)
  /\ UNCHANGED <<orders, type, own, platform, tested, doubt, mails, limits>>
-----------------------------------------------------------------------------
(* One message: the store's sender, the platform's, the log *)

HasSender      == type = "INDEPENDENT" /\ own.on /\ own.host # 0
PlatformSender == platform.db \/ platform.env
Id(r) == <<r, IF req[r].op = "test" THEN "test" ELSE Head(req[r].mails).event>>

Resolves(r) ==
  /\ At(r, "mail", "resolve")
  /\ GoesTo(r, IF Head(req[r].mails).own /\ HasSender THEN "store" ELSE "platform")
  /\ asked' = asked \cup {Id(r)}
  /\ UNCHANGED <<orders, settings, box, log, late, unlogged, old, limits>>

Spends(n) == faults + n <= MaxFaults /\ faults' = faults + n
\* The server answers: accepted, refused, or too late.
Answers(m, via, answer) ==
  /\ Spends(IF answer = "accepted" THEN 0 ELSE 1)
  /\ box'  = IF answer = "refused" THEN box ELSE box \cup {<<m, via>>}
  /\ late' = IF answer = "late" THEN late \cup {<<m, via>>} ELSE late
Outcome(answer) == IF answer = "accepted" THEN "SENT" ELSE "FAILED"
ToLog(q, m, status, via) == [q EXCEPT !.at = "log", !.row = [m |-> m, status |-> status, via |-> via]]

TrySend(r, via) ==
  /\ \E answer \in {"accepted", "refused", "late"} :
       /\ Answers(Id(r), via, answer)
       /\ Start(r, ToLog(req[r], Id(r), Outcome(answer), via))
  /\ UNCHANGED <<orders, settings, log, asked, unlogged, old, cut>>
SendsByStore(r) == At(r, "mail", "store") /\ TrySend(r, "store")
SendsByPlatform(r) ==
  /\ At(r, "mail", "platform")
  /\ IF PlatformSender THEN TrySend(r, "platform")
     ELSE /\ Start(r, ToLog(req[r], Id(r), "SKIPPED", "none"))
          /\ UNCHANGED <<orders, settings, mails, limits>>

\* MUTANT: a message the store's sender fails to send is given up.
FallsBackNever(q) == FALSE

\* The store's sender failed: the platform's takes the message over.
FallsBack(q) == q.op = "mail" /\ q.row.status = "FAILED" /\ q.row.via = "store"
AfterLog(r, q) ==
  IF FallsBack(q) THEN Start(r, [q EXCEPT !.at = "platform", !.row = NoRow])
  ELSE IF q.op = "test" THEN Ends(r) ELSE Mails(r, Tail(q.mails))
\* Once an hour a row that is written takes the old ones away.
Kept(rows) == {row \in rows : row.m[1] \notin old}
LogDelivery(r) ==
  LET q == req[r] IN
  /\ r \in InFlight /\ q.at = "log"
  /\ \/ \E due \in BOOLEAN : log' = (IF due THEN Kept(log) ELSE log) \cup {q.row}
        /\ UNCHANGED <<unlogged, faults>>
     \/ Spends(1) /\ unlogged' = unlogged \cup {q.row.m} /\ UNCHANGED log
  /\ AfterLog(r, q)
  /\ UNCHANGED <<orders, settings, box, asked, late, old, cut>>
-----------------------------------------------------------------------------
(* Settings and tests *)

Asks(r) == Arrives(r) /\ Arrived(r)
  /\ UNCHANGED <<orders, type, tested, doubt, limits, box, log, late, unlogged, old>>

\* A password of 0 keeps the stored one.
SavesSender(r, host, pass, on) ==
  /\ Asks(r) /\ UNCHANGED <<own, platform, asked>>
  /\ IF type = "INDEPENDENT"
     THEN Start(r, [op |-> "save", at |-> "upsert", host |-> host, pass |-> pass, on |-> on])
     ELSE Ends(r)
Updated(row, q) ==
  [row EXCEPT !.host = q.host, !.on = q.on,
              !.pass = IF q.pass = 0 THEN @ ELSE q.pass,
              !.verified = IF q.pass = 0 THEN @ ELSE FALSE]
StoresSender(r) ==
  /\ At(r, "save", "upsert") /\ Ends(r)
  /\ own' = Updated(own, req[r])
  /\ doubt' = IF own'.verified THEN doubt ELSE FALSE
  /\ UNCHANGED <<orders, type, platform, plain, tested, mails, limits>>
SavesPlatform(r, db) ==
  /\ Asks(r) /\ Ends(r) /\ UNCHANGED asked
  /\ platform' = [platform EXCEPT !.db = db] /\ UNCHANGED own

Tests(r, via, host, pass) ==
  /\ Start(r, [op |-> "test", at |-> "send", via |-> via, host |-> host, pass |-> pass, row |-> NoRow])
  /\ asked' = asked \cup {<<r, "test">>}
TestsSender(r) ==
  /\ Asks(r) /\ UNCHANGED <<own, platform>>
  /\ IF HasSender THEN Tests(r, "store", own.host, own.pass) ELSE Ends(r) /\ UNCHANGED asked
TestsPlatform(r) ==
  /\ Asks(r) /\ UNCHANGED <<own, platform>>
  /\ IF PlatformSender THEN Tests(r, "platform", 0, 0) ELSE Ends(r) /\ UNCHANGED asked
SendsTest(r) ==
  LET q == req[r] IN
  /\ At(r, "test", "send")
  /\ \E answer \in {"accepted", "refused", "late"} :
       /\ Answers(Id(r), q.via, answer)
       /\ IF q.via = "store" /\ answer = "accepted"
          THEN GoesTo(r, "verify") /\ tested' = tested \cup {<<q.host, q.pass>>}
          ELSE Start(r, ToLog(q, Id(r), Outcome(answer), q.via)) /\ UNCHANGED tested
  /\ UNCHANGED <<orders, type, own, platform, plain, doubt, log, asked, unlogged, old, cut>>
Verifies(r) ==
  LET q == req[r] IN
  /\ At(r, "test", "verify")
  /\ own' = [own EXCEPT !.verified = TRUE]
  /\ doubt' = (own.pass # q.pass)
  /\ Start(r, ToLog(q, Id(r), "SENT", q.via))
  /\ UNCHANGED <<orders, type, platform, plain, tested, mails, limits>>
\* The mail went out, the settings cannot be written: it is logged as failed.
VerifyThrows(r) ==
  /\ At(r, "test", "verify") /\ Spends(1)
  /\ late' = late \cup {<<Id(r), "store">>}
  /\ Start(r, ToLog(req[r], Id(r), "FAILED", "store"))
  /\ UNCHANGED <<orders, settings, box, log, asked, unlogged, old, cut>>

\* An administrator switches the type.
SwitchesType ==
  /\ type' = IF type = "INDEPENDENT" THEN "MARKETPLACE" ELSE "INDEPENDENT"
  /\ plain' = IF type' = "INDEPENDENT" THEN plain \ InFlight ELSE plain
  /\ UNCHANGED <<req, orders, own, platform, tested, doubt, mails, limits>>
\* The process dies or a statement throws, as a transfer Stripe refuses does
\* between the payment and its mails.
Dies(r) ==
  /\ r \in InFlight /\ Ends(r) /\ Spends(1)
  /\ cut' = cut \cup {r}
  /\ UNCHANGED <<orders, settings, mails>>
\* Months pass.
Ages ==
  /\ InFlight = {} /\ old = {} /\ log # {}
  /\ old' = {r \in Requests : req[r] = Over}
  /\ UNCHANGED <<req, orders, settings, limits, box, log, asked, late, unlogged>>
-----------------------------------------------------------------------------
Goes(r) ==
  \/ PaysOff(r) \/ MovesOrder(r) \/ RefundFlips(r)
  \/ Resolves(r) \/ SendsByStore(r) \/ SendsByPlatform(r) \/ LogDelivery(r)
  \/ StoresSender(r) \/ SendsTest(r) \/ Verifies(r) \/ VerifyThrows(r) \/ Dies(r)
AsksOrder(r, to) ==
  Confirms(r) \/ Refunds(r) \/ AdminSets(r, to) \/ (Rank[to] > 1 /\ Advances(r, to))
AsksMail(r) ==
  \/ \E m \in {PasswordReset, Welcome, TemplateTest(TRUE), TemplateTest(FALSE)} : Writes(r, m)
  \/ TestsSender(r) \/ TestsPlatform(r)
  \/ \E db \in BOOLEAN : SavesPlatform(r, db)
  \/ \E host \in Hosts, pass \in Passwords \cup {0}, on \in BOOLEAN : SavesSender(r, host, pass, on)

\* A store whose sender, if shown as verified, was tested; an order on its way.
Senders == [host : Hosts \cup {0}, pass : Passwords \cup {0}, on : BOOLEAN, verified : BOOLEAN]
MailInit ==
  /\ type \in {"INDEPENDENT", "MARKETPLACE"}
  /\ own \in Senders /\ platform \in [db : BOOLEAN, env : BOOLEAN]
  /\ tested = IF own.verified THEN {<<own.host, own.pass>>} ELSE {}
  /\ own.verified => own.host \in Hosts
  /\ sold \in [status : Statuses, payment : {"unpaid", "paid", "refunded"}]
  /\ box = {} /\ log = {} /\ asked = {} /\ late = {} /\ unlogged = {} /\ old = {}
  /\ moved = {} /\ met = {} /\ cut = {} /\ plain = {} /\ doubt = FALSE /\ faults = 0
MailNext ==
  \/ \E r \in Requests : Goes(r) \/ AsksMail(r) \/ \E to \in Statuses : AsksOrder(r, to)
  \/ SwitchesType \/ Ages
MailSpec == NoRequests /\ MailInit /\ [][MailNext]_<<req, varsM>>
-----------------------------------------------------------------------------
(* Properties *)

Ended(r) == req[r] = Over /\ r \notin cut
Logged(m) == m \notin unlogged /\ m[1] \notin old
Rows(m) == {row \in log : row.m = m}
ByStore(m) == <<m, "store">> \in box
ByPlatform(m) == <<m, "platform">> \in box

\* A message arrives, and once: a sender that fails costs nobody the mail, the
\* platform's takes over; only an answer that came too late makes a second copy.
\* What does not arrive says so in the log, as refused by the platform's
\* sender, or by the sender under test, or for want of one
\* (mail.service.ts:361, 374, 422).
ArrivesOnce ==
  \A m \in asked :
    /\ ByStore(m) /\ ByPlatform(m) => <<m, "store">> \in late
    /\ Ended(m[1]) /\ Logged(m) /\ ~ByStore(m) /\ ~ByPlatform(m) =>
         \E row \in Rows(m) : row.status # "SENT" /\ (row.via # "store" \/ m[2] = "test")

\* The log says of every attempt what became of it, until it is old: a row of a
\* copy that was accepted, none of a copy nobody took, and no row of the last
\* months is taken away with the old ones (mail.service.ts:438).
LogIsTrue ==
  /\ \A row \in log :
       LET copy == <<row.m, row.via>> IN (copy \in box) = (row.status = "SENT" \/ copy \in late)
  /\ \A copy \in box :
       Ended(copy[1][1]) /\ Logged(copy[1]) => \E row \in Rows(copy[1]) : row.via = copy[2]

\* A request that met the store as a marketplace store only sends nothing under
\* the store's own address, whatever settings it has kept
\* (mail.service.ts:203, 215).
MarketplaceUsesPlatform == \A r \in plain : \A m \in asked : m[1] = r => ~ByStore(m)

\* The customer and the owner hear of a payment from the request that settled
\* it and no other, and the customer of each step to SHIPPED, DELIVERED,
\* CANCELLED or REFUNDED once, whichever of administrator, fulfiller and
\* provider takes it, unless two of them held the order at a time
\* (orders.service.ts:2197, 2609, payments.service.ts:1063).
MovesAreTold ==
  \A r \in Requests : Ended(r) =>
    /\ (<<r, "paid">> \in moved) = (<<r, OrderConfirmation.event>> \in asked)
    /\ (<<r, "paid">> \in moved) = (<<r, NewOrderToOwner.event>> \in asked)
    /\ r \notin met => \A s \in Statuses : StatusMail(s) # <<>> =>
         (<<r, s>> \in moved) = (<<r, Head(StatusMail(s)).event>> \in asked)

\* A sender shown as verified has the password a test went out with, unless
\* the password changed while the test ran (mail.service.ts:1599, 1637).
VerifiedPassword == own.verified /\ ~doubt => \E host \in Hosts : <<host, own.pass>> \in tested

\* What is handed to the service goes out as it should, by a sender that is what
\* it is shown to be, and the log shows it.
MailArrives == ArrivesOnce /\ LogIsTrue /\ MarketplaceUsesPlatform /\ VerifiedPassword

\* A sender shown as verified is one a test went out with
\* (schema.prisma:1063: so a creator can tell a saved config from a working one).
VerifiedWorks == own.verified => <<own.host, own.pass>> \in tested
=============================================================================
