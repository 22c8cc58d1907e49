-------------------------------- MODULE Payouts --------------------------------
(***************************************************************************)
(* Stripe: connected accounts, charges and payouts                         *)
(* (src/src/modules/payments/payments.service.ts).                         *)
(*                                                                         *)
(* Creators and providers connect an account; a card order is charged      *)
(* either on the platform, which then transfers each recipient's share, or *)
(* directly on the account of an independent store's creator.  Webhooks,   *)
(* the customer's own confirmation and the administrator's "verify" settle *)
(* the same order, concurrently and more than once; accounts are replaced  *)
(* and disconnected meanwhile; any request may be cut short.  One call to  *)
(* Stripe or one database statement is one step.                           *)
(*                                                                         *)
(* How much each recipient gets is in Pricing, what a failed or refunded   *)
(* payment does to the order in OrderPayment.                              *)
(***************************************************************************)
EXTENDS Integers, FiniteSets

CONSTANTS
  None,
  Providers,    \* providers whose goods may be in the order
  Creator,      \* the creator of the store
  Accounts,     \* ids Stripe gives to new connected accounts
  Intents,      \* ids Stripe gives to new PaymentIntents
  Workers,      \* requests in flight at the same time
  MaxRequests,  \* bound: requests other than deliveries of a payment
  MaxFaults     \* bound: requests cut short, calls answered by an error

ASSUME CreatorIsNoProvider == Creator \notin Providers
ASSUME BoundsNat == MaxRequests \in Nat /\ MaxFaults \in Nat

Parties == Providers \cup {Creator}
Kinds   == {"express", "standard"}

\* The rows, the objects at Stripe, and whom a request has still to pay.
PartyRows == [account : Accounts \cup {None}, kind : Kinds \cup {None}, enabled : BOOLEAN]
Ledgers   == [status : {"paid", "failed"}, account : Accounts]
Connected == [kind : Kinds, enabled : BOOLEAN]
Payments  == [account : Accounts \cup {None}, open : BOOLEAN, charged : BOOLEAN]
Transfers == [for : Parties, to : Accounts, from : Intents \cup {None}]
Payees    == [who : Parties, account : Accounts]

ASSUME NoneIsNothing ==
  /\ None \notin Parties /\ None \notin Accounts /\ None \notin Intents
  /\ None \notin Ledgers /\ None \notin Connected /\ None \notin Payments

VARIABLES
  independent,  \* Store.store_type = INDEPENDENT
  fulfillers,   \* who fulfils the lines of the order
  party,        \* Creator and Provider rows: account, its type, enabled flags
  order,        \* Order: paid, stripe_payment_id, _account_id, _charge_id
  ledger,       \* OrderPayout rows
  stripe,       \* external: the connected accounts
  intents,      \* external: the PaymentIntents, where and whether charged
  settled,      \* external: charges whose balance transaction is ready
  transfers,    \* external: idempotency key -> the transfer made for it
  task,         \* the requests in flight
  requests, faults,  \* counters of the two bounds
  lost,         \* history: changed account with a transfer not in the ledger
  crossed,      \* history: flags written for an account replaced meanwhile, or
                \* an account saved over one that was connected meanwhile
  overlapped    \* history: an intent recorded while a payment was recognised

external == <<stripe, intents, settled, transfers>>
rows     == <<independent, fulfillers, party, order, ledger>>
history  == <<lost, crossed, overlapped>>
vars     == <<independent, fulfillers, party, order, ledger, stripe, intents,
              settled, transfers, task, requests, faults, lost, crossed,
              overlapped>>

Idle == [pc |-> "idle", who |-> None, account |-> None, kind |-> None,
         intent |-> None, enabled |-> FALSE, rethrow |-> FALSE, todo |-> {}]

Steps == {"idle", "save", "reset", "sync", "create", "record", "mark",
          "capture", "transfers", "recipients", "creator", "transfer",
          "paid", "failed"}

Tasks == [pc : Steps, who : Parties \cup {None}, account : Accounts \cup {None},
          kind : Kinds \cup {None}, intent : Intents \cup {None}, enabled : BOOLEAN,
          rethrow : BOOLEAN, todo : SUBSET Payees]

Charges == {i \in Intents : intents[i] # None /\ intents[i].charged}

TypeOK ==
  /\ independent \in BOOLEAN
  /\ fulfillers \in SUBSET Parties
  /\ party \in [Parties -> PartyRows]
  /\ order \in [paid : BOOLEAN, intent : Intents \cup {None},
                account : Accounts \cup {None}, charge : Intents \cup {None}]
  /\ ledger \in [Parties -> Ledgers \cup {None}]
  /\ stripe \in [Accounts -> Connected \cup {None}]
  /\ intents \in [Intents -> Payments \cup {None}]
  /\ settled \subseteq Intents
  /\ transfers \in [DOMAIN transfers -> Transfers]
  /\ task \in [Workers -> Tasks]
  /\ requests \in 0..MaxRequests /\ faults \in 0..MaxFaults
  /\ lost \in SUBSET Parties /\ crossed \in BOOLEAN /\ overlapped \in BOOLEAN

\* Everyone has an enabled account of the kind the store asks for.
Init ==
  /\ \/ independent = FALSE /\ fulfillers \in {{Creator}, Parties}
     \/ independent = TRUE /\ fulfillers = {Creator}
  /\ \E first \in [Parties -> Accounts] :
       /\ \A p, q \in Parties : p # q => first[p] # first[q]
       /\ LET kindOf(p) == IF independent /\ p = Creator THEN "standard" ELSE "express"
              owner(a) == {p \in Parties : first[p] = a}
          IN  /\ party = [p \in Parties |->
                   [account |-> first[p], kind |-> kindOf(p), enabled |-> TRUE]]
              /\ stripe = [a \in Accounts |-> IF owner(a) = {} THEN None
                   ELSE [kind |-> kindOf(CHOOSE p \in owner(a) : TRUE), enabled |-> TRUE]]
  /\ order = [paid |-> FALSE, intent |-> None, account |-> None, charge |-> None]
  /\ ledger = [p \in Parties |-> None]
  /\ intents = [i \in Intents |-> None]
  /\ settled = {} /\ transfers = <<>>
  /\ task = [w \in Workers |-> Idle]
  /\ requests = 0 /\ faults = 0
  /\ lost = {} /\ crossed = FALSE /\ overlapped = FALSE

-------------------------------------------------------------------------------
(* Requests.                                                                 *)

Counted == requests < MaxRequests /\ requests' = requests + 1
Fault   == faults < MaxFaults /\ faults' = faults + 1

Free(w) == task[w].pc = "idle"
At(w, pc) == task[w].pc = pc
Go(w, t) == task' = [task EXCEPT ![w] = t]
Done(w) == Go(w, Idle)

\* An administrator changes the type of the store.
FlipStore ==
  /\ Counted
  /\ independent' = ~independent
  /\ UNCHANGED <<fulfillers, party, order, ledger, external, task, faults, history>>

-------------------------------------------------------------------------------
(* Connected accounts.                                                       *)

WantedKind(p) == IF p = Creator /\ independent THEN "standard" ELSE "express"
Mismatched(p) == p = Creator /\ party[p].kind # WantedKind(p)

\* Payouts to p under way, or made and not (or no longer) recorded as paid.
InFlight(p) == \E w \in Workers :
  \/ task[w].pc \in {"transfer", "paid", "failed"} /\ task[w].who = p
  \/ \E r \in task[w].todo : r.who = p
Unrecorded(p) ==
  /\ \E k \in DOMAIN transfers : transfers[k].for = p
  /\ ledger[p] = None \/ ledger[p].status # "paid"
MayBeLost(p) == IF InFlight(p) \/ Unrecorded(p) THEN lost \cup {p} ELSE lost

\* getOrCreateConnectedAccount: the account at Stripe, when none fits.
Connect(w, p) ==
  /\ Free(w) /\ Counted
  /\ party[p].account = None \/ Mismatched(p)
  /\ \E a \in Accounts :
       /\ stripe[a] = None
       /\ stripe' = [stripe EXCEPT ![a] = [kind |-> WantedKind(p), enabled |-> FALSE]]
       /\ Go(w, [Idle EXCEPT !.pc = "save", !.who = p, !.account = a,
                             !.kind = WantedKind(p),
                             !.enabled = party[p].account # None])
  /\ UNCHANGED <<rows, intents, settled, transfers, faults, history>>

\* The request found no account to replace, and there is one now.
Overtaken(w) == ~task[w].enabled /\ party[task[w].who].account # None

\* MUTANT: the flags of the old account are kept.
SaveAccountNoReset(w) ==
  /\ At(w, "save")
  /\ LET p == task[w].who
     IN  /\ party' = [party EXCEPT ![p].account = task[w].account,
                                   ![p].kind = task[w].kind]
         /\ lost' = MayBeLost(p)
         /\ crossed' = (crossed \/ Overtaken(w))
         /\ Done(w)
  /\ UNCHANGED <<independent, fulfillers, order, ledger, external, requests,
                 faults, overlapped>>

\* saveAccountId; the flags are reset by a statement of its own, and only when
\* an account was replaced.
SaveAccount(w) ==
  /\ At(w, "save")
  /\ LET p == task[w].who
     IN  /\ party' = [party EXCEPT ![p].account = task[w].account,
                                   ![p].kind = task[w].kind]
         /\ lost' = MayBeLost(p)
         /\ crossed' = (crossed \/ Overtaken(w))
         /\ IF task[w].enabled THEN Go(w, [task[w] EXCEPT !.pc = "reset"]) ELSE Done(w)
  /\ UNCHANGED <<independent, fulfillers, order, ledger, external, requests,
                 faults, overlapped>>

ResetFlags(w) ==
  /\ At(w, "reset")
  /\ party' = [party EXCEPT ![task[w].who].enabled = FALSE]
  /\ Done(w)
  /\ UNCHANGED <<independent, fulfillers, order, ledger, external, requests,
                 faults, history>>

\* disconnectConnectedAccount.
Disconnect(p) ==
  /\ Counted
  /\ party[p].account # None
  /\ party' = [party EXCEPT ![p] = [account |-> None, enabled |-> FALSE,
                 kind |-> IF p = Creator THEN None ELSE @.kind]]
  /\ lost' = MayBeLost(p)
  /\ UNCHANGED <<independent, fulfillers, order, ledger, external, task, faults,
                 crossed, overlapped>>

\* account.updated, or getConnectStatus reading the account live: the party is
\* looked up by account.  An event may carry the state before the onboarding.
SyncRead(w, p) ==
  /\ Free(w) /\ Counted
  /\ party[p].account # None
  /\ \E now \in {stripe[party[p].account].enabled, FALSE} :
       Go(w, [Idle EXCEPT !.pc = "sync", !.who = p, !.enabled = now,
                          !.account = party[p].account])
  /\ UNCHANGED <<rows, external, faults, history>>

\* ... and updated by its own id.
SyncWrite(w) ==
  /\ At(w, "sync")
  /\ party' = [party EXCEPT ![task[w].who].enabled = task[w].enabled]
  /\ crossed' = (crossed \/ party[task[w].who].account # task[w].account)
  /\ Done(w)
  /\ UNCHANGED <<independent, fulfillers, order, ledger, external, requests,
                 faults, lost, overlapped>>

\* The owner of the account finishes Stripe's onboarding (external).
Onboard(a) ==
  /\ stripe[a] # None /\ ~stripe[a].enabled
  /\ stripe' = [stripe EXCEPT ![a].enabled = TRUE]
  /\ UNCHANGED <<rows, intents, settled, transfers, task, requests, faults, history>>

-------------------------------------------------------------------------------
(* Charging.                                                                 *)

\* A direct charge needs the creator's own enabled standard account.
DirectReady ==
  /\ fulfillers \subseteq {Creator}
  /\ party[Creator].account # None /\ party[Creator].enabled
  /\ party[Creator].kind = "standard"

\* assertRecipientsOnboarded: all who will be paid can receive transfers.
RecipientsReady ==
  /\ party[Creator].kind # "standard"
  /\ \A p \in fulfillers \cup {Creator} : party[p].account # None /\ party[p].enabled

\* createPaymentIntentForOrder up to Stripe's answer.
CreateIntent(w) ==
  /\ Free(w) /\ Counted
  /\ ~order.paid
  /\ IF independent THEN DirectReady ELSE RecipientsReady
  /\ \E i \in Intents :
       /\ intents[i] = None
       /\ LET account == IF independent THEN party[Creator].account ELSE None
          IN  /\ intents' = [intents EXCEPT ![i] =
                   [account |-> account, open |-> FALSE, charged |-> FALSE]]
              /\ Go(w, [Idle EXCEPT !.pc = "record", !.intent = i,
                                    !.account = account])
  /\ UNCHANGED <<rows, stripe, settled, transfers, faults, history>>

\* A payment of the order that is being, or has been, recognised.
Recognising == order.paid \/ \E w \in Workers : task[w].pc = "mark"

\* The order is pointed at the new intent; only then the page can confirm it.
RecordIntent(w) ==
  /\ At(w, "record")
  /\ order' = [order EXCEPT !.intent = task[w].intent, !.account = task[w].account]
  /\ intents' = [intents EXCEPT ![task[w].intent].open = TRUE]
  /\ overlapped' = (overlapped \/ Recognising)
  /\ Done(w)
  /\ UNCHANGED <<independent, fulfillers, party, ledger, stripe, settled,
                 transfers, requests, faults, lost, crossed>>

\* The customer confirms one of the intents open in a tab (external).
Charge(i) ==
  /\ intents[i] # None /\ intents[i].open /\ ~intents[i].charged
  /\ intents' = [intents EXCEPT ![i].charged = TRUE]
  /\ UNCHANGED <<rows, stripe, settled, transfers, task, requests, faults, history>>

\* The balance transaction of a charge becomes ready (external).
Settle(i) ==
  /\ i \in Charges \ settled
  /\ settled' = settled \cup {i}
  /\ UNCHANGED <<rows, stripe, intents, transfers, task, requests, faults, history>>

-------------------------------------------------------------------------------
(* Recognising a payment.                                                    *)

\* The intent is read live on the account the order names; on another account
\* it is not found, the webhook throws and is delivered again.
Readable(i) == i \in Charges /\ intents[i].account = order.account

\* onPaymentSucceeded for the webhook of an intent.
Deliver(w, i) ==
  /\ Free(w) /\ Readable(i)
  /\ Go(w, [Idle EXCEPT !.pc = "mark", !.intent = i, !.rethrow = TRUE])
  /\ UNCHANGED <<rows, external, requests, faults, history>>

\* reconcilePayment for the customer or the administrator: a paid order has its
\* payouts attempted again, another one its intent read.
Reconcile(w) ==
  /\ Free(w) /\ Counted
  /\ \/ order.paid /\ Go(w, [Idle EXCEPT !.pc = "transfers"])
     \/ /\ ~order.paid /\ order.intent # None /\ Readable(order.intent)
        /\ Go(w, [Idle EXCEPT !.pc = "mark", !.intent = order.intent])
  /\ UNCHANGED <<rows, external, faults, history>>

\* MUTANT: stripe_payment_id is left as the last tab wrote it.
MarkPaidKeepsIntent(w) ==
  /\ At(w, "mark")
  /\ order' = [order EXCEPT !.paid = TRUE]
  /\ Go(w, [task[w] EXCEPT !.pc = "capture"])
  /\ UNCHANGED <<independent, fulfillers, party, ledger, external, requests,
                 faults, history>>

\* markOrderPaid: the first to flip the row also names the intent that paid.
MarkPaid(w) ==
  /\ At(w, "mark")
  /\ order' = IF order.paid THEN order
              ELSE [order EXCEPT !.paid = TRUE, !.intent = task[w].intent]
  /\ Go(w, [task[w] EXCEPT !.pc = "capture"])
  /\ UNCHANGED <<independent, fulfillers, party, ledger, external, requests,
                 faults, history>>

\* captureChargeDetails: best effort, on the account the order names now.
Capture(w) ==
  /\ At(w, "capture")
  /\ \/ /\ Readable(task[w].intent)
        /\ order' = [order EXCEPT !.charge = task[w].intent]
        /\ UNCHANGED faults
     \/ UNCHANGED order /\ Fault
     \/ ~Readable(task[w].intent) /\ UNCHANGED <<order, faults>>
  /\ Go(w, [task[w] EXCEPT !.pc = "transfers"])
  /\ UNCHANGED <<independent, fulfillers, party, ledger, external, requests, history>>

-------------------------------------------------------------------------------
(* issueOrderTransfers.                                                      *)

\* The charge to draw on: the captured one, else the latest of the intent.
ChargeOf == IF order.charge # None THEN order.charge ELSE order.intent

Payee(p) == [who |-> p, account |-> party[p].account]

\* Nothing to split for a direct charge; an unsettled charge is deferred, and
\* one that is not the platform's is not found.
BeginTransfers(w) ==
  /\ At(w, "transfers")
  /\ LET i == ChargeOf
     IN IF /\ order.account = None /\ i # None
           /\ i \in settled /\ intents[i].account = None
        THEN Go(w, [task[w] EXCEPT
               !.pc = "recipients", !.intent = i,
               !.todo = {Payee(p) : p \in
                           {q \in fulfillers \cap Providers : party[q].account # None}}])
        ELSE Done(w)
  /\ UNCHANGED <<rows, external, requests, faults, history>>

\* The creator's account is read once the providers are done.
ReadCreator(w) ==
  /\ At(w, "recipients") /\ task[w].todo = {}
  /\ IF party[Creator].account = None THEN Done(w)
     ELSE Go(w, [task[w] EXCEPT !.pc = "creator", !.todo = {Payee(Creator)}])
  /\ UNCHANGED <<rows, external, requests, faults, history>>

\* The creator is the last to be paid.
NextPayee(w) == IF task[w].who = Creator THEN Idle
                ELSE [task[w] EXCEPT !.pc = "recipients"]

\* payout(): the ledger is read first, a paid row ends it.
StartPayout(w) ==
  /\ task[w].pc \in {"recipients", "creator"}
  /\ \E r \in task[w].todo :
       LET t == [task[w] EXCEPT !.who = r.who, !.account = r.account,
                                !.todo = @ \ {r}]
           paid == ledger[r.who] # None /\ ledger[r.who].status = "paid"
       IN Go(w, IF ~paid THEN [t EXCEPT !.pc = "transfer"]
                ELSE IF r.who = Creator THEN Idle
                ELSE [t EXCEPT !.pc = "recipients"])
  /\ UNCHANGED <<rows, external, requests, faults, history>>

\* MUTANT: the key is different at each attempt.
KeyPerAttempt(w) == <<task[w].account, w>>

\* The idempotency key: one order, one destination.
Key(w) == <<task[w].account, None>>

\* Stripe makes a transfer to an enabled account that can receive them, once
\* for a key; the same key with another source is refused.  An error may hide
\* a transfer that was made (external).
Transfer(w) ==
  /\ At(w, "transfer")
  /\ LET k == Key(w)
         fresh == [for |-> task[w].who, to |-> task[w].account,
                   from |-> task[w].intent]
         accepted == IF k \in DOMAIN transfers THEN transfers[k] = fresh
                     ELSE /\ stripe[task[w].account].kind = "express"
                          /\ stripe[task[w].account].enabled
         made == [j \in DOMAIN transfers \cup {k} |->
                    IF j \in DOMAIN transfers THEN transfers[j] ELSE fresh]
     IN \/ /\ accepted
           /\ transfers' = made
           /\ \/ Go(w, [task[w] EXCEPT !.pc = "paid"]) /\ UNCHANGED faults
              \/ Go(w, [task[w] EXCEPT !.pc = "failed"]) /\ Fault
        \/ /\ Go(w, [task[w] EXCEPT !.pc = "failed"])
           /\ UNCHANGED transfers
           /\ \/ Fault
              \/ ~accepted /\ UNCHANGED faults
  /\ UNCHANGED <<rows, stripe, intents, settled, requests, history>>

RecordPaid(w) ==
  /\ At(w, "paid")
  /\ ledger' = [ledger EXCEPT ![task[w].who] =
                  [status |-> "paid", account |-> task[w].account]]
  /\ Go(w, NextPayee(w))
  /\ UNCHANGED <<independent, fulfillers, party, order, external, requests,
                 faults, history>>

\* A failure is written over whatever the row says, its account kept; a webhook
\* stops there, to be delivered again, a reconciliation goes on.
RecordFailed(w) ==
  /\ At(w, "failed")
  /\ LET p == task[w].who
     IN ledger' = [ledger EXCEPT ![p] =
          [status |-> "failed",
           account |-> IF @ = None THEN task[w].account ELSE @.account]]
  /\ Go(w, IF task[w].rethrow THEN Idle ELSE NextPayee(w))
  /\ UNCHANGED <<independent, fulfillers, party, order, external, requests,
                 faults, history>>

\* The process dies, or a statement throws; a replacement cut before its reset
\* leaves the flags of the old account.
Cut(w) ==
  /\ ~Free(w) /\ Fault
  /\ crossed' = (crossed \/ At(w, "reset"))
  /\ Done(w)
  /\ UNCHANGED <<rows, external, requests, lost, overlapped>>

-------------------------------------------------------------------------------
Connecting(w) ==
  \/ \E p \in Parties : Connect(w, p) \/ SyncRead(w, p)
  \/ SaveAccount(w) \/ ResetFlags(w) \/ SyncWrite(w)

Paying(w) ==
  \/ CreateIntent(w) \/ RecordIntent(w)
  \/ \E i \in Intents : Deliver(w, i)
  \/ Reconcile(w) \/ MarkPaid(w) \/ Capture(w)

Splitting(w) ==
  \/ BeginTransfers(w) \/ ReadCreator(w) \/ StartPayout(w) \/ Transfer(w)
  \/ RecordPaid(w) \/ RecordFailed(w)

Next ==
  \/ FlipStore \/ \E p \in Parties : Disconnect(p)
  \/ \E a \in Accounts : Onboard(a)
  \/ \E i \in Intents : Charge(i) \/ Settle(i)
  \/ \E w \in Workers : Connecting(w) \/ Paying(w) \/ Splitting(w) \/ Cut(w)

Spec == Init /\ [][Next]_vars

-------------------------------------------------------------------------------
(* Properties.                                                               *)

\* A replacement whose reset is still to come.
Resetting(p) == \E w \in Workers : At(w, "reset") /\ task[w].who = p

TransfersFor(p) == {k \in DOMAIN transfers : transfers[k].for = p}

\* No recipient is paid twice for an order, and no account credited twice,
\* whoever settles the order and however often, unless the recipient changed
\* its account while a transfer to the old one was missing from the ledger.
\* Every row that says paid is a transfer that was made, to that account.
PaidOnce ==
  \A p \in Parties :
    /\ p \notin lost => Cardinality(TransfersFor(p)) <= 1
    /\ \A k, l \in TransfersFor(p) : k # l => transfers[k].to # transfers[l].to
    /\ ledger[p] # None /\ ledger[p].status = "paid" =>
         \E k \in TransfersFor(p) : transfers[k].to = ledger[p].account

\* "The stored flags described the OLD account": a party marked as enabled has
\* an account that is, so a card is charged only where the money can go on,
\* unless a sync crossed a change of the account, two requests connected one at
\* a time, or the reset was cut off.
FlagsDescribeAccount ==
  \A p \in Parties :
    party[p].account # None /\ party[p].enabled /\ ~crossed /\ ~Resetting(p)
      => stripe[party[p].account].enabled

\* A paid order names an intent that was really charged and the account where
\* it can be read (refunds and payouts find the money there), whichever of two
\* tabs paid, unless a tab recorded its intent while the payment was recognised.
PaidChargeIsFound ==
  order.paid /\ ~overlapped =>
    /\ order.intent \in Charges
    /\ intents[order.intent].account = order.account
================================================================================
