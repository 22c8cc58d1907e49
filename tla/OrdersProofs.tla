----------------------------- MODULE OrdersProofs -----------------------------
(***************************************************************************)
(* Proofs about an order after checkout: its payouts (Payouts), for any    *)
(* parties, accounts, intents and requests in flight, and its way to the   *)
(* customer (Fulfilment), for any lines, fulfillers, statuses that may be  *)
(* asked for and interruptions.                                            *)
(***************************************************************************)
EXTENDS Payouts, Fulfilment, FiniteSetTheorems, TLAPS

-------------------------------------------------------------------------------
(* Payouts: typing.                                                         *)

Busy(t) == t.pc \in {"transfer", "paid", "failed"}

\* What a request has in hand at each of its steps.
Shaped(t) ==
  /\ t \in Tasks
  /\ Busy(t) => t.who \in Parties /\ t.account \in Accounts
  /\ t.pc \in {"save", "reset", "sync"} => t.who \in Parties /\ t.account \in Accounts
  /\ t.pc \in {"record", "mark", "capture"} => t.intent \in Intents

\* ... and that it exists at Stripe.
Existing(t) ==
  /\ t.pc \in {"save", "sync"} => stripe[t.account] # None
  /\ t.pc = "record" => intents[t.intent] # None

TypeInv ==
  /\ TypeOK
  /\ \A w \in Workers : Shaped(task[w]) /\ Existing(task[w])
  /\ \A p \in Parties : party[p].account # None => stripe[party[p].account] # None

LEMMA IdleShaped == Shaped(Idle) /\ Existing(Idle) /\ Idle.pc = "idle" /\ Idle.todo = {}
BY DEF Shaped, Idle, Tasks, Steps, Busy, Existing

LEMMA GoShaped ==
  ASSUME TypeInv, NEW w \in Workers, NEW t, Shaped(t), Go(w, t)
  PROVE  /\ task' \in [Workers -> Tasks] /\ \A v \in Workers : Shaped(task'[v])
         /\ task'[w] = t /\ \A v \in Workers \ {w} : task'[v] = task[v]
BY DEF TypeInv, TypeOK, Go, Shaped

LEMMA CountedTyping ==
  ASSUME TypeInv, Counted
  PROVE  requests' \in 0..MaxRequests
BY BoundsNat DEF TypeInv, TypeOK, Counted

LEMMA FaultTyping ==
  ASSUME TypeInv, Fault
  PROVE  faults' \in 0..MaxFaults
BY BoundsNat DEF TypeInv, TypeOK, Fault

\* A step of one request that leaves rows and Stripe's objects alone.
LEMMA QuietTyping ==
  ASSUME TypeInv, NEW w \in Workers, NEW t, Shaped(t), Existing(t), Go(w, t),
         UNCHANGED <<rows, external, history>>,
         requests' \in 0..MaxRequests, faults' \in 0..MaxFaults
  PROVE  TypeInv'
<1>1. /\ task' \in [Workers -> Tasks] /\ \A v \in Workers : Shaped(task'[v])
      /\ task'[w] = t /\ \A v \in Workers \ {w} : task'[v] = task[v]
  BY GoShaped
<1>2. \A v \in Workers : Existing(task[v])' 
  BY <1>1 DEF Existing, TypeInv, external
<1> QED
  BY <1>1, <1>2 DEF TypeInv, TypeOK, Shaped, Existing, rows, external, history

LEMMA InitTyping == ASSUME Init PROVE TypeInv
<1>1. party \in [Parties -> PartyRows] /\ stripe \in [Accounts -> Connected \cup {None}]
  BY DEF Init, Parties, PartyRows, Kinds, Connected
<1>2. task \in [Workers -> Tasks] /\ \A w \in Workers : Shaped(task[w]) /\ Existing(task[w])
  BY IdleShaped DEF Init, Shaped, Existing
<1>3. transfers \in [DOMAIN transfers -> Transfers]
  BY DEF Init
<1>4. independent \in BOOLEAN /\ fulfillers \in SUBSET Parties
  BY DEF Init, Parties
<1>5. /\ order \in [paid : BOOLEAN, intent : Intents \cup {None},
                    account : Accounts \cup {None}, charge : Intents \cup {None}]
      /\ ledger \in [Parties -> Ledgers \cup {None}]
      /\ intents \in [Intents -> Payments \cup {None}]
      /\ settled \subseteq Intents
  BY DEF Init
<1>6. /\ requests \in 0..MaxRequests /\ faults \in 0..MaxFaults
      /\ lost \in SUBSET Parties /\ crossed \in BOOLEAN /\ overlapped \in BOOLEAN
  <2>1. requests = 0 /\ faults = 0 /\ lost = {} /\ crossed = FALSE /\ overlapped = FALSE
    BY DEF Init
  <2>2. requests \in 0..MaxRequests /\ faults \in 0..MaxFaults
    BY <2>1, BoundsNat
  <2> QED
    BY <2>1, <2>2
<1>7. \A p \in Parties : stripe[party[p].account] # None
  <2> DEFINE kindOf(p) == IF independent /\ p = Creator THEN "standard" ELSE "express"
             owner(first, a) == {p \in Parties : first[p] = a}
  <2>1. PICK first \in [Parties -> Accounts] :
          /\ party = [p \in Parties |->
               [account |-> first[p], kind |-> kindOf(p), enabled |-> TRUE]]
          /\ stripe = [a \in Accounts |-> IF owner(first, a) = {} THEN None
               ELSE [kind |-> kindOf(CHOOSE p \in owner(first, a) : TRUE), enabled |-> TRUE]]
    BY DEF Init
  <2>2. SUFFICES ASSUME NEW p \in Parties PROVE stripe[party[p].account] # None
    OBVIOUS
  <2>3. party[p].account = first[p] /\ first[p] \in Accounts /\ owner(first, first[p]) # {}
    BY <2>1
  <2>4. stripe[first[p]] = [kind |-> kindOf(CHOOSE q \in owner(first, first[p]) : TRUE),
                            enabled |-> TRUE]
    BY <2>1, <2>3
  <2>5. stripe[first[p]] \in Connected
    BY <2>4 DEF Connected, Kinds
  <2> QED
    BY <2>3, <2>5, NoneIsNothing
<1> QED
  BY <1>1, <1>2, <1>3, <1>4, <1>5, <1>6, <1>7 DEF TypeInv, TypeOK

LEMMA ConnectTyping ==
  ASSUME TypeInv, NEW w \in Workers, NEW p \in Parties, Connect(w, p)
  PROVE  TypeInv'
<1>1. PICK a \in Accounts :
        /\ stripe' = [stripe EXCEPT ![a] = [kind |-> WantedKind(p), enabled |-> FALSE]]
        /\ Go(w, [Idle EXCEPT !.pc = "save", !.who = p, !.account = a,
                              !.kind = WantedKind(p), !.enabled = party[p].account # None])
  BY DEF Connect
<1> DEFINE t == [Idle EXCEPT !.pc = "save", !.who = p, !.account = a,
                             !.kind = WantedKind(p), !.enabled = party[p].account # None]
<1>2. WantedKind(p) \in Kinds
  BY DEF WantedKind, Kinds
<1>3. Shaped(t) /\ t.account = a /\ t.pc = "save"
  BY <1>2 DEF Shaped, Idle, Tasks, Steps, Busy
<1>4. Go(w, t)
  BY <1>1
<1> HIDE DEF t
<1>5. /\ stripe' \in [Accounts -> Connected \cup {None}] /\ stripe'[a] # None
      /\ \A b \in Accounts : stripe[b] # None => stripe'[b] # None
  <2>1. [kind |-> WantedKind(p), enabled |-> FALSE] \in Connected
    BY <1>2 DEF Connected
  <2>2. stripe \in [Accounts -> Connected \cup {None}]
    BY DEF TypeInv, TypeOK
  <2> QED
    BY <1>1, <2>1, <2>2, NoneIsNothing
<1>6. /\ task' \in [Workers -> Tasks] /\ \A v \in Workers : Shaped(task'[v])
      /\ task'[w] = t /\ \A v \in Workers \ {w} : task'[v] = task[v]
  BY <1>3, <1>4, GoShaped
<1>7. requests' \in 0..MaxRequests
  BY CountedTyping DEF Connect
<1>8. \A v \in Workers : Existing(task[v])'
  BY <1>3, <1>5, <1>6 DEF Existing, Shaped, TypeInv, TypeOK, Connect
<1>9. \A q \in Parties : (party[q].account # None => stripe[party[q].account] # None)'
  BY <1>5 DEF TypeInv, TypeOK, PartyRows, Connect, rows
<1> QED
  BY <1>5, <1>6, <1>7, <1>8, <1>9 DEF Connect, TypeInv, TypeOK, rows, history

LEMMA SyncReadTyping ==
  ASSUME TypeInv, NEW w \in Workers, NEW p \in Parties, SyncRead(w, p)
  PROVE  TypeInv'
<1>1. /\ party[p].account \in Accounts
      /\ stripe[party[p].account] \in Connected
      /\ stripe[party[p].account] # None
  BY DEF SyncRead, TypeInv, TypeOK, PartyRows
<1>2. PICK now \in {stripe[party[p].account].enabled, FALSE} :
        Go(w, [Idle EXCEPT !.pc = "sync", !.who = p, !.enabled = now,
                           !.account = party[p].account])
  BY DEF SyncRead
<1> DEFINE t == [Idle EXCEPT !.pc = "sync", !.who = p, !.enabled = now,
                             !.account = party[p].account]
<1>3. now \in BOOLEAN
  BY <1>1 DEF Connected
<1>4. Shaped(t) /\ Existing(t)
  BY <1>1, <1>3 DEF Shaped, Existing, Idle, Tasks, Steps, Busy
<1>5. Go(w, t)
  BY <1>2
<1> HIDE DEF t
<1>6. requests' \in 0..MaxRequests /\ faults' \in 0..MaxFaults
  BY CountedTyping DEF SyncRead, TypeInv, TypeOK
<1> QED
  BY <1>4, <1>5, <1>6, QuietTyping DEF SyncRead

\* The rows of the parties change with a step of one request.
LEMMA PartyTyping ==
  ASSUME TypeInv, NEW w \in Workers, NEW t, Shaped(t), Existing(t), Go(w, t),
         party' \in [Parties -> PartyRows],
         \A p \in Parties : party'[p].account # None => stripe[party'[p].account] # None,
         UNCHANGED <<independent, fulfillers, order, ledger, external, requests, faults>>,
         lost' \in SUBSET Parties, crossed' \in BOOLEAN, overlapped' \in BOOLEAN
  PROVE  TypeInv'
<1>1. /\ task' \in [Workers -> Tasks] /\ \A v \in Workers : Shaped(task'[v])
      /\ task'[w] = t /\ \A v \in Workers \ {w} : task'[v] = task[v]
  BY GoShaped
<1>2. \A v \in Workers : Existing(task[v])'
  BY <1>1 DEF Existing, TypeInv, external
<1> QED
  BY <1>1, <1>2 DEF TypeInv, TypeOK, Shaped, Existing, external

LEMMA SaveAccountTyping ==
  ASSUME TypeInv, NEW w \in Workers, SaveAccount(w)
  PROVE  TypeInv'
<1> DEFINE p == task[w].who
           t == IF task[w].enabled THEN [task[w] EXCEPT !.pc = "reset"] ELSE Idle
<1>1. /\ task[w] \in Tasks /\ p \in Parties /\ task[w].account \in Accounts
      /\ stripe[task[w].account] # None
  BY DEF SaveAccount, At, TypeInv, Shaped, Existing
<1>2. [task[w] EXCEPT !.pc = "reset"] \in Tasks
  BY <1>1 DEF Tasks, Steps
<1>3. Shaped(t) /\ Existing(t)
  BY <1>1, <1>2, IdleShaped DEF Shaped, Existing, Tasks, Busy
<1>4. Go(w, t)
  BY DEF SaveAccount, Done
<1> HIDE DEF t
<1>5. party' = [party EXCEPT ![p].account = task[w].account, ![p].kind = task[w].kind]
  BY DEF SaveAccount
<1>6. /\ party' \in [Parties -> PartyRows]
      /\ \A q \in Parties : party'[q].account # None => stripe[party'[q].account] # None
  BY <1>1, <1>5 DEF TypeInv, TypeOK, PartyRows, Tasks
<1>7. lost' \in SUBSET Parties /\ crossed' \in BOOLEAN /\ overlapped' \in BOOLEAN
  BY <1>1 DEF SaveAccount, MayBeLost, Overtaken, TypeInv, TypeOK
<1> QED
  BY <1>3, <1>4, <1>6, <1>7, PartyTyping DEF SaveAccount

LEMMA FlagTyping ==
  ASSUME TypeInv, NEW w \in Workers, ResetFlags(w) \/ SyncWrite(w)
  PROVE  TypeInv'
<1>1. task[w] \in Tasks /\ task[w].who \in Parties
  BY DEF ResetFlags, SyncWrite, At, TypeInv, Shaped
<1>2. PICK b \in BOOLEAN : party' = [party EXCEPT ![task[w].who].enabled = b]
  BY <1>1 DEF ResetFlags, SyncWrite, Tasks
<1>3. /\ party' \in [Parties -> PartyRows]
      /\ \A q \in Parties : party'[q].account # None => stripe[party'[q].account] # None
  BY <1>1, <1>2 DEF TypeInv, TypeOK, PartyRows
<1>4. lost' \in SUBSET Parties /\ crossed' \in BOOLEAN /\ overlapped' \in BOOLEAN
  BY <1>1 DEF ResetFlags, SyncWrite, TypeInv, TypeOK, history
<1>5. Go(w, Idle)
  BY DEF ResetFlags, SyncWrite, Done
<1> QED
  BY <1>3, <1>4, <1>5, IdleShaped, PartyTyping DEF ResetFlags, SyncWrite

\* Steps outside the requests: the tasks stay where they are.
LEMMA OutsideTyping ==
  ASSUME TypeInv,
         \/ FlipStore \/ \E p \in Parties : Disconnect(p)
         \/ \E a \in Accounts : Onboard(a)
         \/ \E i \in Intents : Charge(i) \/ Settle(i)
  PROVE  TypeInv'
<1>1. CASE FlipStore
  BY <1>1, CountedTyping DEF FlipStore, TypeInv, TypeOK, Existing, external, history
<1>2. ASSUME NEW p \in Parties, Disconnect(p) PROVE TypeInv'
  <2>1. party' = [party EXCEPT ![p] = [account |-> None, enabled |-> FALSE,
                    kind |-> IF p = Creator THEN None ELSE party[p].kind]]
    BY <1>2 DEF Disconnect, TypeInv, TypeOK
  <2>2. /\ party' \in [Parties -> PartyRows]
        /\ \A q \in Parties : party'[q].account # None => stripe[party'[q].account] # None
    BY <2>1 DEF TypeInv, TypeOK, PartyRows
  <2>3. lost' \in SUBSET Parties /\ requests' \in 0..MaxRequests
    BY <1>2, CountedTyping DEF Disconnect, MayBeLost, TypeInv, TypeOK
  <2> QED
    BY <1>2, <2>2, <2>3 DEF Disconnect, TypeInv, TypeOK, Existing, external
<1>3. ASSUME NEW a \in Accounts, Onboard(a) PROVE TypeInv'
  <2>1. /\ stripe' \in [Accounts -> Connected \cup {None}]
        /\ \A b \in Accounts : stripe[b] # None => stripe'[b] # None
    <3>1. stripe[a] \in Connected /\ stripe \in [Accounts -> Connected \cup {None}]
      BY <1>3 DEF Onboard, TypeInv, TypeOK
    <3>2. [stripe[a] EXCEPT !.enabled = TRUE] \in Connected
      BY <3>1 DEF Connected
    <3>3. stripe' = [stripe EXCEPT ![a] = [stripe[a] EXCEPT !.enabled = TRUE]]
      BY <1>3, <3>1 DEF Onboard
    <3> QED
      BY <3>1, <3>2, <3>3, NoneIsNothing
  <2>2. \A v \in Workers : Existing(task[v])'
    BY <1>3, <2>1 DEF Onboard, Existing, TypeInv, Shaped
  <2>3. \A q \in Parties : party[q].account # None => stripe'[party[q].account] # None
    BY <2>1 DEF TypeInv, TypeOK, PartyRows
  <2> QED
    BY <1>3, <2>1, <2>2, <2>3 DEF Onboard, TypeInv, TypeOK, Shaped, Existing, rows, history
<1>4. ASSUME NEW i \in Intents, Charge(i) PROVE TypeInv'
  <2>1. /\ intents' \in [Intents -> Payments \cup {None}]
        /\ \A j \in Intents : intents[j] # None => intents'[j] # None
    <3>1. intents[i] \in Payments /\ intents \in [Intents -> Payments \cup {None}]
      BY <1>4 DEF Charge, TypeInv, TypeOK
    <3>2. [intents[i] EXCEPT !.charged = TRUE] \in Payments
      BY <3>1 DEF Payments
    <3>3. intents' = [intents EXCEPT ![i] = [intents[i] EXCEPT !.charged = TRUE]]
      BY <1>4, <3>1 DEF Charge
    <3> QED
      BY <3>1, <3>2, <3>3, NoneIsNothing
  <2>2. \A v \in Workers : Existing(task[v])'
    BY <1>4, <2>1 DEF Charge, Existing, TypeInv, Shaped
  <2> QED
    BY <1>4, <2>1, <2>2 DEF Charge, TypeInv, TypeOK, Shaped, Existing, rows, history
<1>5. ASSUME NEW i \in Intents, Settle(i) PROVE TypeInv'
  BY <1>5 DEF Settle, TypeInv, TypeOK, Shaped, Existing, rows, history
<1> QED
  BY <1>1, <1>2, <1>3, <1>4, <1>5

LEMMA CreateIntentTyping ==
  ASSUME TypeInv, NEW w \in Workers, CreateIntent(w)
  PROVE  TypeInv'
<1> DEFINE account == IF independent THEN party[Creator].account ELSE None
<1>1. PICK i \in Intents :
        /\ intents' = [intents EXCEPT ![i] =
             [account |-> account, open |-> FALSE, charged |-> FALSE]]
        /\ Go(w, [Idle EXCEPT !.pc = "record", !.intent = i, !.account = account])
  BY DEF CreateIntent
<1>2. account \in Accounts \cup {None}
  BY DEF TypeInv, TypeOK, PartyRows, Parties
<1> HIDE DEF account
<1> DEFINE t == [Idle EXCEPT !.pc = "record", !.intent = i, !.account = account]
<1>3. Shaped(t) /\ t.intent = i /\ t.pc = "record"
  BY <1>2 DEF Shaped, Idle, Tasks, Steps, Busy
<1>4. Go(w, t)
  BY <1>1
<1> HIDE DEF t
<1>5. /\ intents' \in [Intents -> Payments \cup {None}] /\ intents'[i] # None
      /\ \A j \in Intents : intents[j] # None => intents'[j] # None
  <2>1. [account |-> account, open |-> FALSE, charged |-> FALSE] \in Payments
    BY <1>2 DEF Payments
  <2>2. intents \in [Intents -> Payments \cup {None}]
    BY DEF TypeInv, TypeOK
  <2> QED
    BY <1>1, <2>1, <2>2, NoneIsNothing
<1>6. /\ task' \in [Workers -> Tasks] /\ \A v \in Workers : Shaped(task'[v])
      /\ task'[w] = t /\ \A v \in Workers \ {w} : task'[v] = task[v]
  BY <1>3, <1>4, GoShaped
<1>7. requests' \in 0..MaxRequests
  BY CountedTyping DEF CreateIntent
<1>8. \A v \in Workers : Existing(task[v])'
  BY <1>3, <1>5, <1>6 DEF Existing, Shaped, TypeInv, CreateIntent
<1> QED
  BY <1>5, <1>6, <1>7, <1>8 DEF CreateIntent, TypeInv, TypeOK, rows, history

LEMMA RecordIntentTyping ==
  ASSUME TypeInv, NEW w \in Workers, RecordIntent(w)
  PROVE  TypeInv'
<1> DEFINE i == task[w].intent
<1>1. task[w] \in Tasks /\ i \in Intents /\ intents[i] # None
  BY DEF RecordIntent, At, TypeInv, Shaped, Existing
<1>2. /\ intents' \in [Intents -> Payments \cup {None}]
      /\ \A j \in Intents : intents[j] # None => intents'[j] # None
  <2>1. intents[i] \in Payments /\ intents \in [Intents -> Payments \cup {None}]
    BY <1>1 DEF TypeInv, TypeOK
  <2>2. [intents[i] EXCEPT !.open = TRUE] \in Payments
    BY <2>1 DEF Payments
  <2>3. intents' = [intents EXCEPT ![i] = [intents[i] EXCEPT !.open = TRUE]]
    BY <2>1 DEF RecordIntent
  <2> QED
    BY <1>1, <2>1, <2>2, <2>3, NoneIsNothing
<1>3. /\ task' \in [Workers -> Tasks] /\ \A v \in Workers : Shaped(task'[v])
      /\ task'[w] = Idle /\ \A v \in Workers \ {w} : task'[v] = task[v]
  BY IdleShaped, GoShaped DEF RecordIntent, Done
<1>4. order' \in [paid : BOOLEAN, intent : Intents \cup {None},
                  account : Accounts \cup {None}, charge : Intents \cup {None}]
  BY <1>1 DEF RecordIntent, TypeInv, TypeOK, Tasks
<1>5. \A v \in Workers : Existing(task[v])'
  BY <1>2, <1>3, IdleShaped DEF Existing, Shaped, TypeInv, RecordIntent
<1>6. overlapped' \in BOOLEAN
  BY DEF RecordIntent, TypeInv, TypeOK
<1> QED
  BY <1>2, <1>3, <1>4, <1>5, <1>6 DEF RecordIntent, TypeInv, TypeOK

\* A payment is recognised, or its charge captured: the order and the task.
LEMMA OrderTyping ==
  ASSUME TypeInv, NEW w \in Workers, NEW t, Shaped(t), Existing(t), Go(w, t),
         order' \in [paid : BOOLEAN, intent : Intents \cup {None},
                     account : Accounts \cup {None}, charge : Intents \cup {None}],
         ledger' \in [Parties -> Ledgers \cup {None}],
         UNCHANGED <<independent, fulfillers, party, external, requests, history>>,
         faults' \in 0..MaxFaults
  PROVE  TypeInv'
<1>1. /\ task' \in [Workers -> Tasks] /\ \A v \in Workers : Shaped(task'[v])
      /\ task'[w] = t /\ \A v \in Workers \ {w} : task'[v] = task[v]
  BY GoShaped
<1>2. \A v \in Workers : Existing(task[v])'
  BY <1>1 DEF Existing, TypeInv, external
<1> QED
  BY <1>1, <1>2 DEF TypeInv, TypeOK, Shaped, Existing, external, history

LEMMA RecogniseTyping ==
  ASSUME TypeInv, NEW w \in Workers, MarkPaid(w) \/ Capture(w)
  PROVE  TypeInv'
<1>1. task[w] \in Tasks /\ task[w].intent \in Intents
  BY DEF MarkPaid, Capture, At, TypeInv, Shaped
<1>2. PICK pc \in {"capture", "transfers"} : Go(w, [task[w] EXCEPT !.pc = pc])
  BY DEF MarkPaid, Capture
<1> DEFINE t == [task[w] EXCEPT !.pc = pc]
<1>3. Shaped(t) /\ Existing(t)
  BY <1>1 DEF Shaped, Existing, Tasks, Steps, Busy
<1>4. Go(w, t)
  BY <1>2
<1> HIDE DEF t
<1>5. order' \in [paid : BOOLEAN, intent : Intents \cup {None},
                  account : Accounts \cup {None}, charge : Intents \cup {None}]
  BY <1>1 DEF MarkPaid, Capture, TypeInv, TypeOK
<1>6. ledger' \in [Parties -> Ledgers \cup {None}] /\ faults' \in 0..MaxFaults
  BY FaultTyping DEF MarkPaid, Capture, TypeInv, TypeOK
<1> QED
  BY <1>3, <1>4, <1>5, <1>6, OrderTyping DEF MarkPaid, Capture

LEMMA ReadTyping ==
  ASSUME TypeInv, NEW w \in Workers,
         (\E i \in Intents : Deliver(w, i)) \/ Reconcile(w)
  PROVE  TypeInv'
<1>1. requests' \in 0..MaxRequests /\ faults' \in 0..MaxFaults
  BY CountedTyping DEF Deliver, Reconcile, TypeInv, TypeOK
<1>2. UNCHANGED <<rows, external, history>>
  BY DEF Deliver, Reconcile
<1>3. ASSUME NEW i \in Intents, Deliver(w, i) PROVE TypeInv'
  <2> DEFINE t == [Idle EXCEPT !.pc = "mark", !.intent = i, !.rethrow = TRUE]
  <2>1. Shaped(t) /\ Existing(t)
    BY DEF Shaped, Existing, Idle, Tasks, Steps, Busy
  <2>2. Go(w, t)
    BY <1>3 DEF Deliver
  <2> HIDE DEF t
  <2> QED
    BY <1>1, <1>2, <2>1, <2>2, QuietTyping
<1>4. ASSUME Go(w, [Idle EXCEPT !.pc = "transfers"]) PROVE TypeInv'
  <2> DEFINE t == [Idle EXCEPT !.pc = "transfers"]
  <2>1. Shaped(t) /\ Existing(t)
    BY DEF Shaped, Existing, Idle, Tasks, Steps, Busy
  <2>2. Go(w, t)
    BY <1>4
  <2> HIDE DEF t
  <2> QED
    BY <1>1, <1>2, <2>1, <2>2, QuietTyping
<1>5. ASSUME NEW i \in Intents, Go(w, [Idle EXCEPT !.pc = "mark", !.intent = i])
      PROVE  TypeInv'
  <2> DEFINE t == [Idle EXCEPT !.pc = "mark", !.intent = i]
  <2>1. Shaped(t) /\ Existing(t)
    BY DEF Shaped, Existing, Idle, Tasks, Steps, Busy
  <2>2. Go(w, t)
    BY <1>5
  <2> HIDE DEF t
  <2> QED
    BY <1>1, <1>2, <2>1, <2>2, QuietTyping
<1>6. Reconcile(w) => \/ Go(w, [Idle EXCEPT !.pc = "transfers"])
                      \/ \E i \in Intents : Go(w, [Idle EXCEPT !.pc = "mark", !.intent = i])
  BY DEF Reconcile, TypeInv, TypeOK
<1> QED
  BY <1>3, <1>4, <1>5, <1>6

LEMMA BeginTransfersTyping ==
  ASSUME TypeInv, NEW w \in Workers, BeginTransfers(w)
  PROVE  TypeInv'
<1> DEFINE due == {Payee(p) : p \in {q \in fulfillers \cap Providers : party[q].account # None}}
           t == [task[w] EXCEPT !.pc = "recipients", !.intent = ChargeOf, !.todo = due]
<1>1. Go(w, t) \/ Go(w, Idle)
  BY DEF BeginTransfers, Done
<1>2. due \in SUBSET Payees
  BY DEF Payee, Payees, TypeInv, TypeOK, PartyRows, Parties
<1>3. ChargeOf \in Intents \cup {None} /\ task[w] \in Tasks
  BY DEF ChargeOf, TypeInv, TypeOK
<1> HIDE DEF due
<1>4. Shaped(t) /\ Existing(t)
  BY <1>2, <1>3, ZenonT(40) DEF Shaped, Existing, Tasks, Steps, Busy
<1> HIDE DEF t
<1>5. requests' \in 0..MaxRequests /\ faults' \in 0..MaxFaults
  BY DEF BeginTransfers, TypeInv, TypeOK
<1> QED
  BY <1>1, <1>4, <1>5, IdleShaped, QuietTyping DEF BeginTransfers

LEMMA ReadCreatorTyping ==
  ASSUME TypeInv, NEW w \in Workers, ReadCreator(w)
  PROVE  TypeInv'
<1> DEFINE t == [task[w] EXCEPT !.pc = "creator", !.todo = {Payee(Creator)}]
<1>1. \/ Go(w, Idle)
      \/ party[Creator].account # None /\ Go(w, t)
  BY DEF ReadCreator, Done
<1>2. party[Creator].account # None => {Payee(Creator)} \in SUBSET Payees
  BY DEF Payee, Payees, TypeInv, TypeOK, PartyRows, Parties
<1>3. task[w] \in Tasks
  BY DEF TypeInv, TypeOK
<1>4. party[Creator].account # None => Shaped(t) /\ Existing(t)
  BY <1>2, <1>3 DEF Shaped, Existing, Tasks, Steps, Busy
<1> HIDE DEF t
<1>5. requests' \in 0..MaxRequests /\ faults' \in 0..MaxFaults
  BY DEF ReadCreator, TypeInv, TypeOK
<1> QED
  BY <1>1, <1>4, <1>5, IdleShaped, QuietTyping DEF ReadCreator

\* What a payout leaves in hand: the payee, with its account, and the others.
LEMMA StartPayoutStep ==
  ASSUME TypeInv, NEW w \in Workers, StartPayout(w)
  PROVE  \E r \in task[w].todo, pc \in {"transfer", "recipients"} :
           LET t == [task[w] EXCEPT !.who = r.who, !.account = r.account,
                                    !.todo = @ \ {r}, !.pc = pc]
           IN  /\ r \in Payees /\ Shaped(t) /\ Existing(t) /\ t.pc = pc
               /\ Go(w, t) \/ Go(w, Idle)
               /\ pc = "transfer" => ledger[r.who] = None \/ ledger[r.who].status # "paid"
<1>1. PICK r \in task[w].todo :
        LET t == [task[w] EXCEPT !.who = r.who, !.account = r.account, !.todo = @ \ {r}]
            paid == ledger[r.who] # None /\ ledger[r.who].status = "paid"
        IN Go(w, IF ~paid THEN [t EXCEPT !.pc = "transfer"]
                 ELSE IF r.who = Creator THEN Idle
                 ELSE [t EXCEPT !.pc = "recipients"])
  BY DEF StartPayout
<1>2. task[w] \in Tasks /\ r \in Payees
  BY DEF TypeInv, TypeOK, Tasks
<1> DEFINE s(pc) == [task[w] EXCEPT !.who = r.who, !.account = r.account,
                                    !.todo = @ \ {r}, !.pc = pc]
<1>3. \A pc \in {"transfer", "recipients"} : Shaped(s(pc)) /\ Existing(s(pc)) /\ s(pc).pc = pc
  BY <1>2 DEF Shaped, Existing, Tasks, Payees, Steps, Busy
<1>4. \/ Go(w, s("transfer")) /\ (ledger[r.who] = None \/ ledger[r.who].status # "paid")
      \/ Go(w, s("recipients"))
      \/ Go(w, Idle)
  BY <1>1, <1>2 DEF Tasks
<1> QED
  BY <1>2, <1>3, <1>4

LEMMA StartPayoutTyping ==
  ASSUME TypeInv, NEW w \in Workers, StartPayout(w)
  PROVE  TypeInv'
<1>1. PICK t : Shaped(t) /\ Existing(t) /\ Go(w, t)
  BY StartPayoutStep, IdleShaped
<1>2. requests' \in 0..MaxRequests /\ faults' \in 0..MaxFaults
  BY DEF StartPayout, TypeInv, TypeOK
<1> QED
  BY <1>1, <1>2, QuietTyping DEF StartPayout

\* A transfer is made for the payee in hand under its key, or none is made.
LEMMA TransferStep ==
  ASSUME TypeInv, NEW w \in Workers, Transfer(w)
  PROVE  /\ task[w].who \in Parties /\ task[w].account \in Accounts
         /\ \/ UNCHANGED transfers
            \/ /\ Key(w) \notin DOMAIN transfers
               /\ DOMAIN transfers' = DOMAIN transfers \cup {Key(w)}
               /\ \A k \in DOMAIN transfers : transfers'[k] = transfers[k]
               /\ transfers'[Key(w)] = [for |-> task[w].who, to |-> task[w].account,
                                        from |-> task[w].intent]
         /\ transfers' \in [DOMAIN transfers' -> Transfers]
         /\ \E pc \in {"paid", "failed"} :
              /\ Go(w, [task[w] EXCEPT !.pc = pc])
              /\ pc = "paid" => /\ Key(w) \in DOMAIN transfers'
                                /\ transfers'[Key(w)].for = task[w].who
                                /\ transfers'[Key(w)].to = task[w].account
<1> DEFINE k == Key(w)
           fresh == [for |-> task[w].who, to |-> task[w].account, from |-> task[w].intent]
           made == [j \in DOMAIN transfers \cup {k} |->
                      IF j \in DOMAIN transfers THEN transfers[j] ELSE fresh]
<1>1. /\ task[w].who \in Parties /\ task[w].account \in Accounts
      /\ task[w].intent \in Intents \cup {None}
  BY DEF Transfer, At, TypeInv, TypeOK, Shaped, Busy, Tasks
<1>2. fresh \in Transfers /\ fresh.for = task[w].who /\ fresh.to = task[w].account
  BY <1>1 DEF Transfers
<1>3. transfers \in [DOMAIN transfers -> Transfers]
  BY DEF TypeInv, TypeOK
<1>4. \/ /\ transfers' = made /\ (k \in DOMAIN transfers => transfers[k] = fresh)
         /\ \E pc \in {"paid", "failed"} : Go(w, [task[w] EXCEPT !.pc = pc])
      \/ UNCHANGED transfers /\ Go(w, [task[w] EXCEPT !.pc = "failed"])
  BY DEF Transfer
<1> HIDE DEF k, fresh
<1>5. k \in DOMAIN made /\ (k \in DOMAIN transfers => transfers[k] = fresh) => made[k] = fresh
  OBVIOUS
<1>6. k \in DOMAIN transfers => made = transfers
  BY <1>3
<1>7. made \in [DOMAIN transfers \cup {k} -> Transfers] /\ DOMAIN made = DOMAIN transfers \cup {k}
  BY <1>2, <1>3
<1>8. \A j \in DOMAIN transfers : made[j] = transfers[j]
  OBVIOUS
<1> HIDE DEF made
<1>9. /\ transfers' \in [DOMAIN transfers' -> Transfers]
      /\ \/ UNCHANGED transfers
         \/ /\ k \notin DOMAIN transfers
            /\ DOMAIN transfers' = DOMAIN transfers \cup {k}
            /\ \A j \in DOMAIN transfers : transfers'[j] = transfers[j]
            /\ transfers'[k] = fresh
  BY <1>3, <1>4, <1>5, <1>6, <1>7, <1>8
<1>10. \E pc \in {"paid", "failed"} :
         /\ Go(w, [task[w] EXCEPT !.pc = pc])
         /\ pc = "paid" => k \in DOMAIN transfers' /\ transfers'[k] = fresh
  BY <1>4, <1>5, <1>7
<1> QED
  BY <1>1, <1>2, <1>9, <1>10 DEF k, fresh

LEMMA TransferTyping ==
  ASSUME TypeInv, NEW w \in Workers, Transfer(w)
  PROVE  TypeInv'
<1>1. PICK pc \in {"paid", "failed"} : Go(w, [task[w] EXCEPT !.pc = pc])
  BY TransferStep
<1> DEFINE t == [task[w] EXCEPT !.pc = pc]
<1>2. Shaped(t) /\ Existing(t)
  <2>1. task[w] \in Tasks /\ task[w].who \in Parties /\ task[w].account \in Accounts
    BY TransferStep DEF TypeInv, TypeOK
  <2> QED
    BY <2>1 DEF Shaped, Existing, Tasks, Steps, Busy
<1>3. Go(w, t)
  BY <1>1
<1> HIDE DEF t
<1>4. /\ task' \in [Workers -> Tasks] /\ \A v \in Workers : Shaped(task'[v])
      /\ task'[w] = t /\ \A v \in Workers \ {w} : task'[v] = task[v]
  BY <1>2, <1>3, GoShaped
<1>5. \A v \in Workers : Existing(task[v])'
  BY <1>2, <1>4 DEF Existing, TypeInv, Transfer
<1>6. transfers' \in [DOMAIN transfers' -> Transfers]
  BY TransferStep
<1>7. faults' \in 0..MaxFaults
  BY FaultTyping DEF Transfer, TypeInv, TypeOK
<1> QED
  BY <1>4, <1>5, <1>6, <1>7 DEF Transfer, TypeInv, TypeOK, Shaped, Existing, rows, history

LEMMA RecordTyping ==
  ASSUME TypeInv, NEW w \in Workers, RecordPaid(w) \/ RecordFailed(w)
  PROVE  TypeInv'
<1>1. task[w] \in Tasks /\ task[w].who \in Parties /\ task[w].account \in Accounts
  BY DEF RecordPaid, RecordFailed, At, TypeInv, TypeOK, Shaped, Busy
<1> DEFINE t == [task[w] EXCEPT !.pc = "recipients"]
<1>2. Shaped(t) /\ Existing(t)
  BY <1>1 DEF Shaped, Existing, Tasks, Steps, Busy
<1>3. Go(w, t) \/ Go(w, Idle)
  BY DEF RecordPaid, RecordFailed, NextPayee
<1> HIDE DEF t
<1>4. ledger' \in [Parties -> Ledgers \cup {None}]
  <2>1. ledger \in [Parties -> Ledgers \cup {None}]
    BY DEF TypeInv, TypeOK
  <2>2. CASE RecordPaid(w)
    BY <2>1, <2>2, <1>1 DEF RecordPaid, Ledgers
  <2>3. CASE RecordFailed(w)
    <3> DEFINE p == task[w].who
               row == [status |-> "failed", account |->
                         IF ledger[p] = None THEN task[w].account ELSE ledger[p].account]
    <3>1. row \in Ledgers
      BY <2>1, <1>1 DEF Ledgers
    <3>2. ledger' = [ledger EXCEPT ![p] = row]
      BY <2>1, <2>3, <1>1 DEF RecordFailed
    <3> QED
      BY <2>1, <3>1, <3>2
  <2> QED
    BY <2>2, <2>3
<1>5. /\ order' \in [paid : BOOLEAN, intent : Intents \cup {None},
                     account : Accounts \cup {None}, charge : Intents \cup {None}]
      /\ faults' \in 0..MaxFaults
  BY DEF RecordPaid, RecordFailed, TypeInv, TypeOK
<1> QED
  BY <1>2, <1>3, <1>4, <1>5, IdleShaped, OrderTyping DEF RecordPaid, RecordFailed

LEMMA CutTyping ==
  ASSUME TypeInv, NEW w \in Workers, Cut(w)
  PROVE  TypeInv'
<1>1. /\ task' \in [Workers -> Tasks] /\ \A v \in Workers : Shaped(task'[v])
      /\ task'[w] = Idle /\ \A v \in Workers \ {w} : task'[v] = task[v]
  BY IdleShaped, GoShaped DEF Cut, Done
<1>2. \A v \in Workers : Existing(task[v])'
  BY <1>1, IdleShaped DEF Existing, TypeInv, Cut, external
<1>3. faults' \in 0..MaxFaults /\ crossed' \in BOOLEAN
  BY FaultTyping DEF Cut, TypeInv, TypeOK
<1> QED
  BY <1>1, <1>2, <1>3 DEF Cut, TypeInv, TypeOK, rows, external

LEMMA NextTyping == TypeInv /\ [Next]_vars => TypeInv'
<1> SUFFICES ASSUME TypeInv, [Next]_vars PROVE TypeInv'
  OBVIOUS
<1>1. ASSUME NEW w \in Workers, Connecting(w) PROVE TypeInv'
  BY <1>1, ConnectTyping, SyncReadTyping, SaveAccountTyping, FlagTyping DEF Connecting
<1>2. ASSUME NEW w \in Workers, Paying(w) PROVE TypeInv'
  BY <1>2, CreateIntentTyping, RecordIntentTyping, ReadTyping, RecogniseTyping DEF Paying
<1>3. ASSUME NEW w \in Workers, Splitting(w) PROVE TypeInv'
  BY <1>3, BeginTransfersTyping, ReadCreatorTyping, StartPayoutTyping, TransferTyping,
     RecordTyping DEF Splitting
<1>4. CASE UNCHANGED vars
  BY <1>4 DEF vars, TypeInv, TypeOK, Shaped, Existing
<1> QED
  BY <1>1, <1>2, <1>3, <1>4, CutTyping, OutsideTyping DEF Next

\* Every reachable state is well typed, and whatever a request holds exists.
THEOREM Typed == Spec => []TypeInv
BY InitTyping, NextTyping, PTL DEF Spec

\* Every row, payment, transfer and request is of the shape Payouts declares.
THEOREM TypedRows == Spec => []TypeOK
<1>1. TypeInv => TypeOK
  BY DEF TypeInv
<1> QED
  BY <1>1, Typed, PTL

-------------------------------------------------------------------------------
(* Nobody is paid twice.                                                     *)

\* The ledger says p was paid; a request has p in hand as its payee.
Paid(p)     == ledger[p] # None /\ ledger[p].status = "paid"
InPayout(p) == \E w \in Workers : Busy(task[w]) /\ task[w].who = p

\* A transfer lies under the key of its account, and the request that is about
\* to record a payout has its transfer.
Keyed ==
  /\ \A k \in DOMAIN transfers : k = <<transfers[k].to, None>>
  /\ \A w \in Workers : At(w, "paid") =>
       \E k \in DOMAIN transfers :
         transfers[k].for = task[w].who /\ transfers[k].to = task[w].account
  /\ \A p \in Parties : Paid(p) =>
       \E k \in DOMAIN transfers :
         transfers[k].for = p /\ transfers[k].to = ledger[p].account

\* A recipient that did not change its account too early: whoever is about to
\* pay it uses the account it has; a transfer to another one is recorded and no
\* request still disputes it; and there is one transfer at most.
Kept(p) ==
  /\ \A w \in Workers :
       /\ Busy(task[w]) /\ task[w].who = p => task[w].account = party[p].account
       /\ \A r \in task[w].todo : r.who = p => r.account = party[p].account
  /\ \A k \in DOMAIN transfers : transfers[k].for = p =>
       transfers[k].to = party[p].account \/ (Paid(p) /\ ~InPayout(p))
  /\ \A k, l \in DOMAIN transfers : transfers[k].for = p /\ transfers[l].for = p => k = l

PaidInv == Keyed /\ \A p \in Parties \ lost : Kept(p)

LEMMA InitPaid == ASSUME Init PROVE PaidInv
<1>1. transfers = <<>> /\ DOMAIN transfers = {}
  BY DEF Init
<1>2. \A w \in Workers : task[w].pc = "idle" /\ task[w].todo = {}
  BY IdleShaped DEF Init
<1>3. \A p \in Parties : ledger[p] = None
  BY DEF Init
<1> QED
  BY <1>1, <1>2, <1>3 DEF PaidInv, Keyed, Kept, Paid, Busy, At

\* The request is not left with a payee in hand, nor the account of anyone, a
\* transfer or the ledger changed.
LEMMA QuietPaid ==
  ASSUME TypeInv, PaidInv, NEW w \in Workers, NEW t, Shaped(t), Go(w, t), ~Busy(t),
         \A r \in t.todo : r \in task[w].todo \/ r.account = party[r.who].account,
         \A p \in Parties : party'[p].account = party[p].account,
         UNCHANGED <<transfers, ledger, lost>>
  PROVE  PaidInv'
<1>1. task'[w] = t /\ \A v \in Workers \ {w} : task'[v] = task[v]
  BY GoShaped
<1>2. Keyed'
  BY <1>1 DEF Keyed, PaidInv, Paid, At, Busy
<1>3. ASSUME NEW p \in Parties, p \notin lost PROVE Kept(p)'
  <2>1. Kept(p)
    BY <1>3 DEF PaidInv
  <2>2. InPayout(p)' => InPayout(p)
    BY <1>1 DEF InPayout
  <2>4. \A v \in Workers :
          /\ Busy(task'[v]) /\ task'[v].who = p => task'[v].account = party'[p].account
          /\ \A r \in task'[v].todo : r.who = p => r.account = party'[p].account
    BY <1>1, <2>1 DEF Kept
  <2>5. \A k \in DOMAIN transfers : transfers[k].for = p =>
          transfers[k].to = party'[p].account \/ (Paid(p)' /\ ~InPayout(p)')
    BY <2>1, <2>2 DEF Kept, Paid
  <2>6. \A k, l \in DOMAIN transfers :
          transfers[k].for = p /\ transfers[l].for = p => k = l
    BY <2>1 DEF Kept
  <2> QED
    BY <2>4, <2>5, <2>6 DEF Kept
<1> QED
  BY <1>2, <1>3 DEF PaidInv

\* An account changes: nobody has it in hand and the ledger says paid if there
\* was a transfer, or the party is lost.
LEMMA ChangePaid ==
  ASSUME TypeInv, PaidInv, NEW q \in Parties, lost' = MayBeLost(q),
         task' \in [Workers -> Tasks],
         \A v \in Workers : ~Busy(task'[v]) \/ task'[v] = task[v],
         \A v \in Workers : task'[v].todo \subseteq task[v].todo,
         \A p \in Parties \ {q} : party'[p].account = party[p].account,
         UNCHANGED <<transfers, ledger>>
  PROVE  PaidInv'
<1>1. Keyed'
  BY DEF Keyed, PaidInv, Paid, At, Busy
<1>2. ASSUME NEW p \in Parties, p \notin lost' PROVE Kept(p)'
  <2>1. Kept(p) /\ (p = q => ~InFlight(q) /\ ~Unrecorded(q))
    BY <1>2 DEF PaidInv, MayBeLost
  <2>2. InPayout(p)' => InPayout(p)
    BY DEF InPayout
  <2>3. CASE p # q
    <3>1. party'[p].account = party[p].account
      BY <2>3
    <3> QED
      BY <2>1, <2>2, <3>1 DEF Kept, Paid
  <2>4. CASE p = q
    <3>1. \A v \in Workers : ~(Busy(task[v]) /\ task[v].who = p)
      BY <2>1, <2>4 DEF InFlight, Busy
    <3>2. \A v \in Workers : \A r \in task[v].todo : r.who # p
      BY <2>1, <2>4 DEF InFlight
    <3>3. \A k \in DOMAIN transfers : transfers[k].for = p => Paid(p)
      BY <2>1, <2>4 DEF Unrecorded, Paid
    <3>4. \A v \in Workers : ~(Busy(task'[v]) /\ task'[v].who = p)
      BY <3>1
    <3>5. ~InPayout(p)'
      BY <3>4 DEF InPayout
    <3>6. \A v \in Workers : \A r \in task'[v].todo : r.who # p
      BY <3>2
    <3> QED
      BY <2>1, <3>3, <3>4, <3>5, <3>6 DEF Kept, Paid
  <2> QED
    BY <2>3, <2>4
<1> QED
  BY <1>1, <1>2 DEF PaidInv

LEMMA SavePaid ==
  ASSUME TypeInv, PaidInv, NEW w \in Workers, SaveAccount(w)
  PROVE  PaidInv'
<1> DEFINE t == [task[w] EXCEPT !.pc = "reset"]
<1>1. task[w] \in Tasks /\ task[w].who \in Parties
  BY DEF SaveAccount, At, TypeInv, TypeOK, Shaped
<1>2. t \in Tasks /\ ~Busy(t) /\ t.todo = task[w].todo
  BY <1>1 DEF Tasks, Steps, Busy
<1>3. Idle \in Tasks /\ ~Busy(Idle) /\ Idle.todo = {}
  BY IdleShaped DEF Shaped, Busy
<1>4. Go(w, t) \/ Go(w, Idle)
  BY DEF SaveAccount, Done
<1> HIDE DEF t
<1>5. /\ task' \in [Workers -> Tasks]
      /\ \A v \in Workers : ~Busy(task'[v]) \/ task'[v] = task[v]
      /\ \A v \in Workers : task'[v].todo \subseteq task[v].todo
  BY <1>2, <1>3, <1>4 DEF Go, TypeInv, TypeOK
<1>6. \A p \in Parties \ {task[w].who} : party'[p].account = party[p].account
  BY <1>1 DEF SaveAccount, TypeInv, TypeOK
<1> QED
  BY <1>1, <1>5, <1>6, ChangePaid DEF SaveAccount, external

LEMMA DisconnectPaid ==
  ASSUME TypeInv, PaidInv, NEW p \in Parties, Disconnect(p)
  PROVE  PaidInv'
<1>1. \A q \in Parties \ {p} : party'[q].account = party[q].account
  BY DEF Disconnect, TypeInv, TypeOK
<1> QED
  BY <1>1, ChangePaid DEF Disconnect, external, TypeInv, TypeOK

\* A request takes the next payee in hand: the ledger does not say it was paid.
LEMMA TakePaid ==
  ASSUME TypeInv, PaidInv, NEW w \in Workers, NEW r \in task[w].todo, NEW t,
         Shaped(t), Go(w, t), t.pc = "transfer", t.who = r.who, t.account = r.account,
         t.todo \subseteq task[w].todo, ~Paid(r.who),
         UNCHANGED <<party, transfers, ledger, lost>>
  PROVE  PaidInv'
<1>1. task'[w] = t /\ \A v \in Workers \ {w} : task'[v] = task[v]
  BY GoShaped
<1>2. Keyed'
  BY <1>1 DEF Keyed, PaidInv, Paid, At
<1>3. ASSUME NEW p \in Parties, p \notin lost PROVE Kept(p)'
  <2>1. Kept(p)
    BY <1>3 DEF PaidInv
  <2>2. \A v \in Workers :
          /\ Busy(task'[v]) /\ task'[v].who = p => task'[v].account = party[p].account
          /\ \A q \in task'[v].todo : q.who = p => q.account = party[p].account
    BY <1>1, <2>1 DEF Kept
  <2>3. p # r.who => (InPayout(p)' => InPayout(p))
    BY <1>1 DEF InPayout
  <2>4. \A k \in DOMAIN transfers : transfers[k].for = p =>
          transfers[k].to = party[p].account \/ (Paid(p) /\ ~InPayout(p)')
    BY <2>1, <2>3 DEF Kept
  <2> QED
    BY <2>1, <2>2, <2>4 DEF Kept, Paid
<1> QED
  BY <1>2, <1>3 DEF PaidInv

LEMMA StartPaid ==
  ASSUME TypeInv, PaidInv, NEW w \in Workers, StartPayout(w)
  PROVE  PaidInv'
<1> DEFINE s(r, pc) == [task[w] EXCEPT !.who = r.who, !.account = r.account,
                                       !.todo = @ \ {r}, !.pc = pc]
<1>1. PICK r \in task[w].todo, pc \in {"transfer", "recipients"} :
        /\ r \in Payees /\ Shaped(s(r, pc))
        /\ Go(w, s(r, pc)) \/ Go(w, Idle)
        /\ pc = "transfer" => ledger[r.who] = None \/ ledger[r.who].status # "paid"
  BY StartPayoutStep
<1>2. task[w] \in Tasks
  BY DEF TypeInv, TypeOK
<1> DEFINE t == s(r, pc)
<1>3. /\ Shaped(t) /\ t.pc = pc /\ t.who = r.who /\ t.account = r.account
      /\ t.todo \subseteq task[w].todo
  BY <1>1, <1>2 DEF Tasks
<1>4. UNCHANGED <<party, transfers, ledger, lost>>
  BY DEF StartPayout, rows, external, history
<1>5. Go(w, t) \/ Go(w, Idle)
  BY <1>1
<1> HIDE DEF t
<1>6. CASE Go(w, Idle)
  BY <1>4, <1>6, IdleShaped, QuietPaid DEF Busy
<1>7. CASE Go(w, t) /\ pc = "transfer"
  BY <1>1, <1>3, <1>4, <1>7, TakePaid DEF Paid
<1>8. CASE Go(w, t) /\ pc = "recipients"
  <2>1. ~Busy(t) /\ \A q \in t.todo : q \in task[w].todo
    BY <1>3, <1>8 DEF Busy
  <2> QED
    BY <1>3, <1>4, <1>8, <2>1, QuietPaid
<1> QED
  BY <1>5, <1>6, <1>7, <1>8

\* The transfer of the payee in hand is the only one it has, unless its party is
\* lost: an earlier one went to the same account, so it lies under the same key.
LEMMA TransferPaid ==
  ASSUME TypeInv, PaidInv, NEW w \in Workers, Transfer(w)
  PROVE  PaidInv'
<1> DEFINE q == task[w].who
           a == task[w].account
           t(pc) == [task[w] EXCEPT !.pc = pc]
<1>1. PICK pc \in {"paid", "failed"} :
        /\ Go(w, t(pc))
        /\ pc = "paid" => /\ Key(w) \in DOMAIN transfers' /\ transfers'[Key(w)].for = q
                          /\ transfers'[Key(w)].to = a
  BY TransferStep
<1>2. task[w] \in Tasks /\ q \in Parties /\ a \in Accounts /\ Busy(task[w])
  BY TransferStep DEF TypeInv, TypeOK, Transfer, At, Busy
<1>3. /\ task' = [task EXCEPT ![w] = t(pc)] /\ t(pc).pc = pc /\ t(pc).who = q
      /\ t(pc).account = a /\ t(pc).todo = task[w].todo
  BY <1>1, <1>2 DEF Go, Tasks
<1> HIDE DEF t
<1>4. task'[w] = t(pc) /\ \A v \in Workers \ {w} : task'[v] = task[v]
  BY <1>3 DEF TypeInv, TypeOK
<1>5. \A v \in Workers : /\ Busy(task'[v]) = Busy(task[v]) /\ task'[v].who = task[v].who
                         /\ task'[v].account = task[v].account
                         /\ task'[v].todo = task[v].todo
  BY <1>2, <1>3, <1>4 DEF Busy
<1>6. UNCHANGED <<party, ledger, lost>>
  BY DEF Transfer, rows, history
<1>7. /\ DOMAIN transfers \subseteq DOMAIN transfers'
      /\ \A k \in DOMAIN transfers : transfers'[k] = transfers[k]
      /\ \A k \in DOMAIN transfers' \ DOMAIN transfers :
           k = Key(w) /\ transfers'[k].for = q /\ transfers'[k].to = a
  <2> DEFINE fresh == [for |-> q, to |-> a, from |-> task[w].intent]
  <2>1. fresh.for = q /\ fresh.to = a
    OBVIOUS
  <2>2. \/ UNCHANGED transfers
        \/ /\ DOMAIN transfers' = DOMAIN transfers \cup {Key(w)}
           /\ \A k \in DOMAIN transfers : transfers'[k] = transfers[k]
           /\ transfers'[Key(w)] = fresh
    BY TransferStep
  <2> HIDE DEF fresh
  <2> QED
    BY <2>1, <2>2
<1>8. Keyed'
  <2>1. \A k \in DOMAIN transfers' : k = <<transfers'[k].to, None>>
    BY <1>7 DEF PaidInv, Keyed, Key
  <2>2. \A v \in Workers : task'[v].pc = "paid" =>
          \E k \in DOMAIN transfers' :
            transfers'[k].for = task'[v].who /\ transfers'[k].to = task'[v].account
    <3>1. ASSUME NEW v \in Workers \ {w}, task[v].pc = "paid"
          PROVE  \E k \in DOMAIN transfers' :
                   transfers'[k].for = task[v].who /\ transfers'[k].to = task[v].account
      BY <3>1, <1>7 DEF PaidInv, Keyed, At
    <3>2. ASSUME pc = "paid"
          PROVE  \E k \in DOMAIN transfers' : transfers'[k].for = q /\ transfers'[k].to = a
      BY <3>2, <1>1
    <3> QED
      BY <3>1, <3>2, <1>3, <1>4
  <2>3. \A p \in Parties : Paid(p) =>
          \E k \in DOMAIN transfers' :
            transfers'[k].for = p /\ transfers'[k].to = ledger[p].account
    BY <1>7 DEF PaidInv, Keyed
  <2> QED
    BY <2>1, <2>2, <2>3, <1>6 DEF Keyed, At, Paid
<1>9. ASSUME NEW p \in Parties, p \notin lost PROVE Kept(p)'
  <2>1. Kept(p)
    BY <1>9 DEF PaidInv
  <2>2. InPayout(p)' = InPayout(p) /\ Paid(p)' = Paid(p)
    BY <1>5, <1>6 DEF InPayout, Paid
  <2>3. p = q => a = party[p].account
    BY <1>2, <2>1 DEF Kept
  <2>4. \A k \in DOMAIN transfers' : transfers'[k].for = p =>
          transfers'[k].to = party[p].account \/ (Paid(p) /\ ~InPayout(p))
    BY <1>7, <2>1, <2>3 DEF Kept
  <2>5. p = q => InPayout(p)
    BY <1>2 DEF InPayout
  <2>6. p = q => \A k \in DOMAIN transfers : transfers[k].for = p => k = Key(w)
    BY <2>1, <2>3, <2>5 DEF Kept, PaidInv, Keyed, Key
  <2>7. \A k, l \in DOMAIN transfers' :
          transfers'[k].for = p /\ transfers'[l].for = p => k = l
    BY <1>7, <2>1, <2>6 DEF Kept
  <2> QED
    BY <1>5, <1>6, <2>1, <2>2, <2>4, <2>7 DEF Kept
<1> QED
  BY <1>6, <1>8, <1>9 DEF PaidInv

LEMMA RecordStepPaid ==
  ASSUME TypeInv, PaidInv, NEW w \in Workers, RecordPaid(w) \/ RecordFailed(w)
  PROVE  PaidInv'
<1>0. PICK q \in Parties : q = task[w].who
  BY DEF RecordPaid, RecordFailed, At, TypeInv, Shaped, Busy
<1>1. /\ task[w] \in Tasks /\ task[w].who = q /\ task[w].account \in Accounts
      /\ Busy(task[w])
  BY <1>0 DEF RecordPaid, RecordFailed, At, TypeInv, TypeOK, Shaped, Busy
<1>2. \E t : Go(w, t) /\ ~Busy(t) /\ t.todo \subseteq task[w].todo
  <2> DEFINE t == [task[w] EXCEPT !.pc = "recipients"]
  <2>1. ~Busy(t) /\ t.todo = task[w].todo
    BY <1>1 DEF Tasks, Busy
  <2>2. Go(w, t) \/ Go(w, Idle)
    BY DEF RecordPaid, RecordFailed, NextPayee
  <2> HIDE DEF t
  <2> QED
    BY <2>1, <2>2, IdleShaped DEF Busy
<1>3. /\ ~Busy(task'[w]) /\ task'[w].todo \subseteq task[w].todo
      /\ \A v \in Workers \ {w} : task'[v] = task[v]
  BY <1>2 DEF Go, TypeInv, TypeOK
<1>4. UNCHANGED <<party, transfers, lost>>
  BY DEF RecordPaid, RecordFailed, external, history
<1>5. \A p \in Parties \ {q} : ledger'[p] = ledger[p]
  BY <1>1 DEF RecordPaid, RecordFailed, TypeInv, TypeOK
<1>6. Paid(q)' => RecordPaid(w) /\ ledger'[q].account = task[w].account
  <2>1. ASSUME RecordFailed(w) PROVE ~Paid(q)'
    <3> DEFINE row == [status |-> "failed", account |->
                         IF ledger[q] = None THEN task[w].account ELSE ledger[q].account]
    <3>1. ledger' = [ledger EXCEPT ![q] = row] /\ row.status = "failed"
      BY <1>1, <2>1 DEF RecordFailed, TypeInv, TypeOK
    <3> HIDE DEF row
    <3>2. ledger'[q] = row
      BY <1>1, <3>1 DEF TypeInv, TypeOK
    <3>3. ledger'[q].status = "failed"
      BY <3>1, <3>2
    <3> QED
      BY <3>3 DEF Paid
  <2>2. ASSUME RecordPaid(w) PROVE ledger'[q].account = task[w].account
    BY <1>1, <2>2 DEF RecordPaid, TypeInv, TypeOK
  <2> QED
    BY <2>1, <2>2
<1>7. Keyed'
  <2>1. \A v \in Workers : task'[v].pc = "paid" =>
          \E k \in DOMAIN transfers :
            transfers[k].for = task'[v].who /\ transfers[k].to = task'[v].account
    BY <1>3 DEF PaidInv, Keyed, At, Busy
  <2>2. \A p \in Parties : Paid(p)' =>
          \E k \in DOMAIN transfers :
            transfers[k].for = p /\ transfers[k].to = ledger'[p].account
    <3>1. ASSUME NEW p \in Parties \ {q}, Paid(p)'
          PROVE  \E k \in DOMAIN transfers :
                   transfers[k].for = p /\ transfers[k].to = ledger'[p].account
      <4>1. Paid(p) /\ ledger'[p] = ledger[p]
        BY <1>5, <3>1 DEF Paid
      <4> QED
        BY <4>1 DEF PaidInv, Keyed
    <3>2. ASSUME Paid(q)'
          PROVE  \E k \in DOMAIN transfers :
                   transfers[k].for = q /\ transfers[k].to = ledger'[q].account
      <4>1. At(w, "paid") /\ ledger'[q].account = task[w].account
        BY <1>6, <3>2 DEF RecordPaid
      <4> QED
        BY <1>1, <4>1 DEF PaidInv, Keyed
    <3> QED
      BY <3>1, <3>2 DEF Paid
  <2> QED
    BY <1>4, <2>1, <2>2 DEF PaidInv, Keyed, At
<1>8. ASSUME NEW p \in Parties, p \notin lost PROVE Kept(p)'
  <2>1. Kept(p)
    BY <1>8 DEF PaidInv
  <2>2. InPayout(p)' => InPayout(p)
    BY <1>3 DEF InPayout
  <2>3. p = q => InPayout(p)
    BY <1>1 DEF InPayout
  <2>4. \A k \in DOMAIN transfers : transfers[k].for = p =>
          transfers[k].to = party[p].account \/ (Paid(p)' /\ ~InPayout(p)')
    BY <1>5, <2>1, <2>2, <2>3 DEF Kept, Paid
  <2>5. \A v \in Workers :
          /\ Busy(task'[v]) /\ task'[v].who = p => task'[v].account = party[p].account
          /\ \A r \in task'[v].todo : r.who = p => r.account = party[p].account
    BY <1>3, <2>1 DEF Kept
  <2> QED
    BY <1>4, <2>1, <2>4, <2>5 DEF Kept
<1> QED
  BY <1>4, <1>7, <1>8 DEF PaidInv

\* The actions that leave transfers, ledger and accounts alone.
LEMMA OtherPaid ==
  ASSUME TypeInv, PaidInv, NEW w \in Workers,
         \/ \E p \in Parties : Connect(w, p) \/ SyncRead(w, p)
         \/ ResetFlags(w) \/ SyncWrite(w) \/ Paying(w) \/ Cut(w)
         \/ BeginTransfers(w) \/ ReadCreator(w)
  PROVE  PaidInv'
<1>1. Idle \in Tasks /\ ~Busy(Idle) /\ Idle.todo = {} /\ task \in [Workers -> Tasks]
  BY IdleShaped DEF Shaped, Busy, TypeInv, TypeOK
<1> DEFINE Calm(t) == /\ Go(w, t) /\ ~Busy(t)
                      /\ \A r \in t.todo : r \in task[w].todo \/ r.account = party[r.who].account
<1>2. \E t : Calm(t)
  <2>1. ASSUME NEW p \in Parties, Connect(w, p) PROVE \E t : Calm(t)
    <3>1. PICK a :
            Go(w, [Idle EXCEPT !.pc = "save", !.who = p, !.account = a, !.kind = WantedKind(p),
                          !.enabled = party[p].account # None])
      BY <2>1 DEF Connect
    <3> DEFINE t == [Idle EXCEPT !.pc = "save", !.who = p, !.account = a, !.kind = WantedKind(p),
                          !.enabled = party[p].account # None]
    <3>2. ~Busy(t) /\ t.todo = {}
      BY <1>1 DEF Tasks, Busy
    <3>3. Go(w, t)
      BY <3>1
    <3> HIDE DEF t
    <3> QED
      BY <3>2, <3>3
  <2>2. ASSUME NEW p \in Parties, SyncRead(w, p) PROVE \E t : Calm(t)
    <3>1. PICK now :
            Go(w, [Idle EXCEPT !.pc = "sync", !.who = p, !.enabled = now,
                          !.account = party[p].account])
      BY <2>2 DEF SyncRead
    <3> DEFINE t == [Idle EXCEPT !.pc = "sync", !.who = p, !.enabled = now,
                          !.account = party[p].account]
    <3>2. ~Busy(t) /\ t.todo = {}
      BY <1>1 DEF Tasks, Busy
    <3>3. Go(w, t)
      BY <3>1
    <3> HIDE DEF t
    <3> QED
      BY <3>2, <3>3
  <2>3. ASSUME CreateIntent(w) PROVE \E t : Calm(t)
    <3>1. PICK i, account :
            Go(w, [Idle EXCEPT !.pc = "record", !.intent = i, !.account = account])
      BY <2>3 DEF CreateIntent
    <3> DEFINE t == [Idle EXCEPT !.pc = "record", !.intent = i, !.account = account]
    <3>2. ~Busy(t) /\ t.todo = {}
      BY <1>1 DEF Tasks, Busy
    <3>3. Go(w, t)
      BY <3>1
    <3> HIDE DEF t
    <3> QED
      BY <3>2, <3>3
  <2>4. ASSUME NEW i \in Intents, Deliver(w, i) PROVE \E t : Calm(t)
    <3>1. Go(w, [Idle EXCEPT !.pc = "mark", !.intent = i, !.rethrow = TRUE])
      BY <2>4 DEF Deliver
    <3> DEFINE t == [Idle EXCEPT !.pc = "mark", !.intent = i, !.rethrow = TRUE]
    <3>2. ~Busy(t) /\ t.todo = {}
      BY <1>1 DEF Tasks, Busy
    <3>3. Go(w, t)
      BY <3>1
    <3> HIDE DEF t
    <3> QED
      BY <3>2, <3>3
  <2>5. ASSUME NEW i, Go(w, [Idle EXCEPT !.pc = "mark", !.intent = i]) PROVE \E t : Calm(t)
    <3>1. Go(w, [Idle EXCEPT !.pc = "mark", !.intent = i])
      BY <2>5 DEF Reconcile
    <3> DEFINE t == [Idle EXCEPT !.pc = "mark", !.intent = i]
    <3>2. ~Busy(t) /\ t.todo = {}
      BY <1>1 DEF Tasks, Busy
    <3>3. Go(w, t)
      BY <3>1
    <3> HIDE DEF t
    <3> QED
      BY <3>2, <3>3
  <2>6. ASSUME Go(w, [Idle EXCEPT !.pc = "transfers"]) PROVE \E t : Calm(t)
    <3>1. Go(w, [Idle EXCEPT !.pc = "transfers"])
      BY <2>6 DEF Reconcile
    <3> DEFINE t == [Idle EXCEPT !.pc = "transfers"]
    <3>2. ~Busy(t) /\ t.todo = {}
      BY <1>1 DEF Tasks, Busy
    <3>3. Go(w, t)
      BY <3>1
    <3> HIDE DEF t
    <3> QED
      BY <3>2, <3>3
  <2>7. ASSUME NEW pc \in {"capture", "transfers"}, Go(w, [task[w] EXCEPT !.pc = pc])
        PROVE  \E t : Calm(t)
    <3> DEFINE t == [task[w] EXCEPT !.pc = pc]
    <3>1. ~Busy(t) /\ t.todo = task[w].todo
      BY <1>1 DEF Tasks, Busy
    <3>2. Go(w, t)
      BY <2>7
    <3> HIDE DEF t
    <3> QED
      BY <3>1, <3>2
  <2>8. ASSUME NEW pc \in {"recipients", "creator"}, NEW i, NEW S \in SUBSET Parties,
               Go(w, [task[w] EXCEPT !.pc = pc, !.intent = i, !.todo = {Payee(p) : p \in S}])
        PROVE  \E t : Calm(t)
    <3> DEFINE t == [task[w] EXCEPT !.pc = pc, !.intent = i, !.todo = {Payee(p) : p \in S}]
    <3>1. ~Busy(t) /\ \A r \in t.todo : r.account = party[r.who].account
      BY <1>1 DEF Tasks, Busy, Payee
    <3>2. Go(w, t)
      BY <2>8
    <3> HIDE DEF t
    <3> QED
      BY <3>1, <3>2
  <2>9. ASSUME ResetFlags(w) \/ SyncWrite(w) \/ RecordIntent(w) \/ Cut(w) PROVE \E t : Calm(t)
    BY <1>1, <2>9 DEF ResetFlags, SyncWrite, RecordIntent, Cut, Done
  <2>10. ASSUME Reconcile(w) PROVE \E t : Calm(t)
    BY <2>5, <2>6, <2>10 DEF Reconcile
  <2>11. ASSUME MarkPaid(w) \/ Capture(w) PROVE \E t : Calm(t)
    BY <2>7, <2>11 DEF MarkPaid, Capture
  <2>12. ASSUME BeginTransfers(w) PROVE \E t : Calm(t)
    <3> DEFINE S == {q \in fulfillers \cap Providers : party[q].account # None}
    <3>1. \/ Go(w, [task[w] EXCEPT !.pc = "recipients", !.intent = ChargeOf,
                                   !.todo = {Payee(p) : p \in S}])
          \/ Go(w, Idle)
      BY <2>12 DEF BeginTransfers, Done
    <3>2. S \in SUBSET Parties
      BY DEF Parties
    <3> HIDE DEF S
    <3> QED
      BY <1>1, <2>8, <3>1, <3>2
  <2>13. ASSUME ReadCreator(w) PROVE \E t : Calm(t)
    <3> DEFINE t == [task[w] EXCEPT !.pc = "creator", !.todo = {Payee(Creator)}]
    <3>1. Go(w, t) \/ Go(w, Idle)
      BY <2>13 DEF ReadCreator, Done
    <3>2. ~Busy(t) /\ \A r \in t.todo : r.account = party[r.who].account
      BY <1>1 DEF Tasks, Busy, Payee
    <3> HIDE DEF t
    <3> QED
      BY <1>1, <3>1, <3>2
  <2> QED
    BY <2>1, <2>2, <2>3, <2>4, <2>9, <2>10, <2>11, <2>12, <2>13 DEF Paying
<1>3. TypeInv'
  BY NextTyping DEF Next, Connecting, Splitting
<1>4. PICK t : Calm(t)
  BY <1>2
<1>5. Shaped(t)
  BY <1>1, <1>3, <1>4 DEF Go, TypeInv, Shaped
<1>6. \A p \in Parties : party'[p].account = party[p].account
  <2>1. ASSUME ResetFlags(w) \/ SyncWrite(w)
        PROVE  \A p \in Parties : party'[p].account = party[p].account
    <3>1. party \in [Parties -> PartyRows]
      BY DEF TypeInv, TypeOK
    <3>2. \E b : party' = [party EXCEPT ![task[w].who].enabled = b]
      BY <2>1 DEF ResetFlags, SyncWrite
    <3> QED
      BY <3>1, <3>2 DEF PartyRows
  <2>2. ASSUME ~(ResetFlags(w) \/ SyncWrite(w)) PROVE UNCHANGED party
    BY <2>2 DEF Connect, SyncRead, Paying, CreateIntent, RecordIntent, Deliver, Reconcile,
       MarkPaid, Capture, Cut, BeginTransfers, ReadCreator, rows
  <2> QED
    BY <2>1, <2>2
<1>7. UNCHANGED <<transfers, ledger, lost>>
  BY DEF Connect, SyncRead, ResetFlags, SyncWrite, Paying, CreateIntent, RecordIntent,
     Deliver, Reconcile, MarkPaid, Capture, Cut, BeginTransfers, ReadCreator, rows,
     external, history
<1> HIDE DEF Calm
<1> QED
  BY <1>4, <1>5, <1>6, <1>7, QuietPaid DEF Calm

LEMMA NextPaid == TypeInv /\ PaidInv /\ [Next]_vars => PaidInv'
<1> SUFFICES ASSUME TypeInv, PaidInv, [Next]_vars PROVE PaidInv'
  OBVIOUS
<1>1. ASSUME NEW w \in Workers, Connecting(w) \/ Paying(w) \/ Cut(w) PROVE PaidInv'
  BY <1>1, SavePaid, OtherPaid DEF Connecting
<1>2. ASSUME NEW w \in Workers, Splitting(w) PROVE PaidInv'
  BY <1>2, OtherPaid, StartPaid, TransferPaid, RecordStepPaid DEF Splitting
<1>3. ASSUME UNCHANGED <<party, transfers, ledger, task, lost>> PROVE PaidInv'
  BY <1>3 DEF PaidInv, Keyed, Kept, Paid, InPayout, At
<1>4. \/ FlipStore \/ \E a \in Accounts : Onboard(a)
      \/ \E i \in Intents : Charge(i) \/ Settle(i)
      \/ UNCHANGED vars
      => UNCHANGED <<party, transfers, ledger, task, lost>>
  BY DEF FlipStore, Onboard, Charge, Settle, vars, rows, external, history
<1> QED
  BY <1>1, <1>2, <1>3, <1>4, DisconnectPaid DEF Next

\* A set without two different elements has at most one.
LEMMA AtMostOne ==
  ASSUME NEW S, \A x, y \in S : x = y
  PROVE  Cardinality(S) <= 1
<1>1. CASE S = {}
  BY <1>1, FS_EmptySet
<1>2. CASE S # {}
  <2>1. PICK x \in S : S = {x}
    BY <1>2
  <2> QED
    BY <2>1, FS_Singleton
<1> QED
  BY <1>1, <1>2

\* Nobody is paid twice for an order, whoever settles it and however often, and
\* a row of the ledger that says paid is a transfer that was made.
THEOREM NobodyPaidTwice == Spec => []PaidOnce
<1>1. ASSUME PaidInv, NEW p \in Parties
      PROVE  /\ p \notin lost => Cardinality(TransfersFor(p)) <= 1
             /\ \A k, l \in TransfersFor(p) : k # l => transfers[k].to # transfers[l].to
             /\ ledger[p] # None /\ ledger[p].status = "paid" =>
                  \E k \in TransfersFor(p) : transfers[k].to = ledger[p].account
  <2>1. p \notin lost => \A k, l \in TransfersFor(p) : k = l
    BY <1>1 DEF PaidInv, Kept, TransfersFor
  <2>2. p \notin lost => Cardinality(TransfersFor(p)) <= 1
    BY <2>1, AtMostOne
  <2>3. \A k, l \in TransfersFor(p) : k # l => transfers[k].to # transfers[l].to
    BY <1>1 DEF PaidInv, Keyed, TransfersFor
  <2> QED
    BY <1>1, <2>2, <2>3 DEF PaidInv, Keyed, Paid, TransfersFor
<1>2. PaidInv => PaidOnce
  BY <1>1 DEF PaidOnce
<1> QED
  BY <1>2, InitPaid, NextPaid, InitTyping, NextTyping, PTL DEF Spec

-------------------------------------------------------------------------------
(* Flags and charges.                                                        *)

\* What a sync read stays true; a party without an account is not enabled.
FlagInv ==
  /\ FlagsDescribeAccount
  /\ \A w \in Workers : At(w, "sync") /\ task[w].enabled => stripe[task[w].account].enabled
  /\ \A p \in Parties : party[p].account = None /\ ~crossed => ~party[p].enabled

LEMMA InitFlags == ASSUME Init PROVE FlagInv
<1>1. \A w \in Workers : task[w].pc = "idle"
  BY IdleShaped DEF Init
<1>2. \A p \in Parties : party[p].account \in Accounts
  BY DEF Init
<1>4. \A a \in Accounts : stripe[a] # None => stripe[a].enabled
  <2> DEFINE kindOf(p) == IF independent /\ p = Creator THEN "standard" ELSE "express"
  <2>1. \A a \in Accounts : \/ stripe[a] = None
                            \/ \E k : stripe[a] = [kind |-> k, enabled |-> TRUE]
    <3>1. PICK first \in [Parties -> Accounts] :
            stripe = [a \in Accounts |-> IF {p \in Parties : first[p] = a} = {} THEN None
              ELSE [kind |-> kindOf(CHOOSE p \in {q \in Parties : first[q] = a} : TRUE),
                    enabled |-> TRUE]]
      BY DEF Init
    <3> QED
      BY <3>1
  <2>2. ASSUME NEW a \in Accounts, stripe[a] # None PROVE stripe[a].enabled
    <3>1. PICK k : stripe[a] = [kind |-> k, enabled |-> TRUE]
      BY <2>1, <2>2
    <3>2. stripe[a].enabled = TRUE
      BY <3>1
    <3> QED
      BY <3>2
  <2> QED
    BY <2>2
<1>5. \A p \in Parties : stripe[party[p].account] # None
  BY <1>2, NoneIsNothing, InitTyping DEF TypeInv
<1> QED
  BY <1>1, <1>2, <1>4, <1>5, NoneIsNothing DEF FlagInv, FlagsDescribeAccount, At

\* The requests but w go on as they were, w neither syncs nor stops to reset;
\* no account is connected or changed at Stripe, no row of a party changes.
LEMMA QuietFlags ==
  ASSUME TypeInv, FlagInv, NEW w \in Workers,
         \A v \in Workers \ {w} : task'[v] = task[v],
         ~At(w, "reset") \/ crossed', ~At(w, "sync")',
         UNCHANGED <<party, stripe>>, crossed => crossed', crossed \in BOOLEAN
  PROVE  FlagInv'
<1>1. \A p \in Parties : Resetting(p) => Resetting(p)' \/ crossed'
  BY DEF Resetting, At
<1> QED
  BY <1>1 DEF FlagInv, FlagsDescribeAccount, At

LEMMA ConnectFlags ==
  ASSUME TypeInv, FlagInv, NEW w \in Workers, NEW p \in Parties, Connect(w, p)
  PROVE  FlagInv'
<1>1. PICK a \in Accounts :
        /\ stripe[a] = None
        /\ stripe' = [stripe EXCEPT ![a] = [kind |-> WantedKind(p), enabled |-> FALSE]]
  BY DEF Connect
<1>2. \A b \in Accounts : stripe[b] # None => stripe'[b] = stripe[b]
  BY <1>1 DEF TypeInv, TypeOK
<1>3. \E t : Go(w, t) /\ t.pc = "save"
  <2>1. PICK b : Go(w, [Idle EXCEPT !.pc = "save", !.who = p, !.account = b,
                          !.kind = WantedKind(p), !.enabled = party[p].account # None])
    BY DEF Connect
  <2>2. Idle \in Tasks
    BY IdleShaped DEF Shaped
  <2> DEFINE t == [Idle EXCEPT !.pc = "save", !.who = p, !.account = b,
                     !.kind = WantedKind(p), !.enabled = party[p].account # None]
  <2>3. Go(w, t) /\ t.pc = "save"
    BY <2>1, <2>2 DEF Tasks
  <2> QED
    BY <2>3
<1>4. /\ \A v \in Workers \ {w} : task'[v] = task[v]
      /\ task'[w].pc = "save" /\ task[w].pc = "idle"
  BY <1>3 DEF Go, Connect, Free, TypeInv, TypeOK
<1>5. UNCHANGED <<party, crossed>>
  BY DEF Connect, rows, history
<1>6. \A q \in Parties : Resetting(q)' = Resetting(q)
  BY <1>4 DEF Resetting, At
<1>7. \A v \in Workers : At(v, "sync")' => /\ At(v, "sync") /\ task'[v] = task[v]
                                          /\ stripe'[task[v].account] = stripe[task[v].account]
  BY <1>2, <1>4 DEF At, TypeInv, Shaped, Existing
<1>8. \A q \in Parties : party[q].account # None =>
        stripe'[party[q].account] = stripe[party[q].account]
  BY <1>2 DEF TypeInv, TypeOK, PartyRows
<1> QED
  BY <1>5, <1>6, <1>7, <1>8 DEF FlagInv, FlagsDescribeAccount

LEMMA SyncReadFlags ==
  ASSUME TypeInv, FlagInv, NEW w \in Workers, NEW p \in Parties, SyncRead(w, p)
  PROVE  FlagInv'
<1>1. PICK now \in {stripe[party[p].account].enabled, FALSE} :
        Go(w, [Idle EXCEPT !.pc = "sync", !.who = p, !.enabled = now,
                           !.account = party[p].account])
  BY DEF SyncRead
<1> DEFINE t == [Idle EXCEPT !.pc = "sync", !.who = p, !.enabled = now,
                             !.account = party[p].account]
<1>2. Idle \in Tasks
  BY IdleShaped DEF Shaped
<1>3. Go(w, t) /\ t.pc = "sync" /\ t.enabled = now /\ t.account = party[p].account
  BY <1>1, <1>2 DEF Tasks
<1> HIDE DEF t
<1>4. task[w].pc = "idle" /\ task'[w] = t /\ \A v \in Workers \ {w} : task'[v] = task[v]
  BY <1>3 DEF Go, SyncRead, Free, TypeInv, TypeOK
<1>5. UNCHANGED <<party, stripe, crossed>>
  BY DEF SyncRead, rows, external, history
<1>6. \A q \in Parties : Resetting(q)' = Resetting(q)
  BY <1>3, <1>4 DEF Resetting, At
<1>7. now => stripe[party[p].account].enabled
  BY <1>1
<1>8. \A v \in Workers : At(v, "sync")' /\ task'[v].enabled => stripe[task'[v].account].enabled
  BY <1>3, <1>4, <1>7 DEF At, FlagInv
<1> QED
  BY <1>5, <1>6, <1>8 DEF FlagInv, FlagsDescribeAccount

\* The account at Stripe is saved: flags of an old one wait for their reset, or
\* there was no account, hence no flag.
LEMMA SaveFlags ==
  ASSUME TypeInv, FlagInv, NEW w \in Workers, SaveAccount(w)
  PROVE  FlagInv'
<1>1. PICK p \in Parties : task[w].who = p
  BY DEF SaveAccount, At, TypeInv, Shaped
<1>2. task[w] \in Tasks /\ task[w].account \in Accounts /\ party \in [Parties -> PartyRows]
  BY DEF SaveAccount, At, TypeInv, TypeOK, Shaped
<1>3. /\ party'[p].account = task[w].account /\ party'[p].enabled = party[p].enabled
      /\ \A q \in Parties \ {p} : party'[q] = party[q]
  BY <1>1, <1>2 DEF SaveAccount, PartyRows
<1>4. /\ task'[w].pc = IF task[w].enabled THEN "reset" ELSE "idle"
      /\ task[w].enabled => task'[w].who = p
      /\ \A v \in Workers \ {w} : task'[v] = task[v]
  BY <1>1, <1>2, IdleShaped DEF SaveAccount, Done, Go, TypeInv, TypeOK, Tasks
<1>5. /\ UNCHANGED stripe
      /\ crossed' = (crossed \/ (~task[w].enabled /\ party[p].account # None))
  BY <1>1 DEF SaveAccount, Overtaken, external
<1>6. ~crossed' => ~crossed
  BY <1>5
<1>7. \A q \in Parties : Resetting(q) => Resetting(q)'
  BY <1>4 DEF Resetting, At, SaveAccount
<1>8. ASSUME NEW q \in Parties, party'[q].account # None, party'[q].enabled, ~crossed',
             ~Resetting(q)'
      PROVE  stripe[party'[q].account].enabled
  <2>1. CASE q # p
    BY <1>3, <1>5, <1>7, <1>8, <1>6, <2>1 DEF FlagInv, FlagsDescribeAccount
  <2>2. CASE q = p
    <3>1. ~task[w].enabled
      BY <1>4, <1>8, <2>2 DEF Resetting, At
    <3>2. party[p].account = None /\ ~crossed
      BY <1>5, <1>8, <3>1
    <3>3. ~party[p].enabled
      BY <3>2 DEF FlagInv
    <3> QED
      BY <1>3, <1>8, <2>2, <3>3
  <2> QED
    BY <2>1, <2>2
<1>9. \A q \in Parties : party'[q].account = None /\ ~crossed' => ~party'[q].enabled
  <2>1. party'[p].account # None
    BY <1>2, <1>3, NoneIsNothing
  <2> QED
    BY <1>3, <1>6, <2>1 DEF FlagInv
<1>10. \A v \in Workers : At(v, "sync")' /\ task'[v].enabled => stripe[task'[v].account].enabled
  BY <1>4 DEF At, FlagInv
<1> QED
  BY <1>5, <1>8, <1>9, <1>10 DEF FlagInv, FlagsDescribeAccount

\* A flag is written or reset: it describes the account it was read for, which
\* is still the account of the party unless the step crossed a change.
LEMMA WriteFlags ==
  ASSUME TypeInv, FlagInv, NEW w \in Workers, ResetFlags(w) \/ SyncWrite(w)
  PROVE  FlagInv'
<1>1. PICK p \in Parties : task[w].who = p
  BY DEF ResetFlags, SyncWrite, At, TypeInv, Shaped
<1>2. /\ task[w] \in Tasks /\ task[w].account \in Accounts
      /\ party \in [Parties -> PartyRows]
  BY DEF ResetFlags, SyncWrite, At, TypeInv, TypeOK, Shaped
<1>3. /\ party'[p].account = party[p].account
      /\ party'[p].enabled = (IF SyncWrite(w) THEN task[w].enabled ELSE FALSE)
      /\ \A q \in Parties \ {p} : party'[q] = party[q]
  BY <1>1, <1>2, ZenonT(40) DEF ResetFlags, SyncWrite, At, PartyRows
<1>4. task'[w].pc = "idle" /\ \A v \in Workers \ {w} : task'[v] = task[v]
  BY IdleShaped DEF ResetFlags, SyncWrite, Done, Go, TypeInv, TypeOK
<1>5. UNCHANGED stripe /\ (~crossed' => ~crossed)
  <2>1. UNCHANGED stripe
    BY DEF ResetFlags, SyncWrite, external
  <2>2. ASSUME ResetFlags(w) PROVE UNCHANGED crossed
    BY <2>2 DEF ResetFlags, history
  <2>3. ASSUME SyncWrite(w), ~crossed' PROVE ~crossed
    BY <2>3 DEF SyncWrite
  <2> QED
    BY <2>1, <2>2, <2>3
<1>6. SyncWrite(w) /\ ~crossed' => party[p].account = task[w].account
  BY <1>1 DEF SyncWrite
<1>7. \A q \in Parties \ {p} : Resetting(q) => Resetting(q)'
  BY <1>1, <1>4 DEF Resetting, At
<1>8. ASSUME NEW q \in Parties, party'[q].account # None, party'[q].enabled, ~crossed',
             ~Resetting(q)'
      PROVE  stripe[party'[q].account].enabled
  <2>1. CASE q # p
    BY <1>3, <1>5, <1>7, <1>8, <2>1 DEF FlagInv, FlagsDescribeAccount
  <2>2. CASE q = p
    <3>1. SyncWrite(w) /\ task[w].enabled
      BY <1>3, <1>8, <2>2
    <3>2. stripe[task[w].account].enabled
      BY <3>1 DEF SyncWrite, FlagInv
    <3> QED
      BY <1>3, <1>6, <1>8, <2>2, <3>1, <3>2
  <2> QED
    BY <2>1, <2>2
<1>9. \A q \in Parties : party'[q].account = None /\ ~crossed' => ~party'[q].enabled
  <2>1. ASSUME party[p].account = None, ~crossed' PROVE ~party'[p].enabled
    BY <1>2, <1>3, <1>6, <2>1, NoneIsNothing
  <2> QED
    BY <1>3, <1>5, <2>1 DEF FlagInv
<1>10. \A v \in Workers : At(v, "sync")' /\ task'[v].enabled => stripe[task'[v].account].enabled
  BY <1>4 DEF At, FlagInv
<1> QED
  BY <1>5, <1>8, <1>9, <1>10 DEF FlagInv, FlagsDescribeAccount

\* Accounts and flags of the others stay, a disabled party has none.
LEMMA DisconnectFlags ==
  ASSUME TypeInv, FlagInv, NEW p \in Parties, Disconnect(p)
  PROVE  FlagInv'
<1>1. /\ party'[p].account = None /\ party'[p].enabled = FALSE
      /\ \A q \in Parties \ {p} : party'[q] = party[q]
  BY DEF Disconnect, TypeInv, TypeOK
<1>2. UNCHANGED <<task, stripe, crossed>>
  BY DEF Disconnect, external
<1>3. \A q \in Parties : Resetting(q)' = Resetting(q)
  BY <1>2 DEF Resetting, At
<1> QED
  BY <1>1, <1>2, <1>3 DEF FlagInv, FlagsDescribeAccount, At

LEMMA OnboardFlags ==
  ASSUME TypeInv, FlagInv, NEW a \in Accounts, Onboard(a)
  PROVE  FlagInv'
<1>1. \A b \in Accounts : stripe[b] # None /\ stripe[b].enabled => stripe'[b].enabled
  BY DEF Onboard, TypeInv, TypeOK, Connected
<1>2. UNCHANGED <<party, task, crossed>>
  BY DEF Onboard, rows, history
<1>3. \A q \in Parties : Resetting(q)' = Resetting(q)
  BY <1>2 DEF Resetting, At
<1>4. \A q \in Parties : party[q].account # None =>
        party[q].account \in Accounts /\ stripe[party[q].account] # None
  BY DEF TypeInv, TypeOK, PartyRows
<1>5. \A v \in Workers : At(v, "sync") =>
        task[v].account \in Accounts /\ stripe[task[v].account] # None
  BY DEF At, TypeInv, Shaped, Existing
<1> QED
  BY <1>1, <1>2, <1>3, <1>4, <1>5 DEF FlagInv, FlagsDescribeAccount, At

\* Paying and splitting move one request, and never to a connecting step.
LEMMA MovesOn ==
  ASSUME TypeInv, NEW w \in Workers, Paying(w) \/ Splitting(w) \/ Cut(w)
  PROVE  /\ \A v \in Workers \ {w} : task'[v] = task[v]
         /\ task'[w].pc \notin {"save", "reset", "sync"}
<1>1. /\ Idle \in Tasks /\ Idle.pc = "idle" /\ task \in [Workers -> Tasks]
      /\ task[w] \in Tasks
  BY IdleShaped DEF Shaped, TypeInv, TypeOK
<1>2. ASSUME NEW t, Go(w, t), t.pc \notin {"save", "reset", "sync"}
      PROVE  /\ \A v \in Workers \ {w} : task'[v] = task[v]
             /\ task'[w].pc \notin {"save", "reset", "sync"}
  BY <1>1, <1>2 DEF Go
<1>3. CASE CreateIntent(w)
  BY <1>1, <1>3 DEF CreateIntent, Go, Tasks
<1>4. CASE \E i \in Intents : Deliver(w, i)
  BY <1>1, <1>4 DEF Deliver, Go, Tasks
<1>5. CASE Reconcile(w)
  <2>1. CASE Go(w, [Idle EXCEPT !.pc = "transfers"])
    BY <1>1, <2>1 DEF Go, Tasks
  <2>2. CASE Go(w, [Idle EXCEPT !.pc = "mark", !.intent = order.intent])
    BY <1>1, <2>2 DEF Go, Tasks
  <2> QED
    BY <1>5, <2>1, <2>2 DEF Reconcile
<1>6. CASE MarkPaid(w) \/ Capture(w)
  BY <1>1, <1>6 DEF MarkPaid, Capture, Go, Tasks
<1>7. CASE RecordIntent(w) \/ Cut(w)
  BY <1>1, <1>7 DEF RecordIntent, Cut, Done, Go
<1>8. CASE BeginTransfers(w)
  <2>1. \/ Go(w, Idle)
        \/ \E due : Go(w, [task[w] EXCEPT !.pc = "recipients", !.intent = ChargeOf,
                                          !.todo = due])
    BY <1>8 DEF BeginTransfers, Done
  <2>2. ASSUME NEW due, Go(w, [task[w] EXCEPT !.pc = "recipients", !.intent = ChargeOf,
                                              !.todo = due])
        PROVE  task'[w].pc = "recipients" /\ \A v \in Workers \ {w} : task'[v] = task[v]
    BY <1>1, <2>2 DEF Go, Tasks
  <2> QED
    BY <1>1, <1>2, <2>1, <2>2
<1>9. CASE ReadCreator(w)
  <2>1. \/ Go(w, Idle)
        \/ Go(w, [task[w] EXCEPT !.pc = "creator", !.todo = {Payee(Creator)}])
    BY <1>9 DEF ReadCreator, Done
  <2>2. CASE Go(w, [task[w] EXCEPT !.pc = "creator", !.todo = {Payee(Creator)}])
    BY <1>1, <2>2 DEF Go, Tasks
  <2> QED
    BY <1>1, <1>2, <2>1, <2>2
<1>10. CASE StartPayout(w)
  <2>1. \E t : Go(w, t) /\ t.pc \in {"transfer", "recipients", "idle"}
    BY <1>1, <1>10, StartPayoutStep
  <2> QED
    BY <1>2, <2>1
<1>11. CASE Transfer(w)
  BY <1>1, <1>11 DEF Transfer, Go, Tasks
<1>12. CASE RecordPaid(w) \/ RecordFailed(w)
  BY <1>1, <1>12 DEF RecordPaid, RecordFailed, NextPayee, Go, Tasks
<1> QED
  BY <1>3, <1>4, <1>5, <1>6, <1>7, <1>8, <1>9, <1>10, <1>11, <1>12 DEF Paying, Splitting

\* A request that neither connects, syncs nor resets, and one that is cut short.
LEMMA OtherFlags ==
  ASSUME TypeInv, FlagInv, NEW w \in Workers, Paying(w) \/ Splitting(w) \/ Cut(w)
  PROVE  FlagInv'
<1>1. UNCHANGED <<party, stripe>>
  BY DEF Paying, CreateIntent, RecordIntent, Deliver, Reconcile, MarkPaid, Capture,
     Splitting, BeginTransfers, ReadCreator, StartPayout, Transfer, RecordPaid,
     RecordFailed, Cut, rows, external
<1>2. UNCHANGED crossed \/ (Cut(w) /\ crossed' = (crossed \/ At(w, "reset")))
  BY DEF Paying, CreateIntent, RecordIntent, Deliver, Reconcile, MarkPaid, Capture,
     Splitting, BeginTransfers, ReadCreator, StartPayout, Transfer, RecordPaid,
     RecordFailed, Cut, history
<1>3. crossed \in BOOLEAN /\ (crossed => crossed')
  BY <1>2 DEF TypeInv, TypeOK
<1>4. ~At(w, "reset") \/ crossed'
  <2>1. CASE Cut(w)
    BY <2>1 DEF Cut
  <2>2. CASE Paying(w) \/ Splitting(w)
    BY <2>2 DEF Paying, CreateIntent, RecordIntent, Deliver, Reconcile, MarkPaid, Capture,
       Splitting, BeginTransfers, ReadCreator, StartPayout, Transfer, RecordPaid,
       RecordFailed, At, Free
  <2> QED
    BY <2>1, <2>2
<1>5. /\ \A v \in Workers \ {w} : task'[v] = task[v]
      /\ ~At(w, "sync")'
  BY MovesOn DEF At
<1> QED
  BY <1>1, <1>3, <1>4, <1>5, QuietFlags

LEMMA NextFlags == TypeInv /\ FlagInv /\ [Next]_vars => FlagInv'
<1> SUFFICES ASSUME TypeInv, FlagInv, [Next]_vars PROVE FlagInv'
  OBVIOUS
<1>1. ASSUME NEW w \in Workers, Connecting(w) PROVE FlagInv'
  BY <1>1, ConnectFlags, SyncReadFlags, SaveFlags, WriteFlags DEF Connecting
<1>2. ASSUME NEW w \in Workers, Paying(w) \/ Splitting(w) \/ Cut(w) PROVE FlagInv'
  BY <1>2, OtherFlags
<1>3. ASSUME UNCHANGED <<party, stripe, task, crossed>> PROVE FlagInv'
  BY <1>3 DEF FlagInv, FlagsDescribeAccount, Resetting, At
<1>4. FlipStore \/ (\E i \in Intents : Charge(i) \/ Settle(i)) \/ UNCHANGED vars
        => UNCHANGED <<party, stripe, task, crossed>>
  BY DEF FlipStore, Charge, Settle, vars, rows, external, history
<1> QED
  BY <1>1, <1>2, <1>3, <1>4, DisconnectFlags, OnboardFlags DEF Next

\* A party marked as enabled has an account that is, but for a sync, a connect
\* or a reset that crossed a change of the account.
THEOREM FlagsAreOfTheAccount == Spec => []FlagsDescribeAccount
<1>1. FlagInv => FlagsDescribeAccount
  BY DEF FlagInv
<1> QED
  BY <1>1, InitFlags, NextFlags, InitTyping, NextTyping, PTL DEF Spec

\* A payment about to be recognised was charged, where the order says.
ChargeInv ==
  /\ PaidChargeIsFound
  /\ \A w \in Workers : At(w, "mark") =>
       /\ task[w].intent \in Charges
       /\ ~overlapped => intents[task[w].intent].account = order.account

LEMMA InitCharge == ASSUME Init PROVE ChargeInv
<1>1. \A w \in Workers : task[w].pc = "idle"
  BY IdleShaped DEF Init
<1>2. order.paid = FALSE
  BY DEF Init
<1> QED
  BY <1>1, <1>2 DEF ChargeInv, PaidChargeIsFound, At

\* Intents are only added to, the request does not start to recognise one, and
\* the order goes on naming what it named.
LEMMA QuietCharge ==
  ASSUME TypeInv, ChargeInv,
         \A i \in Intents : intents[i] # None =>
           /\ intents'[i] # None /\ intents'[i].account = intents[i].account
           /\ intents[i].charged => intents'[i].charged,
         \A v \in Workers : At(v, "mark")' => task'[v] = task[v],
         order'.paid = order.paid, order'.intent = order.intent,
         order'.account = order.account, ~overlapped' => ~overlapped
  PROVE  ChargeInv'
<1>1. \A i \in Intents : i \in Charges => i \in Charges' /\ intents'[i].account = intents[i].account
  BY DEF Charges
<1>2. PaidChargeIsFound'
  BY <1>1 DEF ChargeInv, PaidChargeIsFound, Charges
<1>3. \A v \in Workers : At(v, "mark")' => At(v, "mark")
  BY DEF At
<1> QED
  BY <1>1, <1>2, <1>3 DEF ChargeInv, Charges

\* Connecting moves one request, and not to a payment to recognise.
LEMMA ConnectsOn ==
  ASSUME TypeInv, NEW w \in Workers, Connecting(w)
  PROVE  /\ \A v \in Workers \ {w} : task'[v] = task[v]
         /\ task'[w].pc # "mark"
<1>1. /\ Idle \in Tasks /\ Idle.pc = "idle" /\ task \in [Workers -> Tasks]
      /\ task[w] \in Tasks
  BY IdleShaped DEF Shaped, TypeInv, TypeOK
<1>2. CASE \E p \in Parties : Connect(w, p)
  BY <1>1, <1>2 DEF Connect, Go, Tasks
<1>3. CASE \E p \in Parties : SyncRead(w, p)
  BY <1>1, <1>3 DEF SyncRead, Go, Tasks
<1>4. CASE SaveAccount(w)
  BY <1>1, <1>4 DEF SaveAccount, Done, Go, Tasks
<1>5. CASE ResetFlags(w) \/ SyncWrite(w)
  BY <1>1, <1>5 DEF ResetFlags, SyncWrite, Done, Go
<1> QED
  BY <1>2, <1>3, <1>4, <1>5 DEF Connecting

\* ... nor do splitting and being cut short.
LEMMA SplitsOn ==
  ASSUME TypeInv, NEW w \in Workers, Splitting(w) \/ Cut(w)
  PROVE  /\ \A v \in Workers \ {w} : task'[v] = task[v]
         /\ task'[w].pc # "mark"
<1>1. /\ Idle \in Tasks /\ Idle.pc = "idle" /\ task \in [Workers -> Tasks]
      /\ task[w] \in Tasks
  BY IdleShaped DEF Shaped, TypeInv, TypeOK
<1>2. \A v \in Workers \ {w} : task'[v] = task[v]
  BY MovesOn
<1>3. ASSUME Go(w, Idle) PROVE task'[w].pc # "mark"
  BY <1>1, <1>3 DEF Go
<1>4. ASSUME NEW i, NEW pc \in {"recipients", "creator"}, NEW due,
             Go(w, [task[w] EXCEPT !.pc = pc, !.intent = i, !.todo = due])
      PROVE  task'[w].pc # "mark"
  BY <1>1, <1>4 DEF Go, Tasks
<1>5. CASE BeginTransfers(w)
  <2>1. \/ Go(w, Idle)
        \/ \E due : Go(w, [task[w] EXCEPT !.pc = "recipients", !.intent = ChargeOf,
                                          !.todo = due])
    BY <1>5 DEF BeginTransfers, Done
  <2> QED
    BY <1>2, <1>3, <1>4, <2>1
<1>6. CASE ReadCreator(w)
  <2>1. \/ Go(w, Idle)
        \/ Go(w, [task[w] EXCEPT !.pc = "creator", !.todo = {Payee(Creator)}])
    BY <1>6 DEF ReadCreator, Done
  <2>2. CASE Go(w, [task[w] EXCEPT !.pc = "creator", !.todo = {Payee(Creator)}])
    BY <1>1, <2>2 DEF Go, Tasks
  <2> QED
    BY <1>2, <1>3, <2>1, <2>2
<1>7. CASE StartPayout(w)
  <2>1. \E t : Go(w, t) /\ t.pc \in {"transfer", "recipients", "idle"}
    BY <1>1, <1>7, StartPayoutStep
  <2> QED
    BY <1>1, <2>1 DEF Go
<1>8. CASE Transfer(w)
  BY <1>1, <1>8 DEF Transfer, Go, Tasks
<1>9. CASE RecordPaid(w) \/ RecordFailed(w)
  BY <1>1, <1>9 DEF RecordPaid, RecordFailed, NextPayee, Go, Tasks
<1>10. CASE Cut(w)
  BY <1>2, <1>3, <1>10 DEF Cut, Done
<1> QED
  BY <1>2, <1>5, <1>6, <1>7, <1>8, <1>9, <1>10 DEF Splitting

LEMMA CreateCharge ==
  ASSUME TypeInv, ChargeInv, NEW w \in Workers, CreateIntent(w)
  PROVE  ChargeInv'
<1>1. Idle \in Tasks /\ task \in [Workers -> Tasks]
  BY IdleShaped DEF Shaped, TypeInv, TypeOK
<1>2. PICK i, account :
        /\ i \in Intents
        /\ intents[i] = None
        /\ intents' = [intents EXCEPT ![i] =
             [account |-> account, open |-> FALSE, charged |-> FALSE]]
        /\ Go(w, [Idle EXCEPT !.pc = "record", !.intent = i, !.account = account])
  BY DEF CreateIntent
<1>3. \A j \in Intents : intents[j] # None => intents'[j] = intents[j]
  BY <1>2 DEF TypeInv, TypeOK
<1>4. task'[w].pc = "record" /\ \A v \in Workers \ {w} : task'[v] = task[v]
  BY <1>1, <1>2 DEF Go, Tasks
<1>5. UNCHANGED <<order, overlapped>>
  BY DEF CreateIntent, rows, history
<1> QED
  BY <1>3, <1>4, <1>5, QuietCharge DEF At

\* The order names another intent: it is not paid, and nobody recognises one, or
\* the intent overlapped with a payment.
LEMMA RecordCharge ==
  ASSUME TypeInv, ChargeInv, NEW w \in Workers, RecordIntent(w)
  PROVE  ChargeInv'
<1>1. Idle.pc = "idle" /\ task \in [Workers -> Tasks] /\ task[w] \in Tasks
  BY IdleShaped DEF TypeInv, TypeOK
<1>2. task'[w] = Idle /\ \A v \in Workers \ {w} : task'[v] = task[v]
  BY <1>1 DEF RecordIntent, Done, Go
<1>3. task[w].intent \in Intents /\ intents[task[w].intent] \in Payments
  BY DEF RecordIntent, At, TypeInv, TypeOK, Shaped, Existing
<1>4. \A i \in Intents : i \in Charges => i \in Charges'
  <2>1. intents'[task[w].intent] = [intents[task[w].intent] EXCEPT !.open = TRUE]
    BY <1>3 DEF RecordIntent, TypeInv, TypeOK
  <2>2. [intents[task[w].intent] EXCEPT !.open = TRUE] \in Payments
    BY <1>3 DEF Payments
  <2>3. \A i \in Intents \ {task[w].intent} : intents'[i] = intents[i]
    BY DEF RecordIntent, TypeInv, TypeOK
  <2>4. [intents[task[w].intent] EXCEPT !.open = TRUE].charged = intents[task[w].intent].charged
    BY <1>3 DEF Payments
  <2> QED
    BY <1>3, <2>1, <2>2, <2>3, <2>4, NoneIsNothing DEF Charges
<1>5. order'.paid = order.paid
  BY DEF RecordIntent, TypeInv, TypeOK
<1>6. Recognising => overlapped'
  BY DEF RecordIntent
<1>7. order.paid => overlapped'
  BY <1>6 DEF Recognising
<1>8. \A v \in Workers : task'[v].pc = "mark" => v # w /\ task'[v] = task[v] /\ overlapped'
  BY <1>1, <1>2, <1>6 DEF Recognising
<1>9. \A v \in Workers : task[v].pc = "mark" => task[v].intent \in Charges
  BY DEF ChargeInv, At
<1>10. Charges \subseteq Intents
  BY DEF Charges
<1>11. \A v \in Workers : At(v, "mark")' => task'[v].intent \in Charges'
  BY <1>4, <1>8, <1>9, <1>10 DEF At
<1>12. PaidChargeIsFound'
  BY <1>5, <1>7 DEF PaidChargeIsFound
<1>13. \A v \in Workers : At(v, "mark")' => overlapped'
  BY <1>8 DEF At
<1> QED
  BY <1>11, <1>12, <1>13 DEF ChargeInv

LEMMA ChargedCharge ==
  ASSUME TypeInv, ChargeInv, NEW i \in Intents, Charge(i)
  PROVE  ChargeInv'
<1>1. intents[i] \in Payments /\ intents \in [Intents -> Payments \cup {None}]
  BY DEF Charge, TypeInv, TypeOK
<1>2. intents' = [intents EXCEPT ![i] = [intents[i] EXCEPT !.charged = TRUE]]
  BY <1>1 DEF Charge
<1>3. /\ [intents[i] EXCEPT !.charged = TRUE] \in Payments
      /\ [intents[i] EXCEPT !.charged = TRUE].account = intents[i].account
      /\ [intents[i] EXCEPT !.charged = TRUE].charged
  BY <1>1 DEF Payments
<1>4. \A j \in Intents : intents[j] # None =>
        /\ intents'[j] # None /\ intents'[j].account = intents[j].account
        /\ intents[j].charged => intents'[j].charged
  BY <1>1, <1>2, <1>3, NoneIsNothing
<1>5. UNCHANGED <<order, task, overlapped>>
  BY DEF Charge, rows, history
<1> QED
  BY <1>4, <1>5, QuietCharge

\* The intent of a request at "mark" was read live on the order's account.
LEMMA ReadCharge ==
  ASSUME TypeInv, ChargeInv, NEW w \in Workers,
         (\E i \in Intents : Deliver(w, i)) \/ Reconcile(w)
  PROVE  ChargeInv'
<1>1. Idle \in Tasks /\ task \in [Workers -> Tasks]
  BY IdleShaped DEF Shaped, TypeInv, TypeOK
<1>2. /\ \A v \in Workers \ {w} : task'[v] = task[v]
      /\ task'[w].pc = "mark" => Readable(task'[w].intent)
  <2>0. ASSUME NEW t, Go(w, t), t.pc = "mark" => Readable(t.intent)
        PROVE  /\ \A v \in Workers \ {w} : task'[v] = task[v]
               /\ task'[w].pc = "mark" => Readable(task'[w].intent)
    BY <1>1, <2>0 DEF Go
  <2>1. ASSUME NEW i \in Intents, Deliver(w, i)
        PROVE  /\ \A v \in Workers \ {w} : task'[v] = task[v]
               /\ task'[w].pc = "mark" => Readable(task'[w].intent)
    <3>1. /\ Go(w, [Idle EXCEPT !.pc = "mark", !.intent = i, !.rethrow = TRUE])
          /\ Readable(i)
      BY <2>1 DEF Deliver
    <3>2. [Idle EXCEPT !.pc = "mark", !.intent = i, !.rethrow = TRUE].intent = i
      BY <1>1 DEF Tasks
    <3> QED
      BY <2>0, <3>1, <3>2
  <2>2. CASE Go(w, [Idle EXCEPT !.pc = "transfers"])
    <3>1. [Idle EXCEPT !.pc = "transfers"].pc # "mark"
      BY <1>1 DEF Tasks
    <3> QED
      BY <2>0, <2>2, <3>1
  <2>3. CASE Readable(order.intent) /\ Go(w, [Idle EXCEPT !.pc = "mark", !.intent = order.intent])
    <3>1. [Idle EXCEPT !.pc = "mark", !.intent = order.intent].intent = order.intent
      BY <1>1 DEF Tasks
    <3> QED
      BY <2>0, <2>3, <3>1
  <2> QED
    BY <2>1, <2>2, <2>3 DEF Reconcile
<1>3. UNCHANGED <<order, intents, overlapped>>
  BY DEF Deliver, Reconcile, rows, external, history
<1>4. \A v \in Workers : At(v, "mark")' =>
        /\ task'[v].intent \in Charges
        /\ ~overlapped => intents[task'[v].intent].account = order.account
  BY <1>2 DEF At, ChargeInv, Readable
<1> QED
  BY <1>3, <1>4 DEF ChargeInv, PaidChargeIsFound, Charges

LEMMA MarkCharge ==
  ASSUME TypeInv, ChargeInv, NEW w \in Workers, MarkPaid(w) \/ Capture(w)
  PROVE  ChargeInv'
<1>1. task \in [Workers -> Tasks] /\ task[w] \in Tasks
  BY DEF TypeInv, TypeOK
<1>2. \A v \in Workers : At(v, "mark")' => v # w /\ task'[v] = task[v]
  BY <1>1 DEF MarkPaid, Capture, Go, At, Tasks
<1>3. UNCHANGED <<intents, overlapped>>
  BY DEF MarkPaid, Capture, external, history
<1>4. order'.account = order.account
  BY DEF MarkPaid, Capture, TypeInv, TypeOK
<1>5. \/ order'.paid = order.paid /\ order'.intent = order.intent
      \/ At(w, "mark") /\ order'.intent = task[w].intent
  BY DEF MarkPaid, Capture, TypeInv, TypeOK
<1>6. PaidChargeIsFound'
  BY <1>3, <1>4, <1>5 DEF ChargeInv, PaidChargeIsFound, Charges
<1>7. \A v \in Workers : At(v, "mark")' => At(v, "mark") /\ task'[v] = task[v]
  BY <1>2 DEF At
<1> QED
  BY <1>3, <1>4, <1>6, <1>7 DEF ChargeInv, Charges

LEMMA NextCharge == TypeInv /\ ChargeInv /\ [Next]_vars => ChargeInv'
<1> SUFFICES ASSUME TypeInv, ChargeInv, [Next]_vars PROVE ChargeInv'
  OBVIOUS
<1>1. ASSUME UNCHANGED <<order, intents, overlapped>>,
             \A v \in Workers : At(v, "mark")' => task'[v] = task[v]
      PROVE  ChargeInv'
  BY <1>1, QuietCharge
<1>2. ASSUME NEW w \in Workers, Connecting(w) PROVE ChargeInv'
  <2>1. UNCHANGED <<order, intents, overlapped>>
    BY <1>2 DEF Connecting, Connect, SyncRead, SaveAccount, ResetFlags, SyncWrite, rows,
       external, history
  <2> QED
    BY <1>1, <1>2, <2>1, ConnectsOn DEF At
<1>3. ASSUME NEW w \in Workers, Splitting(w) \/ Cut(w) PROVE ChargeInv'
  <2>1. UNCHANGED <<order, intents, overlapped>>
    BY <1>3 DEF Splitting, BeginTransfers, ReadCreator, StartPayout, Transfer, RecordPaid,
       RecordFailed, Cut, rows, external, history
  <2> QED
    BY <1>1, <1>3, <2>1, SplitsOn DEF At
<1>4. ASSUME NEW w \in Workers, Paying(w) PROVE ChargeInv'
  BY <1>4, CreateCharge, RecordCharge, ReadCharge, MarkCharge DEF Paying
<1>5. \/ FlipStore \/ \E p \in Parties : Disconnect(p)
      \/ \E a \in Accounts : Onboard(a)
      \/ \E i \in Intents : Settle(i)
      \/ UNCHANGED vars
      => UNCHANGED <<order, intents, overlapped, task>>
  BY DEF FlipStore, Disconnect, Onboard, Settle, vars, rows, external, history
<1> QED
  BY <1>1, <1>2, <1>3, <1>4, <1>5, ChargedCharge DEF Next

\* A paid order names an intent that was charged and the account it is on.
THEOREM ChargeIsFound == Spec => []PaidChargeIsFound
<1>1. ChargeInv => PaidChargeIsFound
  BY DEF ChargeInv
<1> QED
  BY <1>1, InitCharge, NextCharge, InitTyping, NextTyping, PTL DEF Spec


-------------------------------------------------------------------------------
(* The inductive invariant of the way to the customer.                      *)

Final   == {"SHIPPED", "DELIVERED"}
Derived == {"PROCESSING", "MANUFACTURING", "SHIPPED", "DELIVERED"}
Writing == {"commission", "cascade"}

\* What a request of each kind can be at, and what it is about to write.
Sound(t) ==
  /\ t.pc = "idle" <=> t.op = "none"
  /\ t.pc \in {"read", "items"} => t.op = "recompute"
  /\ t.pc = "items" => t.from \notin Terminal
  /\ t.pc = "cascade" => t.op = "admin"
  /\ t.op = "refunded" => t.to = "REFUNDED"
  /\ t.op = "paid" => /\ t.pc = "write"
                      /\ t.to = IF t.from = "PENDING" THEN "CONFIRMED" ELSE t.from
  /\ t.op = "recompute" /\ t.pc = "write" =>
       t.from \notin Terminal /\ t.to \in Derived /\ OrderRank(t.from) < OrderRank(t.to)

WayTypeInv == ConstantsOK /\ WayTypeOK /\ \A r \in Requests : Sound(job[r])

\* A status that speaks of every line, written or about to be.
Speaks(t) == /\ t.to \in Final
             /\ \/ t.pc \in {"commission", "cascade", "hook", "mail"}
                \/ t.pc = "write" /\ t.op \in {"recompute", "paid"}

ShippedInv ==
  /\ Reached(stage) \subseteq shipped
  /\ ShippedWhenAllShipped
  /\ \A r \in Requests : Speaks(job[r]) => shipped = Items

InStep == ~overwritten /\ ~interrupted

\* One request at most has written the status and not yet what follows from it.
CommissionInv == InStep =>
  /\ \A r \in Requests : job[r].pc \in Writing =>
       job[r].to = status /\ (job[r].op = "admin" => byHand)
  /\ \A q, r \in Requests : job[q].pc \in Writing /\ job[r].pc \in Writing => q = r
  /\ \/ commission = deriveCommissionStatus(status)
     \/ \E r \in Requests : job[r].pc = "commission"

\* The request that made it SHIPPED has run the hooks and sent the mail, or will.
Ships(t) == t.to = "SHIPPED" /\ t.from # "SHIPPED"
ToldInv == InStep /\ status = "SHIPPED" =>
  /\ \/ hooked
     \/ \E r \in Requests : job[r].pc \in Writing \cup {"hook"} /\ Ships(job[r])
  /\ \/ "SHIPPED" \in mailed
     \/ \E r \in Requests : job[r].pc \in Writing \cup {"hook", "mail"} /\ Ships(job[r])

\* A request that will bring the status up to the lines, or the lines down to it.
Catches(t, items) ==
  \/ t.pc = "read"
  \/ t.pc = "items" /\ OrderRank(t.from) < OrderRank(CandidateFor(items))
  \/ t.pc = "write" /\ t.op = "recompute" /\ OrderRank(t.to) >= OrderRank(CandidateFor(items))
  \/ t.pc \in Writing /\ t.op = "admin"
BehindInv == InStep /\ Behind => Ahead \/ \E r \in Requests : Catches(job[r], stage)

CaughtInv == CommissionInv /\ ToldInv /\ BehindInv

-------------------------------------------------------------------------------
(* Ranks.                                                                    *)

LEMMA StatusNames ==
  Statuses = {"PENDING", "CONFIRMED", "PROCESSING", "MANUFACTURING", "QUALITY_CHECK",
              "SHIPPED", "DELIVERED", "CANCELLED", "REFUNDED", "RETURNED"}
<1>1. DOMAIN Progress = {1, 2, 3, 4, 5, 6, 7}
  BY DEF Progress
<1>2. /\ Progress[1] = "PENDING" /\ Progress[2] = "CONFIRMED" /\ Progress[3] = "PROCESSING"
      /\ Progress[4] = "MANUFACTURING" /\ Progress[5] = "QUALITY_CHECK"
      /\ Progress[6] = "SHIPPED" /\ Progress[7] = "DELIVERED"
  BY DEF Progress
<1> QED
  BY <1>1, <1>2 DEF Statuses, Terminal

LEMMA StageNames == AllStages = {"PENDING"} \cup Derived
<1>1. DOMAIN StageSeq = {1, 2, 3, 4, 5}
  BY DEF StageSeq
<1>2. /\ StageSeq[1] = "PENDING" /\ StageSeq[2] = "PROCESSING" /\ StageSeq[3] = "MANUFACTURING"
      /\ StageSeq[4] = "SHIPPED" /\ StageSeq[5] = "DELIVERED"
  BY DEF StageSeq
<1> QED
  BY <1>1, <1>2 DEF AllStages, Derived

LEMMA OrderRanks ==
  /\ OrderRank("PENDING") = 1 /\ OrderRank("CONFIRMED") = 2 /\ OrderRank("PROCESSING") = 3
  /\ OrderRank("MANUFACTURING") = 4 /\ OrderRank("QUALITY_CHECK") = 5
  /\ OrderRank("SHIPPED") = 6 /\ OrderRank("DELIVERED") = 7
<1>1. DOMAIN Progress = {1, 2, 3, 4, 5, 6, 7}
  BY DEF Progress
<1>2. /\ Progress[1] = "PENDING" /\ Progress[2] = "CONFIRMED" /\ Progress[3] = "PROCESSING"
      /\ Progress[4] = "MANUFACTURING" /\ Progress[5] = "QUALITY_CHECK"
      /\ Progress[6] = "SHIPPED" /\ Progress[7] = "DELIVERED"
  BY DEF Progress
<1>3. ASSUME NEW x \in DOMAIN Progress PROVE OrderRank(Progress[x]) = x
  <2>1. \A r \in DOMAIN Progress : Progress[r] = Progress[x] <=> r = x
    BY <1>1, <1>2, <1>3
  <2> QED
    BY <2>1 DEF OrderRank, RankIn
<1> QED
  BY <1>1, <1>2, <1>3

LEMMA StageRanks ==
  /\ StageRank("PENDING") = 0 /\ StageRank("PROCESSING") = 1 /\ StageRank("MANUFACTURING") = 2
  /\ StageRank("SHIPPED") = 3 /\ StageRank("DELIVERED") = 4
<1>1. DOMAIN StageSeq = {1, 2, 3, 4, 5}
  BY DEF StageSeq
<1>2. /\ StageSeq[1] = "PENDING" /\ StageSeq[2] = "PROCESSING" /\ StageSeq[3] = "MANUFACTURING"
      /\ StageSeq[4] = "SHIPPED" /\ StageSeq[5] = "DELIVERED"
  BY DEF StageSeq
<1>3. ASSUME NEW x \in DOMAIN StageSeq PROVE StageRank(StageSeq[x]) = x - 1
  <2>1. \A r \in DOMAIN StageSeq : StageSeq[r] = StageSeq[x] <=> r = x
    BY <1>1, <1>2, <1>3
  <2> QED
    BY <2>1 DEF StageRank, RankIn
<1> QED
  BY <1>1, <1>2, <1>3

\* Math.min over the lines is attained and a lower bound.
LEMMA Slowest ==
  ASSUME ConstantsOK, NEW items \in [Items -> AllStages]
  PROVE  /\ SlowestStage(items) \in {StageRank(items[i]) : i \in Items}
         /\ \A i \in Items : SlowestStage(items) =< StageRank(items[i])
<1> DEFINE S == {StageRank(items[i]) : i \in Items}
<1>1. S \subseteq {0, 1, 2, 3, 4} /\ S # {}
  BY StageNames, StageRanks DEF ConstantsOK, Derived
<1>2. \E x \in S : \A y \in S : x =< y
  <2> HIDE DEF S
  <2>1. CASE 0 \in S
    BY <1>1, <2>1
  <2>2. CASE 0 \notin S /\ 1 \in S
    BY <1>1, <2>2
  <2>3. CASE 0 \notin S /\ 1 \notin S /\ 2 \in S
    BY <1>1, <2>3
  <2>4. CASE 0 \notin S /\ 1 \notin S /\ 2 \notin S /\ 3 \in S
    BY <1>1, <2>4
  <2>5. CASE S = {4}
    BY <2>5
  <2> QED
    BY <1>1, <2>1, <2>2, <2>3, <2>4, <2>5
<1>3. Min(S) \in S /\ \A y \in S : Min(S) =< y
  <2> HIDE DEF S
  <2> QED
    BY <1>2 DEF Min
<1> QED
  BY <1>3 DEF SlowestStage

\* The status the lines stand for; it speaks of shipping only when all of them did.
LEMMA Candidate ==
  ASSUME ConstantsOK, NEW items \in [Items -> AllStages]
  PROVE  /\ CandidateFor(items) \in Derived \cup {"none"}
         /\ CandidateFor(items) \in Final => Reached(items) = Items
<1>1. SlowestStage(items) \in {0, 1, 2, 3, 4}
  BY Slowest, StageNames, StageRanks DEF Derived
<1>2. CandidateFor(items) = IF SlowestStage(items) = 0 THEN "none"
                            ELSE IF SlowestStage(items) = 1 THEN "PROCESSING"
                            ELSE IF SlowestStage(items) = 2 THEN "MANUFACTURING"
                            ELSE IF SlowestStage(items) = 3 THEN "SHIPPED" ELSE "DELIVERED"
  BY <1>1 DEF CandidateFor
<1>3. CandidateFor(items) \in Final => SlowestStage(items) >= 3
  BY <1>1, <1>2 DEF Final
<1>4. \A i \in Items : StageRank(items[i]) \in {0, 1, 2, 3, 4}
  BY StageNames, StageRanks DEF Derived
<1> QED
  BY <1>1, <1>2, <1>3, <1>4, Slowest, StageRanks DEF Reached, Derived

\* A cascade makes the lines speak for what they were set to.
LEMMA CandidateOfCascade ==
  ASSUME ConstantsOK, NEW to \in AllStages
  PROVE  CandidateFor([i \in Items |-> to]) = IF to = "PENDING" THEN "none" ELSE to
<1> DEFINE items == [i \in Items |-> to]
<1>1. items \in [Items -> AllStages] /\ \A i \in Items : items[i] = to
  OBVIOUS
<1>2. SlowestStage(items) = StageRank(to)
  <2> HIDE DEF items
  <2> QED
    BY <1>1, Slowest DEF ConstantsOK
<1> HIDE DEF items
<1>3. CandidateFor(items) = IF to = "PENDING" THEN "none" ELSE to
  BY <1>2, StageNames, StageRanks DEF CandidateFor, Derived
<1> QED
  BY <1>3 DEF items

LEMMA StageOf ==
  ASSUME NEW st \in Statuses
  PROVE  /\ deriveFulfillmentStatus(st) = "none" <=> st \in Terminal
         /\ st \notin Terminal => deriveFulfillmentStatus(st) \in AllStages
         /\ st \in Final => deriveFulfillmentStatus(st) = st
BY StatusNames, StageNames DEF deriveFulfillmentStatus, Terminal, Derived, Final

\* A request that has ended.
LEMMA IdleIs ==
  /\ NoJob \in Jobs /\ NoJob.pc = "idle" /\ NoJob.op = "none"
  /\ NoJob.from = "PENDING" /\ NoJob.to = "PENDING"
BY StatusNames DEF NoJob, Jobs

-------------------------------------------------------------------------------
(* Fulfilment: typing.                                                      *)

LEMMA TaskFields ==
  ASSUME NEW t \in Jobs
  PROVE  /\ t.pc \in {"idle", "read", "items", "write", "commission", "cascade", "hook", "mail"}
         /\ t.op \in {"none", "admin", "recompute", "paid", "refunded"}
         /\ t.from \in Statuses /\ t.to \in Statuses
BY DEF Jobs

\* One request takes a step.
LEMMA OneTask ==
  ASSUME WayTypeInv, NEW r \in Requests, NEW t \in Jobs, Become(r, t)
  PROVE  /\ job' \in [Requests -> Jobs] /\ job'[r] = t
         /\ \A q \in Requests \ {r} : job'[q] = job[q]
BY DEF WayTypeInv, WayTypeOK, Become

LEMMA TypeStep ==
  ASSUME WayTypeInv, NEW r \in Requests, NEW t \in Jobs, Become(r, t), Sound(t),
         pay' \in {"awaiting_payment", "paid", "refunded"}, status' \in Statuses,
         stage' \in [Items -> AllStages], commission' \in {"PENDING", "COMPLETED", "FAILED"},
         hooked' \in BOOLEAN, mailed' \subseteq {"SHIPPED", "DELIVERED", "CANCELLED", "REFUNDED"},
         jobs' \in 0..MaxJobs, cuts' \in 0..MaxCuts, shipped' \in SUBSET Items,
         overwritten' \in BOOLEAN, byHand' \in BOOLEAN, interrupted' \in BOOLEAN
  PROVE  WayTypeInv'
<1>1. WayTypeOK'
  BY OneTask DEF WayTypeOK
<1>2. \A q \in Requests : Sound(job'[q])
  BY OneTask DEF WayTypeInv
<1> QED
  BY <1>1, <1>2 DEF WayTypeInv, ConstantsOK, Sound

\* A request is received: who it is and what it has done by its first await.
LEMMA Received ==
  ASSUME WayTypeInv, NEW r \in Requests, Receive(r)
  PROVE  \E t \in Jobs :
    /\ Become(r, t) /\ Sound(t) /\ job[r].pc = "idle"
    /\ jobs' \in 0..MaxJobs
    /\ UNCHANGED <<pay, status, commission, effects, cuts, overwritten, byHand, interrupted>>
    /\ \/ /\ t.pc = "read" /\ stage' \in [Items -> AllStages]
          /\ shipped' = shipped \cup Reached(stage')
       \/ /\ t.pc = "write" /\ t.op # "recompute" /\ t.from = status
          /\ t.op = "paid" /\ t.to \in Final => t.to = status
          /\ UNCHANGED <<stage, shipped>>
<1>0. /\ ConstantsOK /\ status \in Statuses /\ stage \in [Items -> AllStages]
      /\ jobs \in 0..MaxJobs /\ job[r] \in Jobs
  BY DEF WayTypeInv, WayTypeOK
<1> DEFINE asks == [NoJob EXCEPT !.pc = "read", !.op = "recompute"]
<1>1. asks \in Jobs /\ Sound(asks) /\ asks.pc = "read"
  BY IdleIs, StatusNames DEF Jobs, NoJob, Sound, Terminal, Derived
<1>2. ASSUME NEW t, Begin(r, t) PROVE jobs' \in 0..MaxJobs /\ Become(r, t) /\ job[r].pc = "idle"
  BY <1>0, <1>2 DEF Begin, ConstantsOK
<1>3. ASSUME NEW f \in {Fulfiller[i] : i \in Items}, NEW st \in FulfillerSets, AdvanceOwn(r, f, st)
      PROVE  /\ stage' \in [Items -> AllStages] /\ shipped' = shipped \cup Reached(stage')
             /\ Begin(r, asks)
             /\ UNCHANGED <<pay, status, commission, effects, cuts, overwritten, byHand, interrupted>>
  <2>1. deriveFulfillmentStatus(st) \in AllStages
    BY <1>0, <1>3, StageOf DEF ConstantsOK, AdvanceOwn
  <2> QED
    BY <1>0, <1>3, <2>1 DEF AdvanceOwn
<1>4. ASSUME NEW i \in Items, NEW fs \in Stages, AdvanceLine(r, i, fs)
      PROVE  /\ stage' \in [Items -> AllStages] /\ shipped' = shipped \cup Reached(stage')
             /\ Begin(r, asks)
             /\ UNCHANGED <<pay, status, commission, effects, cuts, overwritten, byHand, interrupted>>
  BY <1>0, <1>4 DEF AdvanceLine, ConstantsOK
<1>5. CASE \/ \E f \in {Fulfiller[i] : i \in Items}, st \in FulfillerSets : AdvanceOwn(r, f, st)
           \/ \E i \in Items, fs \in Stages : AdvanceLine(r, i, fs)
  <2> HIDE DEF asks
  <2> QED
    BY <1>1, <1>2, <1>3, <1>4, <1>5
<1>6. ASSUME NEW st \in AdminSets, AdminSetsStatus(r, st)
      PROVE  \E t \in Jobs :
               /\ Begin(r, t) /\ Sound(t) /\ t.pc = "write" /\ t.op = "admin" /\ t.from = status
               /\ UNCHANGED <<wayRows, effects, cuts, wayHistory>>
  <2> DEFINE t == [pc |-> "write", op |-> "admin", from |-> status, to |-> st]
  <2>1. t \in Jobs /\ Sound(t) /\ t.pc = "write" /\ t.op = "admin" /\ t.from = status
    BY <1>0 DEF Jobs, Sound, ConstantsOK
  <2>2. Begin(r, t) /\ UNCHANGED <<wayRows, effects, cuts, wayHistory>>
    BY <1>6 DEF AdminSetsStatus
  <2> HIDE DEF t
  <2> QED
    BY <2>1, <2>2
<1>7. ASSUME Confirm(r)
      PROVE  \E t \in Jobs :
               /\ Begin(r, t) /\ Sound(t) /\ t.pc = "write" /\ t.op = "paid" /\ t.from = status
               /\ t.to \in Final => t.to = status
               /\ UNCHANGED <<wayRows, effects, cuts, wayHistory>>
  <2> DEFINE t == [pc |-> "write", op |-> "paid", from |-> status,
                   to |-> IF status = "PENDING" THEN "CONFIRMED" ELSE status]
  <2>1. /\ t \in Jobs /\ Sound(t) /\ t.pc = "write" /\ t.op = "paid" /\ t.from = status
        /\ t.to \in Final => t.to = status
    BY <1>0, StatusNames DEF Jobs, Sound, Final
  <2>2. Begin(r, t) /\ UNCHANGED <<wayRows, effects, cuts, wayHistory>>
    BY <1>7 DEF Confirm
  <2> HIDE DEF t
  <2> QED
    BY <2>1, <2>2
<1>8. ASSUME Refund(r)
      PROVE  \E t \in Jobs :
               /\ Begin(r, t) /\ Sound(t) /\ t.pc = "write" /\ t.op = "refunded" /\ t.from = status
               /\ UNCHANGED <<wayRows, effects, cuts, wayHistory>>
  <2> DEFINE t == [pc |-> "write", op |-> "refunded", from |-> status, to |-> "REFUNDED"]
  <2>1. t \in Jobs /\ Sound(t) /\ t.pc = "write" /\ t.op = "refunded" /\ t.from = status
    BY <1>0, StatusNames DEF Jobs, Sound
  <2>2. Begin(r, t) /\ UNCHANGED <<wayRows, effects, cuts, wayHistory>>
    BY <1>8 DEF Refund
  <2> HIDE DEF t
  <2> QED
    BY <2>1, <2>2
<1> HIDE DEF asks
<1>9. ASSUME NEW t \in Jobs, Begin(r, t), Sound(t), t.pc = "write", t.op # "recompute", t.from = status,
             t.op = "paid" /\ t.to \in Final => t.to = status,
             UNCHANGED <<wayRows, effects, cuts, wayHistory>>
      PROVE  /\ Become(r, t) /\ Sound(t) /\ job[r].pc = "idle"
             /\ jobs' \in 0..MaxJobs
             /\ UNCHANGED <<pay, status, commission, effects, cuts, overwritten, byHand, interrupted>>
             /\ UNCHANGED <<stage, shipped>>
  BY <1>2, <1>9 DEF wayRows, wayHistory
<1>10. CASE \E st \in AdminSets : AdminSetsStatus(r, st)
  <2>1. PICK t \in Jobs : /\ Begin(r, t) /\ Sound(t) /\ t.pc = "write" /\ t.op = "admin" /\ t.from = status
                          /\ UNCHANGED <<wayRows, effects, cuts, wayHistory>>
    BY <1>6, <1>10
  <2> QED
    BY <1>9, <2>1
<1>11. CASE Confirm(r)
  <2>1. PICK t \in Jobs : /\ Begin(r, t) /\ Sound(t) /\ t.pc = "write" /\ t.op = "paid" /\ t.from = status
                          /\ t.to \in Final => t.to = status
                          /\ UNCHANGED <<wayRows, effects, cuts, wayHistory>>
    BY <1>7, <1>11
  <2> QED
    BY <1>9, <2>1
<1>12. CASE Refund(r)
  <2>1. PICK t \in Jobs : /\ Begin(r, t) /\ Sound(t) /\ t.pc = "write" /\ t.op = "refunded" /\ t.from = status
                          /\ UNCHANGED <<wayRows, effects, cuts, wayHistory>>
    BY <1>8, <1>12
  <2> QED
    BY <1>9, <2>1
<1> QED
  BY <1>5, <1>10, <1>11, <1>12 DEF Receive

\* What a request in flight becomes, and that it is sound.
LEMMA Proceeded ==
  ASSUME WayTypeInv, NEW r \in Requests, Proceed(r) \/ CutShort(r)
  PROVE  \E t \in Jobs :
    /\ Become(r, t) /\ Sound(t)
    /\ t = NoJob \/ (t.op = job[r].op)
<1>0. job[r] \in Jobs /\ Sound(job[r]) /\ status \in Statuses /\ stage \in [Items -> AllStages] /\ ConstantsOK
  BY DEF WayTypeInv, WayTypeOK
<1>1. Sound(NoJob)
  BY IdleIs DEF Sound
<1>2. CASE Finish(r)
  BY <1>1, <1>2, IdleIs DEF Finish
<1>3. ASSUME NEW pc \in {"cascade", "hook", "mail", "commission"}, Goto(r, pc),
             job[r].op \notin {"none", "paid"}, pc = "cascade" => job[r].op = "admin"
      PROVE  \E t \in Jobs : Become(r, t) /\ Sound(t) /\ t.op = job[r].op
  <2> DEFINE t == [job[r] EXCEPT !.pc = pc]
  <2>1. t \in Jobs /\ t.pc = pc /\ t.op = job[r].op /\ t.from = job[r].from /\ t.to = job[r].to
    BY <1>0, <1>3 DEF Jobs
  <2>2. Become(r, t)
    BY <1>3 DEF Goto
  <2> HIDE DEF t
  <2>3. Sound(t)
    BY <1>0, <1>3, <2>1 DEF Sound
  <2> QED
    BY <2>1, <2>2, <2>3
<1>4. CASE ReadOrder(r) /\ status \notin Terminal
  <2> DEFINE t == [job[r] EXCEPT !.pc = "items", !.from = status]
  <2>1. t \in Jobs /\ t.pc = "items" /\ t.op = job[r].op /\ t.from = status /\ t.to = job[r].to
    BY <1>0 DEF Jobs
  <2>2. Become(r, t) /\ job[r].op = "recompute"
    BY <1>4 DEF ReadOrder, Doing
  <2> HIDE DEF t
  <2>3. Sound(t)
    BY <1>0, <1>4, <2>1, <2>2 DEF Sound
  <2> QED
    BY <2>1, <2>2, <2>3
<1>5. CASE ReadItems(r) /\ ~Finish(r)
  <2> DEFINE to == CandidateFor(stage)
             t  == [job[r] EXCEPT !.pc = "write", !.to = to]
  <2>1. /\ Doing(r, "items", "recompute") /\ Become(r, t) /\ to # "none"
        /\ ~(OrderRank(to) <= OrderRank(job[r].from))
    BY <1>5 DEF ReadItems
  <2>2. to \in Derived
    BY <1>0, <2>1, Candidate
  <2>3. t \in Jobs /\ t.pc = "write" /\ t.op = job[r].op /\ t.from = job[r].from /\ t.to = to
    BY <1>0, <2>2, StatusNames, ZenonT(40) DEF Jobs, Derived
  <2>4. job[r].from \notin Terminal /\ job[r].op = "recompute"
    BY <1>0, <2>1 DEF Sound, Doing
  <2>5. OrderRank(to) \in Nat /\ OrderRank(job[r].from) \in Nat
    BY <1>0, <2>2, <2>4, OrderRanks, StatusNames, TaskFields DEF Derived, Terminal
  <2> HIDE DEF t, to
  <2>6. Sound(t)
    BY <1>0, <2>1, <2>2, <2>3, <2>4, <2>5 DEF Sound
  <2> QED
    BY <2>1, <2>3, <2>6
<1>6. CASE WriteStatus(r)
  BY <1>0, <1>2, <1>3, <1>6, IdleIs DEF WriteStatus, Sound
<1>7. CASE WriteCommission(r)
  <2>1. Goto(r, IF job[r].op = "admin" THEN "cascade" ELSE "hook") /\ job[r].op \notin {"none", "paid"}
    BY <1>0, <1>7 DEF WriteCommission, Sound
  <2> QED
    BY <1>3, <2>1
<1>8. CASE Cascade(r) \/ RunHooks(r)
  BY <1>0, <1>3, <1>8 DEF Cascade, RunHooks, Doing, Sound
<1>9. CASE SendMail(r) \/ CutShort(r) \/ (ReadOrder(r) /\ status \in Terminal)
  BY <1>2, <1>9 DEF SendMail, CutShort, ReadOrder
<1> QED
  BY <1>2, <1>4, <1>5, <1>6, <1>7, <1>8, <1>9 DEF Proceed

\* What the statements of a request in flight write stays within its types.
LEMMA Written ==
  ASSUME WayTypeInv, NEW r \in Requests, Proceed(r) \/ CutShort(r)
  PROVE  /\ pay' \in {"awaiting_payment", "paid", "refunded"} /\ status' \in Statuses
         /\ stage' \in [Items -> AllStages] /\ commission' \in {"PENDING", "COMPLETED", "FAILED"}
         /\ hooked' \in BOOLEAN /\ mailed' \subseteq {"SHIPPED", "DELIVERED", "CANCELLED", "REFUNDED"}
         /\ jobs' \in 0..MaxJobs /\ cuts' \in 0..MaxCuts /\ shipped' \in SUBSET Items
         /\ overwritten' \in BOOLEAN /\ byHand' \in BOOLEAN /\ interrupted' \in BOOLEAN
<1>0. WayTypeOK /\ ConstantsOK /\ job[r] \in Jobs /\ Sound(job[r])
  BY DEF WayTypeInv, WayTypeOK
<1>1. CASE WriteStatus(r)
  BY <1>0, <1>1, TaskFields DEF WriteStatus, Flipped, WayTypeOK, effects
<1>2. CASE WriteCommission(r)
  <2>1. deriveCommissionStatus(job[r].to) \in {"PENDING", "COMPLETED", "FAILED"}
    BY DEF deriveCommissionStatus
  <2> QED
    BY <1>0, <1>2, <2>1 DEF WriteCommission, WayTypeOK, effects, wayHistory
<1>3. CASE Cascade(r)
  <2>1. deriveFulfillmentStatus(job[r].to) # "none" => deriveFulfillmentStatus(job[r].to) \in AllStages
    BY <1>0, StageOf, TaskFields
  <2>2. stage' \in [Items -> AllStages]
    BY <1>0, <1>3, <2>1 DEF Cascade, WayTypeOK
  <2>3. Reached(stage') \subseteq Items
    BY DEF Reached
  <2> QED
    BY <1>0, <1>3, <2>2, <2>3 DEF Cascade, WayTypeOK, effects
<1>4. CASE RunHooks(r) \/ SendMail(r)
  BY <1>0, <1>4 DEF RunHooks, SendMail, WayTypeOK, wayRows, wayHistory
<1>5. CASE CutShort(r)
  BY <1>0, <1>5 DEF CutShort, WayTypeOK, wayRows, effects, ConstantsOK
<1>6. CASE ReadOrder(r) \/ ReadItems(r)
  BY <1>0, <1>6 DEF ReadOrder, ReadItems, WayTypeOK, wayRows, effects, wayHistory
<1> QED
  BY <1>1, <1>2, <1>3, <1>4, <1>5, <1>6 DEF Proceed

LEMMA WayNextTyping == WayTypeInv /\ [WayNext]_wayVars => WayTypeInv'
<1>1. ASSUME WayTypeInv, NEW r \in Requests, Receive(r) PROVE WayTypeInv'
  <2>1. PICK t \in Jobs :
    /\ Become(r, t) /\ Sound(t) /\ jobs' \in 0..MaxJobs
    /\ UNCHANGED <<pay, status, commission, effects, cuts, overwritten, byHand, interrupted>>
    /\ \/ stage' \in [Items -> AllStages] /\ shipped' = shipped \cup Reached(stage')
       \/ UNCHANGED <<stage, shipped>>
    BY <1>1, Received
  <2>2. Reached(stage') \subseteq Items
    BY DEF Reached
  <2>3. stage' \in [Items -> AllStages] /\ shipped' \in SUBSET Items
    BY <1>1, <2>1, <2>2 DEF WayTypeInv, WayTypeOK
  <2>4. UNCHANGED <<pay, status, commission, hooked, mailed, cuts, overwritten, byHand, interrupted>>
    BY <2>1 DEF effects
  <2>5. WayTypeOK
    BY <1>1 DEF WayTypeInv
  <2> QED
    BY <1>1, <2>1, <2>3, <2>4, <2>5, TypeStep DEF WayTypeOK
<1>2. ASSUME WayTypeInv, NEW r \in Requests, Proceed(r) \/ CutShort(r) PROVE WayTypeInv'
  <2>1. PICK t \in Jobs : Become(r, t) /\ Sound(t)
    BY <1>2, Proceeded
  <2> QED
    BY <1>2, <2>1, Written, TypeStep
<1>3. ASSUME WayTypeInv, UNCHANGED wayVars PROVE WayTypeInv'
  BY <1>3 DEF WayTypeInv, WayTypeOK, ConstantsOK, Sound, wayVars
<1> QED
  BY <1>1, <1>2, <1>3 DEF WayNext

LEMMA WayInitTyping == ASSUME ConstantsOK, WayInit PROVE WayTypeInv
<1>1. Sound(NoJob)
  BY IdleIs DEF Sound
<1>2. job \in [Requests -> Jobs] /\ \A r \in Requests : job[r] = NoJob
  BY IdleIs DEF WayInit
<1>3. stage \in [Items -> AllStages] /\ status \in Statuses
  BY StatusNames, StageNames DEF WayInit
<1>4. /\ pay = "awaiting_payment" /\ commission = "PENDING" /\ hooked = FALSE /\ mailed = {}
      /\ jobs \in 0..MaxJobs /\ cuts \in 0..MaxCuts
      /\ shipped = {} /\ overwritten = FALSE /\ byHand = FALSE /\ interrupted = FALSE
  BY DEF WayInit, ConstantsOK
<1>5. WayTypeOK
  BY <1>2, <1>3, <1>4 DEF WayTypeOK
<1> QED
  BY <1>1, <1>2, <1>5 DEF WayTypeInv

\* Rows and requests in flight stay within their types.
THEOREM WayTyped == ASSUME ConstantsOK PROVE WaySpec => []WayTypeOK
<1>1. WayInit => WayTypeInv
  BY WayInitTyping
<1>2. WayTypeInv => WayTypeOK
  BY DEF WayTypeInv
<1> QED
  BY <1>1, <1>2, WayNextTyping, PTL DEF WaySpec

\* Where a step leaves its request.
LEMMA DoneIs ==
  ASSUME WayTypeInv, NEW r \in Requests, Finish(r)
  PROVE  job'[r] = NoJob
BY IdleIs, OneTask DEF Finish

LEMMA GotoIs ==
  ASSUME WayTypeInv, NEW r \in Requests, NEW pc, Goto(r, pc)
  PROVE  /\ job'[r].pc = pc /\ job'[r].op = job[r].op
         /\ job'[r].from = job[r].from /\ job'[r].to = job[r].to
<1>1. job \in [Requests -> Jobs] /\ job'[r] = [job[r] EXCEPT !.pc = pc]
  BY DEF WayTypeInv, WayTypeOK, Goto, Become
<1> QED
  BY <1>1 DEF Jobs

LEMMA ReadOrderIs ==
  ASSUME WayTypeInv, NEW r \in Requests, ReadOrder(r)
  PROVE  /\ job[r].pc = "read"
         /\ status \in Terminal => job'[r] = NoJob
         /\ status \notin Terminal => job'[r].pc = "items" /\ job'[r].from = status
<1>1. job \in [Requests -> Jobs]
  BY DEF WayTypeInv, WayTypeOK
<1>2. CASE status \notin Terminal
  <2>1. job'[r] = [job[r] EXCEPT !.pc = "items", !.from = status]
    BY <1>1, <1>2 DEF ReadOrder, Become
  <2> QED
    BY <1>1, <1>2, <2>1 DEF Jobs, ReadOrder, Doing
<1> QED
  BY <1>2, DoneIs DEF ReadOrder, Doing

LEMMA ReadItemsIs ==
  ASSUME WayTypeInv, NEW r \in Requests, ReadItems(r)
  PROVE  /\ job[r].pc = "items"
         /\ \/ job'[r] = NoJob /\ (CandidateFor(stage) = "none"
                                   \/ ~(OrderRank(job[r].from) < OrderRank(CandidateFor(stage))))
            \/ /\ job'[r].pc = "write" /\ job'[r].op = "recompute"
               /\ job'[r].to = CandidateFor(stage)
<1>0. /\ job \in [Requests -> Jobs] /\ Sound(job[r]) /\ status \in Statuses
      /\ stage \in [Items -> AllStages] /\ ConstantsOK
  BY DEF WayTypeInv, WayTypeOK
<1>1. Doing(r, "items", "recompute")
  BY DEF ReadItems
<1>2. CASE CandidateFor(stage) = "none"
  BY <1>1, <1>2, DoneIs DEF ReadItems, Doing
<1>3. CASE CandidateFor(stage) # "none" /\ OrderRank(CandidateFor(stage)) <= OrderRank(job[r].from)
  <2>1. job'[r] = NoJob
    BY <1>3, DoneIs DEF ReadItems
  <2>2. CandidateFor(stage) \in Derived
    BY <1>0, <1>3, Candidate
  <2>3. job[r].from \notin Terminal /\ job[r].from \in Statuses
    BY <1>0, <1>1, TaskFields DEF Sound, Doing
  <2>4. OrderRank(job[r].from) \in Nat /\ OrderRank(CandidateFor(stage)) \in Nat
    BY <2>2, <2>3, OrderRanks, StatusNames DEF Derived, Terminal
  <2> QED
    BY <1>1, <1>3, <2>1, <2>4 DEF Doing
<1>4. CASE CandidateFor(stage) # "none" /\ ~(OrderRank(CandidateFor(stage)) <= OrderRank(job[r].from))
  <2>1. job'[r] = [job[r] EXCEPT !.pc = "write", !.to = CandidateFor(stage)]
    BY <1>0, <1>4 DEF ReadItems, Become
  <2> QED
    BY <1>0, <1>1, <2>1 DEF Jobs, Doing
<1> QED
  BY <1>2, <1>3, <1>4

\* A status is written, or the payment it goes with was flipped by another.
LEMMA WriteStatusIs ==
  ASSUME WayTypeInv, NEW r \in Requests, WriteStatus(r)
  PROVE  /\ job[r].pc = "write"
         /\ UNCHANGED <<stage, commission, hooked, mailed, interrupted>>
         /\ \/ job'[r] = NoJob /\ UNCHANGED <<status, overwritten, byHand, shipped>>
            \/ /\ status' = job[r].to
               /\ overwritten' = (overwritten \/ Pending(r) \/ status # job[r].from)
               /\ byHand' = (job[r].op = "admin" \/ (byHand /\ status' = status))
               /\ shipped' = IF job[r].op = "admin" /\ job[r].to \in {"SHIPPED", "DELIVERED"}
                             THEN Items ELSE shipped
               /\ job[r].op = "paid" => job'[r] = NoJob
               /\ job[r].op # "paid" =>
                    /\ job'[r].pc = "commission" /\ job'[r].op = job[r].op
                    /\ job'[r].from = job[r].from /\ job'[r].to = job[r].to
BY DoneIs, GotoIs DEF WriteStatus, effects

-------------------------------------------------------------------------------
(* Shipped only with the last line.                                          *)

\* Who is idle or only reads speaks of nothing.
LEMMA ShippedStep ==
  ASSUME WayTypeInv, ShippedInv, NEW r \in Requests, NEW t \in Jobs, Become(r, t),
         shipped \subseteq shipped', shipped' \subseteq Items, Reached(stage') \subseteq shipped',
         status' \in Final => status \in Final \/ shipped' = Items,
         hooked' => hooked \/ shipped' = Items,
         mailed' \cap Final # {} => mailed \cap Final # {} \/ shipped' = Items,
         Speaks(t) => Speaks(job[r]) \/ shipped' = Items
  PROVE  ShippedInv'
<1>1. shipped = Items => shipped' = Items
  BY DEF WayTypeInv, WayTypeOK
<1>2. ShippedWhenAllShipped'
  BY <1>1 DEF ShippedInv, ShippedWhenAllShipped, Final
<1>3. \A q \in Requests : Speaks(job'[q]) => shipped' = Items
  BY <1>1, OneTask DEF ShippedInv
<1> QED
  BY <1>2, <1>3 DEF ShippedInv, Speaks

LEMMA NextShipped == WayTypeInv /\ ShippedInv /\ [WayNext]_wayVars => ShippedInv'
<1> SUFFICES ASSUME WayTypeInv, ShippedInv, [WayNext]_wayVars PROVE ShippedInv'
  OBVIOUS
<1>0. /\ shipped \subseteq Items /\ Reached(stage) \subseteq shipped /\ ConstantsOK
      /\ stage \in [Items -> AllStages] /\ \A items : Reached(items) \subseteq Items
  BY DEF WayTypeInv, WayTypeOK, ShippedInv, Reached
<1>1. CASE UNCHANGED wayVars
  BY <1>1 DEF wayVars, ShippedInv, ShippedWhenAllShipped, Speaks, Reached
<1>2. ASSUME NEW r \in Requests, Receive(r) PROVE ShippedInv'
  <2>1. PICK t \in Jobs :
    /\ Become(r, t)
    /\ UNCHANGED <<status, effects>>
    /\ \/ t.pc = "read" /\ shipped' = shipped \cup Reached(stage')
       \/ /\ t.pc = "write" /\ t.op # "recompute"
          /\ t.op = "paid" /\ t.to \in Final => t.to = status
          /\ UNCHANGED <<stage, shipped>>
    BY <1>2, Received
  <2>2. /\ shipped \subseteq shipped' /\ shipped' \subseteq Items /\ Reached(stage') \subseteq shipped'
        /\ UNCHANGED <<status, hooked, mailed>>
    BY <1>0, <2>1 DEF effects
  <2>3. Speaks(t) => shipped' = Items
    BY <2>1 DEF Speaks, ShippedInv, ShippedWhenAllShipped, Final
  <2> QED
    BY <2>1, <2>2, <2>3, ShippedStep
<1>3. ASSUME NEW r \in Requests, Proceed(r) \/ CutShort(r) PROVE ShippedInv'
  <2>0. job[r] \in Jobs /\ Sound(job[r])
    BY DEF WayTypeInv, WayTypeOK
  <2>1. PICK t \in Jobs : Become(r, t)
    BY <1>3, Proceeded
  <2>2. job'[r] = t
    BY <2>1, OneTask
  <2>3. CASE ReadOrder(r)
    <3>1. UNCHANGED <<status, stage, shipped, hooked, mailed>>
      BY <2>3 DEF ReadOrder, wayRows, effects, wayHistory
    <3>2. ~Speaks(t)
      BY <2>2, <2>3, IdleIs, ReadOrderIs DEF Speaks
    <3> QED
      BY <1>0, <2>1, <3>1, <3>2, ShippedStep
  <2>4. CASE ReadItems(r)
    <3>1. UNCHANGED <<status, stage, shipped, hooked, mailed>>
      BY <2>4 DEF ReadItems, wayRows, effects, wayHistory
    <3>2. t = NoJob \/ t.to = CandidateFor(stage)
      BY <2>2, <2>4, ReadItemsIs
    <3>3. Speaks(t) => shipped = Items
      BY <1>0, <3>2, Candidate, IdleIs DEF Speaks
    <3> QED
      BY <1>0, <2>1, <3>1, <3>3, ShippedStep
  <2>5. CASE WriteStatus(r)
    <3>1. UNCHANGED <<stage, hooked, mailed>> /\ job[r].pc = "write"
      BY <2>5, WriteStatusIs
    <3>2. CASE t = NoJob /\ UNCHANGED <<status, shipped>>
      BY <1>0, <2>1, <3>1, <3>2, ShippedStep, IdleIs DEF Speaks
    <3>3. CASE /\ status' = job[r].to /\ (t.pc = "idle" \/ t.to = job[r].to)
               /\ shipped' = IF job[r].op = "admin" /\ job[r].to \in {"SHIPPED", "DELIVERED"}
                             THEN Items ELSE shipped
      <4>1. job[r].to \in Final => shipped' = Items
        BY <2>0, <3>1, <3>3, TaskFields DEF ShippedInv, Speaks, Final, Sound
      <4> QED
        BY <1>0, <2>1, <3>1, <3>3, <4>1, ShippedStep DEF Speaks
    <3> QED
      BY <2>2, <2>5, <3>2, <3>3, WriteStatusIs, IdleIs
  <2>6. CASE WriteCommission(r) \/ RunHooks(r)
    <3>1. /\ UNCHANGED <<status, stage, shipped, mailed>>
          /\ hooked' => hooked \/ (job[r].pc = "hook" /\ job[r].to = "SHIPPED")
          /\ job[r].pc \in {"commission", "hook"} /\ t.to = job[r].to
      <4>1. CASE WriteCommission(r)
        BY <2>2, <4>1, GotoIs DEF WriteCommission, effects, wayHistory
      <4>2. CASE RunHooks(r)
        BY <2>2, <4>2, GotoIs DEF RunHooks, wayRows, wayHistory
      <4> QED
        BY <2>6, <4>1, <4>2
    <3>2. Speaks(t) => Speaks(job[r])
      BY <3>1 DEF Speaks
    <3>3. hooked' => hooked \/ shipped = Items
      BY <3>1 DEF ShippedInv, Speaks, Final
    <3> QED
      BY <1>0, <2>1, <3>1, <3>2, <3>3, ShippedStep
  <2>7. CASE Cascade(r)
    <3>1. /\ UNCHANGED <<status, hooked, mailed>> /\ shipped' = shipped \cup Reached(stage')
          /\ job[r].pc = "cascade" /\ t.to = job[r].to
      BY <2>2, <2>7, GotoIs DEF Cascade, Doing, effects
    <3>2. Speaks(t) => Speaks(job[r])
      BY <3>1 DEF Speaks
    <3> QED
      BY <1>0, <2>1, <3>1, <3>2, ShippedStep
  <2>8. CASE SendMail(r)
    <3>1. /\ UNCHANGED <<status, stage, shipped, hooked>> /\ t = NoJob /\ job[r].pc = "mail"
          /\ mailed' \subseteq mailed \cup {job[r].to}
      BY <2>2, <2>8, DoneIs DEF SendMail, wayRows, wayHistory
    <3>2. mailed' \cap Final # {} => mailed \cap Final # {} \/ shipped = Items
      BY <3>1 DEF ShippedInv, Speaks
    <3> QED
      BY <1>0, <2>1, <3>1, <3>2, ShippedStep, IdleIs DEF Speaks
  <2>9. CASE CutShort(r)
    <3>1. UNCHANGED <<status, stage, shipped, hooked, mailed>> /\ t = NoJob
      BY <2>2, <2>9, DoneIs DEF CutShort, wayRows, effects
    <3> QED
      BY <1>0, <2>1, <3>1, ShippedStep, IdleIs DEF Speaks
  <2> QED
    BY <1>3, <2>3, <2>4, <2>5, <2>6, <2>7, <2>8, <2>9 DEF Proceed
<1> QED
  BY <1>1, <1>2, <1>3 DEF WayNext

-------------------------------------------------------------------------------
(* Status, commission, hooks and mail follow each other.                     *)

WritesOn(t, u) == t.pc \in Writing => u.pc \in Writing /\ t.to = u.to /\ t.op = u.op

\* Steps that leave the status alone.
LEMMA CommissionStep ==
  ASSUME WayTypeInv, CommissionInv, NEW r \in Requests, NEW t \in Jobs, Become(r, t),
         InStep' => InStep, UNCHANGED <<status, byHand>>,
         InStep' => WritesOn(t, job[r]),
         InStep' => \/ commission' = commission /\ (job[r].pc = "commission" => t.pc = "commission")
                    \/ commission' = deriveCommissionStatus(status)
  PROVE  CommissionInv'
<1> SUFFICES ASSUME InStep' PROVE
     /\ \A q \in Requests : job'[q].pc \in Writing =>
          job'[q].to = status /\ (job'[q].op = "admin" => byHand)
     /\ \A p, q \in Requests : job'[p].pc \in Writing /\ job'[q].pc \in Writing => p = q
     /\ \/ commission' = deriveCommissionStatus(status)
        \/ \E q \in Requests : job'[q].pc = "commission"
  BY DEF CommissionInv
<1>1. /\ job'[r] = t /\ \A q \in Requests \ {r} : job'[q] = job[q]
      /\ t.pc \in Writing => job[r].pc \in Writing /\ t.to = job[r].to /\ t.op = job[r].op
  BY OneTask DEF WritesOn
<1>2. \A q \in Requests : job'[q].pc \in Writing =>
        job[q].pc \in Writing /\ job'[q].to = job[q].to /\ job'[q].op = job[q].op
  BY <1>1
<1>3. commission' = deriveCommissionStatus(status) \/ \E q \in Requests : job'[q].pc = "commission"
  <2>1. CASE commission' = commission /\ (job[r].pc = "commission" => t.pc = "commission")
    BY <1>1, <2>1 DEF CommissionInv
  <2> QED
    BY <2>1
<1> QED
  BY <1>2, <1>3 DEF CommissionInv

Hooks(t) == t.pc \in Writing \cup {"hook"} /\ Ships(t)
Mails(t) == t.pc \in Writing \cup {"hook", "mail"} /\ Ships(t)

LEMMA ToldStep ==
  ASSUME WayTypeInv, ToldInv, NEW r \in Requests, NEW t \in Jobs, Become(r, t),
         InStep' => InStep, status' = "SHIPPED" => status = "SHIPPED",
         hooked => hooked', mailed \subseteq mailed',
         InStep' /\ Hooks(job[r]) => hooked' \/ Hooks(t),
         InStep' /\ Mails(job[r]) => "SHIPPED" \in mailed' \/ Mails(t)
  PROVE  ToldInv'
<1> SUFFICES ASSUME InStep', status' = "SHIPPED" PROVE
     /\ hooked' \/ \E q \in Requests : Hooks(job'[q])
     /\ "SHIPPED" \in mailed' \/ \E q \in Requests : Mails(job'[q])
  BY DEF ToldInv, Hooks, Mails, Ships
<1>1. job'[r] = t /\ \A q \in Requests \ {r} : job'[q] = job[q]
  BY OneTask
<1>2. /\ hooked \/ \E q \in Requests : Hooks(job[q])
      /\ "SHIPPED" \in mailed \/ \E q \in Requests : Mails(job[q])
  BY DEF ToldInv, Hooks, Mails
<1> QED
  BY <1>1, <1>2

\* Nobody who was to bring the order up to its lines stops before it is.
LEMMA BehindStep ==
  ASSUME WayTypeInv, BehindInv, NEW r \in Requests, NEW t \in Jobs, Become(r, t),
         InStep' => InStep, UNCHANGED <<status, stage, byHand>>,
         InStep' /\ Behind /\ Catches(job[r], stage) => Catches(t, stage)
  PROVE  BehindInv'
<1> SUFFICES ASSUME InStep', Behind PROVE Ahead \/ \E q \in Requests : Catches(job'[q], stage)
  BY DEF BehindInv, Behind, Ahead, Catches
<1>1. job'[r] = t /\ \A q \in Requests \ {r} : job'[q] = job[q]
  BY OneTask
<1> QED
  BY <1>1 DEF BehindInv

LEMMA ReceiveCaught ==
  ASSUME WayTypeInv, CaughtInv, NEW r \in Requests, Receive(r)
  PROVE  CaughtInv'
<1>1. PICK t \in Jobs :
    /\ Become(r, t) /\ job[r].pc = "idle"
    /\ UNCHANGED <<pay, status, commission, effects, cuts, overwritten, byHand, interrupted>>
    /\ \/ t.pc = "read"
       \/ t.pc = "write" /\ UNCHANGED stage
  BY Received
<1>2. UNCHANGED <<status, commission, hooked, mailed, overwritten, byHand, interrupted>>
  BY <1>1 DEF effects
<1>3. InStep' <=> InStep
  BY <1>2 DEF InStep
<1>4. CommissionInv'
  BY <1>1, <1>2, <1>3, CommissionStep DEF CaughtInv, WritesOn, Writing
<1>5. ToldInv'
  BY <1>1, <1>2, <1>3, ToldStep DEF CaughtInv, Hooks, Mails, Writing
<1>6. BehindInv'
  <2>1. CASE t.pc = "read"
    <3>1. Catches(job'[r], stage')
      BY <1>1, <2>1, OneTask DEF Catches
    <3> QED
      BY <3>1 DEF BehindInv, Catches
  <2>2. CASE UNCHANGED stage
    BY <1>1, <1>2, <1>3, <2>2, BehindStep DEF CaughtInv, Catches, Writing
  <2> QED
    BY <1>1, <2>1, <2>2
<1> QED
  BY <1>4, <1>5, <1>6 DEF CaughtInv

LEMMA ReadCaught ==
  ASSUME WayTypeInv, CaughtInv, NEW r \in Requests, ReadOrder(r) \/ ReadItems(r)
  PROVE  CaughtInv'
<1>1. PICK t \in Jobs : Become(r, t)
  BY Proceeded DEF Proceed
<1>2. job'[r] = t
  BY <1>1, OneTask
<1>3. UNCHANGED <<status, stage, commission, hooked, mailed, overwritten, byHand, interrupted>>
  BY DEF ReadOrder, ReadItems, wayRows, effects, wayHistory
<1>4. InStep' <=> InStep
  BY <1>3 DEF InStep
<1>5. job[r].pc \in {"read", "items"} /\ t.pc \in {"idle", "items", "write"}
  BY <1>2, ReadOrderIs, ReadItemsIs, IdleIs
<1>6. CommissionInv'
  BY <1>1, <1>3, <1>4, <1>5, CommissionStep DEF CaughtInv, WritesOn, Writing
<1>7. ToldInv'
  BY <1>1, <1>3, <1>4, <1>5, ToldStep DEF CaughtInv, Hooks, Mails, Writing
<1>8. Behind /\ Catches(job[r], stage) => Catches(t, stage)
  <2>1. CASE ReadOrder(r)
    BY <1>2, <2>1, ReadOrderIs DEF Behind, Catches
  <2>2. CASE ReadItems(r)
    <3>1. job[r].pc = "items"
      BY <2>2, ReadItemsIs
    <3>2. ConstantsOK /\ stage \in [Items -> AllStages]
      BY DEF WayTypeInv, WayTypeOK
    <3>3. Behind => OrderRank(CandidateFor(stage)) \in Nat
      BY <3>2, Candidate, OrderRanks DEF Behind, Derived
    <3> QED
      BY <1>2, <2>2, <3>1, <3>3, ReadItemsIs DEF Behind, Catches, Writing
  <2> QED
    BY <2>1, <2>2
<1>9. BehindInv'
  BY <1>1, <1>3, <1>4, <1>8, BehindStep DEF CaughtInv
<1> QED
  BY <1>6, <1>7, <1>9 DEF CaughtInv

LEMMA CommissionCaught ==
  ASSUME WayTypeInv, CaughtInv, NEW r \in Requests, WriteCommission(r)
  PROVE  CaughtInv'
<1>1. PICK t \in Jobs : Become(r, t)
  BY Proceeded DEF Proceed
<1>2. /\ job'[r] = t /\ job[r].pc = "commission"
      /\ t.pc = IF job[r].op = "admin" THEN "cascade" ELSE "hook"
      /\ t.op = job[r].op /\ t.from = job[r].from /\ t.to = job[r].to
  BY <1>1, OneTask, GotoIs DEF WriteCommission
<1>3. /\ UNCHANGED <<status, stage, hooked, mailed, overwritten, byHand, interrupted>>
      /\ commission' = deriveCommissionStatus(job[r].to)
  BY DEF WriteCommission, effects, wayHistory
<1>4. InStep' <=> InStep
  BY <1>3 DEF InStep
<1>5. InStep => job[r].to = status
  BY <1>2 DEF CaughtInv, CommissionInv, Writing
<1>6. CommissionInv'
  BY <1>1, <1>2, <1>3, <1>4, <1>5, CommissionStep DEF CaughtInv, WritesOn, Writing
<1>7. ToldInv'
  BY <1>1, <1>2, <1>3, <1>4, ToldStep DEF CaughtInv, Hooks, Mails, Ships, Writing
<1>8. BehindInv'
  BY <1>1, <1>2, <1>3, <1>4, BehindStep DEF CaughtInv, Catches, Writing
<1> QED
  BY <1>6, <1>7, <1>8 DEF CaughtInv

LEMMA CascadeCaught ==
  ASSUME WayTypeInv, CaughtInv, NEW r \in Requests, Cascade(r)
  PROVE  CaughtInv'
<1>1. PICK t \in Jobs : Become(r, t)
  BY Proceeded DEF Proceed
<1>2. /\ job'[r] = t /\ job[r].pc = "cascade" /\ job[r].op = "admin" /\ t.pc = "hook"
      /\ t.op = job[r].op /\ t.from = job[r].from /\ t.to = job[r].to
  BY <1>1, OneTask, GotoIs DEF Cascade, Doing
<1>3. UNCHANGED <<status, commission, hooked, mailed, overwritten, byHand, interrupted>>
  BY DEF Cascade, effects
<1>4. InStep' <=> InStep
  BY <1>3 DEF InStep
<1>5. InStep => job[r].to = status /\ byHand
  BY <1>2 DEF CaughtInv, CommissionInv, Writing
<1>6. CommissionInv'
  BY <1>1, <1>2, <1>3, <1>4, CommissionStep DEF CaughtInv, WritesOn, Writing
<1>7. ToldInv'
  BY <1>1, <1>2, <1>3, <1>4, ToldStep DEF CaughtInv, Hooks, Mails, Ships, Writing
<1>8. BehindInv'
  <2> SUFFICES ASSUME InStep, Behind' PROVE Ahead'
    BY <1>4 DEF BehindInv
  <2> DEFINE to == deriveFulfillmentStatus(status)
  <2>0. ConstantsOK /\ status \in Statuses
    BY DEF WayTypeInv, WayTypeOK
  <2>1. status \notin Terminal
    BY <1>3 DEF Behind
  <2>2. to \in AllStages /\ to # "none"
    BY <2>0, <2>1, StageOf
  <2>3. stage' = [i \in Items |-> to]
    BY <1>5, <2>2 DEF Cascade
  <2>4. CandidateFor(stage') = IF to = "PENDING" THEN "none" ELSE to
    BY <2>0, <2>2, <2>3, CandidateOfCascade
  <2>5. /\ CandidateFor(stage') # "none" /\ to # "PENDING"
        /\ OrderRank(status) < OrderRank(to)
    BY <1>3, <2>4 DEF Behind
  <2>6. status = "CONFIRMED" /\ to = "PROCESSING"
    BY <2>0, <2>1, <2>5, OrderRanks, StatusNames DEF deriveFulfillmentStatus, Terminal
  <2> QED
    BY <1>3, <1>5, <2>4, <2>6 DEF Ahead
<1> QED
  BY <1>6, <1>7, <1>8 DEF CaughtInv

LEMMA TellCaught ==
  ASSUME WayTypeInv, CaughtInv, NEW r \in Requests, RunHooks(r) \/ SendMail(r)
  PROVE  CaughtInv'
<1>1. PICK t \in Jobs : Become(r, t)
  BY Proceeded DEF Proceed
<1>2. job'[r] = t
  BY <1>1, OneTask
<1>3. UNCHANGED <<status, stage, commission, overwritten, byHand, interrupted>>
  BY DEF RunHooks, SendMail, wayRows, wayHistory
<1>4. InStep' <=> InStep
  BY <1>3 DEF InStep
<1>5. CASE RunHooks(r)
  <2>1. /\ job[r].pc = "hook" /\ t.pc = "mail" /\ t.from = job[r].from /\ t.to = job[r].to
        /\ mailed' = mailed /\ (hooked => hooked')
        /\ Ships(job[r]) => hooked'
    BY <1>2, <1>5, GotoIs DEF RunHooks, Ships
  <2>2. CommissionInv'
    BY <1>1, <1>3, <1>4, <2>1, CommissionStep DEF CaughtInv, WritesOn, Writing
  <2>3. ToldInv'
    BY <1>1, <1>3, <1>4, <2>1, ToldStep DEF CaughtInv, Hooks, Mails, Ships
  <2>4. BehindInv'
    BY <1>1, <1>3, <1>4, <2>1, BehindStep DEF CaughtInv, Catches, Writing
  <2> QED
    BY <2>2, <2>3, <2>4 DEF CaughtInv
<1>6. CASE SendMail(r)
  <2>1. /\ job[r].pc = "mail" /\ t.pc = "idle" /\ hooked' = hooked /\ mailed \subseteq mailed'
        /\ Ships(job[r]) => "SHIPPED" \in mailed'
    BY <1>2, <1>6, DoneIs, IdleIs DEF SendMail, Ships
  <2>2. CommissionInv'
    BY <1>1, <1>3, <1>4, <2>1, CommissionStep DEF CaughtInv, WritesOn, Writing
  <2>3. ToldInv'
    BY <1>1, <1>3, <1>4, <2>1, ToldStep DEF CaughtInv, Hooks, Mails, Writing
  <2>4. BehindInv'
    BY <1>1, <1>3, <1>4, <2>1, BehindStep DEF CaughtInv, Catches, Writing
  <2> QED
    BY <2>2, <2>3, <2>4 DEF CaughtInv
<1> QED
  BY <1>5, <1>6

\* A status written over the one that was read, with nobody between.
LEMMA WriteCaught ==
  ASSUME WayTypeInv, CaughtInv, NEW r \in Requests, WriteStatus(r)
  PROVE  CaughtInv'
<1>0. /\ ConstantsOK /\ job[r] \in Jobs /\ Sound(job[r]) /\ status \in Statuses
      /\ stage \in [Items -> AllStages] /\ job[r].pc = "write" /\ overwritten \in BOOLEAN
      /\ UNCHANGED <<stage, commission, hooked, mailed, interrupted>>
  BY WriteStatusIs DEF WayTypeInv, WayTypeOK
<1>1. PICK t \in Jobs : Become(r, t)
  BY Proceeded DEF Proceed
<1>2. job'[r] = t /\ \A q \in Requests \ {r} : job'[q] = job[q]
  BY <1>1, OneTask
<1>3. CASE job'[r] = NoJob /\ UNCHANGED <<status, overwritten, byHand, shipped>> /\ job[r].op # "recompute"
  <2>1. InStep' <=> InStep
    BY <1>0, <1>3 DEF InStep
  <2>2. CommissionInv'
    BY <1>0, <1>1, <1>2, <1>3, <2>1, IdleIs, CommissionStep DEF CaughtInv, WritesOn, Writing
  <2>3. ToldInv'
    BY <1>0, <1>1, <1>3, <2>1, ToldStep DEF CaughtInv, Hooks, Mails, Writing
  <2>4. BehindInv'
    BY <1>0, <1>1, <1>3, <2>1, BehindStep DEF CaughtInv, Catches, Writing
  <2> QED
    BY <2>2, <2>3, <2>4 DEF CaughtInv
<1>4. CASE /\ status' = job[r].to
           /\ overwritten' = (overwritten \/ Pending(r) \/ status # job[r].from)
           /\ byHand' = (job[r].op = "admin" \/ (byHand /\ status' = status))
           /\ job[r].op = "paid" => job'[r] = NoJob
           /\ job[r].op # "paid" =>
                /\ job'[r].pc = "commission" /\ job'[r].op = job[r].op
                /\ job'[r].from = job[r].from /\ job'[r].to = job[r].to
  <2>1. SUFFICES ASSUME InStep' PROVE CaughtInv'
    BY DEF CaughtInv, CommissionInv, ToldInv, BehindInv
  <2>2. InStep /\ status = job[r].from /\ \A q \in Requests \ {r} : job[q].pc \notin Writing
    BY <1>0, <1>4, <2>1 DEF InStep, Pending, Writing
  <2>3. \A q \in Requests : job[q].pc \notin Writing
    BY <1>0, <2>2 DEF Writing
  <2>4. commission = deriveCommissionStatus(status)
    BY <2>2, <2>3 DEF CaughtInv, CommissionInv, Writing
  <2>5. \A q \in Requests : job'[q].pc \in Writing =>
          q = r /\ job[r].op # "paid" /\ job'[q].to = status' /\ (job'[q].op = "admin" => byHand')
    BY <1>2, <1>4, <2>3, IdleIs DEF Writing
  <2>6. job[r].op = "paid" => deriveCommissionStatus(status') = deriveCommissionStatus(status)
    BY <1>0, <1>4, <2>2 DEF Sound, deriveCommissionStatus, Terminal
  <2>7. CommissionInv'
    BY <1>0, <1>4, <2>4, <2>5, <2>6 DEF CommissionInv
  <2>8. ToldInv'
    <3> SUFFICES ASSUME status' = "SHIPPED" PROVE
         /\ hooked' \/ \E q \in Requests : Hooks(job'[q])
         /\ "SHIPPED" \in mailed' \/ \E q \in Requests : Mails(job'[q])
      BY DEF ToldInv, Hooks, Mails, Ships
    <3>1. CASE status = "SHIPPED"
      <4>1. /\ hooked \/ \E q \in Requests \ {r} : Hooks(job[q])
            /\ "SHIPPED" \in mailed \/ \E q \in Requests \ {r} : Mails(job[q])
        BY <1>0, <2>2, <3>1 DEF CaughtInv, ToldInv, Hooks, Mails, Writing
      <4> QED
        BY <1>0, <1>2, <4>1
    <3>2. CASE status # "SHIPPED"
      <4>1. job[r].op # "paid"
        BY <1>0, <1>4, <2>2, <3>2 DEF Sound
      <4>2. Hooks(job'[r]) /\ Mails(job'[r])
        BY <1>4, <2>2, <3>2, <4>1 DEF Hooks, Mails, Ships, Writing
      <4> QED
        BY <4>2
    <3> QED
      BY <3>1, <3>2
  <2>9. BehindInv'
    <3> SUFFICES ASSUME Behind' PROVE Ahead' \/ \E q \in Requests : Catches(job'[q], stage)
      BY <1>0 DEF BehindInv, Catches
    <3> DEFINE lines == CandidateFor(stage)
    <3>1. /\ status' \notin Terminal /\ status' \in Statuses /\ lines \in Derived
          /\ OrderRank(status') < OrderRank(lines)
      BY <1>0, <1>4, Candidate, TaskFields DEF Behind
    <3>2. CASE job[r].op = "admin"
      BY <1>4, <3>2 DEF Catches, Writing
    <3>3. CASE job[r].op = "refunded"
      BY <1>0, <1>4, <3>1, <3>3 DEF Sound, Terminal
    <3>4. CASE job[r].op \in {"paid", "recompute"}
      <4>1. status \notin Terminal /\ OrderRank(status) <= OrderRank(status')
        BY <1>0, <1>4, <2>2, <3>1, <3>4, OrderRanks, StatusNames DEF Sound, Terminal, Derived
      <4>2. Behind
        BY <3>1, <4>1, <1>0, OrderRanks, StatusNames DEF Behind, Derived, Terminal
      <4>3. CASE Ahead
        <5>1. job[r].op = "paid"
          BY <1>0, <1>4, <2>2, <3>1, <3>4, <4>3, OrderRanks DEF Ahead, Sound, Derived
        <5> QED
          BY <1>0, <1>4, <2>2, <4>3, <5>1 DEF Ahead, Sound
      <4>4. CASE \E q \in Requests : Catches(job[q], stage)
        <5>1. PICK q \in Requests : Catches(job[q], stage)
          BY <4>4
        <5>2. q # r
          <6>1. OrderRank(job[r].to) \in Nat /\ OrderRank(lines) \in Nat
            BY <1>4, <3>1, OrderRanks, StatusNames DEF Derived, Terminal
          <6> QED
            BY <1>0, <1>4, <3>1, <5>1, <6>1 DEF Catches, Writing
        <5> QED
          BY <1>2, <5>1, <5>2
      <4> QED
        BY <2>2, <4>2, <4>3, <4>4 DEF CaughtInv, BehindInv
    <3> QED
      BY <1>0, <3>2, <3>3, <3>4, TaskFields DEF Sound
  <2> QED
    BY <2>7, <2>8, <2>9 DEF CaughtInv
<1>5. job'[r] = NoJob => job[r].op # "recompute"
  BY GotoIs, IdleIs DEF WriteStatus
<1> QED
  BY <1>3, <1>4, <1>5, WriteStatusIs

LEMMA NextCaught == WayTypeInv /\ CaughtInv /\ [WayNext]_wayVars => CaughtInv'
<1> SUFFICES ASSUME WayTypeInv, CaughtInv, [WayNext]_wayVars PROVE CaughtInv'
  OBVIOUS
<1>1. CASE UNCHANGED wayVars
  BY <1>1 DEF wayVars, CaughtInv, CommissionInv, ToldInv, BehindInv, InStep, Behind, Ahead, Catches, Ships
<1>2. ASSUME NEW r \in Requests, CutShort(r) PROVE CaughtInv'
  BY <1>2 DEF CutShort, CaughtInv, CommissionInv, ToldInv, BehindInv, InStep
<1> QED
  BY <1>1, <1>2, ReceiveCaught, ReadCaught, WriteCaught, CommissionCaught, CascadeCaught,
     TellCaught DEF WayNext, Proceed

LEMMA InitWay == ASSUME ConstantsOK, WayInit PROVE ShippedInv /\ CaughtInv
<1>1. \A r \in Requests : job[r].pc = "idle"
  BY IdleIs DEF WayInit
<1>2. stage = [i \in Items |-> "PENDING"] /\ "PENDING" \in AllStages
  BY StageNames DEF WayInit
<1>3. Reached(stage) = {}
  BY <1>2, StageRanks DEF Reached
<1>4. ShippedInv
  BY <1>1, <1>3 DEF WayInit, ShippedInv, ShippedWhenAllShipped, Speaks
<1>5. CandidateFor(stage) = "none"
  BY <1>2, CandidateOfCascade
<1>6. CommissionInv /\ ToldInv /\ BehindInv
  BY <1>1, <1>5 DEF WayInit, CommissionInv, ToldInv, BehindInv, Behind, Writing,
                    deriveCommissionStatus, Terminal
<1> QED
  BY <1>4, <1>6 DEF CaughtInv

\* recomputeOrderStatusFromItems, updateStatus, markOrderPaid and markOrderRefunded:
\* an order is shipped, its authorization captured and its customer told so only
\* with its last line; and once no request is in flight status, lines, commission,
\* hooks and mails agree, unless a status was written over a newer one or a
\* request was cut short.
THEOREM LinesAreFollowed == ASSUME ConstantsOK PROVE WaySpec => []OrderFollowsLines
<1>1. WayInit => WayTypeInv /\ ShippedInv /\ CaughtInv
  BY WayInitTyping, InitWay
<1>2. WayTypeInv /\ ShippedInv /\ CaughtInv /\ [WayNext]_wayVars => (WayTypeInv /\ ShippedInv /\ CaughtInv)'
  BY WayNextTyping, NextShipped, NextCaught
<1>3. WayTypeInv /\ ShippedInv /\ CaughtInv => OrderFollowsLines
  <2> SUFFICES ASSUME WayTypeInv, ShippedInv, CaughtInv PROVE OrderFollowsLines
    OBVIOUS
  <2>1. ASSUME Quiet, ~overwritten, ~interrupted
        PROVE  /\ commission = deriveCommissionStatus(status)
               /\ Behind => Ahead
               /\ status = "SHIPPED" => hooked /\ "SHIPPED" \in mailed
    BY <2>1 DEF CaughtInv, CommissionInv, ToldInv, BehindInv, Quiet, InStep, Catches, Writing
  <2> QED
    BY <2>1 DEF OrderFollowsLines, CaughtUp, ShippedInv
<1> QED
  BY <1>1, <1>2, <1>3, PTL DEF WaySpec
===============================================================================
