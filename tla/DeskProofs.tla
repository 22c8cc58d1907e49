------------------------------ MODULE DeskProofs ------------------------------
(***************************************************************************)
(* Proofs about the administration: the accounts (Accounts), what a store  *)
(* is set up with and shows (StoreDesk), its mails (Mail) and the backups  *)
(* (Backups), each for any rows, addresses, statuses, slots, failures and  *)
(* numbers of requests in flight.                                          *)
(***************************************************************************)
EXTENDS Accounts, StoreDesk, Mail, Backups, FiniteSetTheorems, WellFoundedInduction, TLAPS

-------------------------------------------------------------------------------
(* Requests.                                                                 *)

\* A request that moves leaves the others where they are.
LEMMA StartMoves ==
  ASSUME NEW Calls, req \in [Requests -> Calls], NEW r \in Requests, NEW q \in Calls, Start(r, q)
  PROVE  /\ req' \in [Requests -> Calls] /\ req'[r] = q
         /\ \A s \in Requests \ {r} : req'[s] = req[s]
BY DEF Start

LEMMA EndMoves ==
  ASSUME NEW Calls, req \in [Requests -> Calls], Over \in Calls, NEW r \in Requests, Ends(r)
  PROVE  /\ req' \in [Requests -> Calls] /\ req'[r] = Over
         /\ \A s \in Requests \ {r} : req'[s] = req[s]
BY DEF Ends, Done

-------------------------------------------------------------------------------
(* Accounts: typing.                                                         *)

Addresses == DOMAIN Normal
Links == [u : Users, by : Requests \cup {0}, after : Nat]
AccountCalls ==
  {Idle, Over}
    \cup [op : {"make"}, at : {"user"}, email : Addresses, role : UserRoles, status : UserStatuses,
          u : {0}, saw : {{}}]
    \cup [op : {"make"}, at : {"profile"}, email : Addresses, role : UserRoles, status : UserStatuses,
          u : Users, saw : {{}}]
    \cup [op : {"guest"}, email : Addresses, saw : {{}}]
    \cup [op : {"edit"}, u : Users, email : Addresses, status : UserStatuses, saw : {{}}]
    \cup [op : {"remove", "forget"}, u : Users]
    \cup [op : {"reset"}, at : {"hash", "revoke"}, u : Users, link : SUBSET Links]

AccountsTypeInv ==
  /\ req \in [Requests -> AccountCalls]
  /\ user \in [Users -> UserRows \cup {Unmade, Erased}]
  /\ link \subseteq Links /\ resets \in [Users -> Nat]

\* The accounts are the rows there are.
LEMMA AccountIsRow ==
  ASSUME AccountsTypeInv, NEW u \in Users
  PROVE  Account(u) <=> user[u] \in UserRows
BY DEF AccountsTypeInv, Account, UserRows, Unmade, Erased, UserRoles

LEMMA AccountCallFields ==
  ASSUME NEW q \in AccountCalls
  PROVE  /\ q.op = "make" => /\ q.email \in Addresses /\ q.role \in UserRoles /\ q.status \in UserStatuses
                             /\ q.saw = {} /\ q.at \in {"user", "profile"}
                             /\ q.at = "user" => q.u = 0
                             /\ q.at = "profile" => q.u \in Users
         /\ q.op = "guest" => q.email \in Addresses /\ q.saw = {}
         /\ q.op = "edit" => q.u \in Users /\ q.email \in Addresses /\ q.status \in UserStatuses /\ q.saw = {}
         /\ q.op \in {"remove", "forget"} => q.u \in Users
         /\ q.op = "reset" => q.u \in Users /\ q.at \in {"hash", "revoke"} /\ q.link \subseteq Links
BY DEF AccountCalls, Idle, Over
LEMMA OverIsCall == Idle \in AccountCalls /\ Over \in AccountCalls
BY DEF AccountCalls

LEMMA NormalTyped == ASSUME NEW e \in Emails PROVE e \in Addresses /\ Normal[e] \in Addresses
BY NormalOK DEF Addresses

\* What an arriving request takes up, and that it touches no row on the way.
AskStep(r) ==
  \/ \E e \in Emails : Forgets(r, e)
  \/ \E e \in Emails : MakesGuest(r, e)
  \/ \E e \in Emails, role \in UserRoles : Registers(r, e, role)
  \/ \E e \in Emails, role \in UserRoles : AdminMakes(r, e, role, "ACTIVE")
  \/ \E u \in Users : AdminResets(r, u)
  \/ \E u \in Users, e \in Emails : EditsUser(r, u, e, "ACTIVE")
  \/ \E u, by \in Users : RemovesUser(r, u, by)
  \/ \E l \in link : Resets(r, l)
RowStep(r) ==
  \/ \E u \in Users : AddsProfile(r, u) \/ LogsOut(r, u) \/ SetsStatus(r, u, "SUSPENDED")
  \/ StoresGuest(r) \/ StoresUser(r) \/ StoresProfile(r) \/ MakingDies(r) \/ StoresEdit(r) \/ Erases(r)
  \/ StoresLink(r) \/ StoresPassword(r) \/ Revokes(r) \/ ResetDies(r)

LEMMA AccountsNextIs ==
  ASSUME NEW r \in Requests
  PROVE  AccountsNext(r, UserRoles) => AskStep(r) \/ RowStep(r)
BY DEF AccountsNext, AskStep, RowStep

LEMMA MakesTyped ==
  ASSUME NEW r \in Requests, NEW e \in Addresses, NEW role \in UserRoles, NEW status \in UserStatuses,
         req \in [Requests -> AccountCalls], Makes(r, e, role, status, {})
  PROVE  /\ req' \in [Requests -> AccountCalls] /\ req'[r].op = "make"
         /\ \A s \in Requests \ {r} : req'[s] = req[s]
<1> DEFINE q == [op |-> "make", at |-> "user", email |-> e, role |-> role, status |-> status, u |-> 0, saw |-> {}]
<1>1. q \in AccountCalls /\ q.op = "make" /\ Start(r, q)
  BY DEF AccountCalls, Makes
<1> HIDE DEF q
<1> QED
  BY <1>1, StartMoves

\* A request that arrives leaves the rows alone, but for the profile of a
\* customer who pays as a guest again.
LEMMA AskMoves ==
  ASSUME AccountsTypeInv, NEW r \in Requests, AskStep(r)
  PROVE  /\ AccountsTypeInv' /\ req[r] = Idle
         /\ \A s \in Requests \ {r} : req'[s] = req[s]
         /\ UNCHANGED <<link, twice, resets, torn>>
         /\ \/ user' = user
            \/ \E u \in Accounts : user' = [user EXCEPT ![u].profile = TRUE]
<1> USE OverIsCall DEF AccountsTypeInv
<1>1. ASSUME NEW e \in Emails, Forgets(r, e)
      PROVE  /\ req' \in [Requests -> AccountCalls] /\ \A s \in Requests \ {r} : req'[s] = req[s]
  <2>1. ASSUME NEW u \in Found(e), Start(r, [op |-> "forget", u |-> u])
        PROVE  req' \in [Requests -> AccountCalls] /\ \A s \in Requests \ {r} : req'[s] = req[s]
    <3>1. u \in Users
      BY DEF Found, WithEmail, AnyCase, Accounts
    <3>2. [op |-> "forget", u |-> u] \in AccountCalls
      BY <3>1 DEF AccountCalls
    <3> QED
      BY <2>1, <3>2, StartMoves
  <2> QED
    BY <1>1, <2>1, EndMoves DEF Forgets
<1>2. ASSUME NEW e \in Emails, MakesGuest(r, e)
      PROVE  /\ req' \in [Requests -> AccountCalls] /\ \A s \in Requests \ {r} : req'[s] = req[s]
             /\ user' \in [Users -> UserRows \cup {Unmade, Erased}]
             /\ UNCHANGED <<link, twice, resets, torn>>
             /\ \/ user' = user
                \/ \E u \in Accounts : user' = [user EXCEPT ![u].profile = TRUE]
  <2>1. CASE Unregistered(e)
    <3>1. Found(e) = {} /\ UNCHANGED varsA
      BY <1>2, <2>1 DEF MakesGuest, Unregistered
    <3>2. [op |-> "guest", email |-> Normal[e], saw |-> {}] \in AccountCalls
      BY NormalTyped DEF AccountCalls
    <3>3. Start(r, [op |-> "guest", email |-> Normal[e], saw |-> {}])
      BY <1>2, <2>1, <3>1 DEF MakesGuest
    <3> QED
      BY <3>1, <3>2, <3>3, StartMoves DEF varsA
  <2>2. CASE ~Unregistered(e)
    <3>1. PICK u \in Found(e) : user' = IF user[u].role = "CUSTOMER" THEN [user EXCEPT ![u].profile = TRUE] ELSE user
      BY <1>2, <2>2 DEF MakesGuest
    <3>2. u \in Accounts /\ u \in Users /\ user[u] \in UserRows
      BY AccountIsRow DEF Found, WithEmail, AnyCase, Accounts
    <3>3. [user[u] EXCEPT !.profile = TRUE] \in UserRows
      BY <3>2 DEF UserRows
    <3>4. Ends(r) /\ UNCHANGED <<link, twice, resets, torn>>
      BY <1>2, <2>2 DEF MakesGuest
    <3> QED
      BY <3>1, <3>2, <3>3, <3>4, EndMoves
  <2> QED
    BY <2>1, <2>2
<1>3. ASSUME NEW e \in Emails, NEW role \in UserRoles, Registers(r, e, role)
      PROVE  req' \in [Requests -> AccountCalls] /\ \A s \in Requests \ {r} : req'[s] = req[s]
  <2>1. Ends(r) \/ Makes(r, Normal[e], role, "ACTIVE", {})
    BY <1>3 DEF Registers, Unregistered
  <2> QED
    BY <2>1, MakesTyped, NormalTyped, EndMoves DEF UserStatuses
<1>4. ASSUME NEW e \in Emails, NEW role \in UserRoles, AdminMakes(r, e, role, "ACTIVE")
      PROVE  req' \in [Requests -> AccountCalls] /\ \A s \in Requests \ {r} : req'[s] = req[s]
  <2>1. Ends(r) \/ Makes(r, e, role, "ACTIVE", {})
    BY <1>4 DEF AdminMakes
  <2> QED
    BY <2>1, MakesTyped, NormalTyped, EndMoves DEF UserStatuses
<1>5. ASSUME NEW u \in Users, AdminResets(r, u)
      PROVE  req' \in [Requests -> AccountCalls] /\ \A s \in Requests \ {r} : req'[s] = req[s]
  <2> DEFINE q == [op |-> "reset", at |-> "hash", u |-> u, link |-> {}]
  <2>1. q \in AccountCalls
    BY DEF AccountCalls
  <2>2. Start(r, q) \/ Ends(r)
    BY <1>5 DEF AdminResets
  <2> HIDE DEF q
  <2> QED
    BY <2>1, <2>2, StartMoves, EndMoves
<1>6. ASSUME NEW u \in Users, NEW e \in Emails, EditsUser(r, u, e, "ACTIVE")
      PROVE  req' \in [Requests -> AccountCalls] /\ \A s \in Requests \ {r} : req'[s] = req[s]
  <2> DEFINE q == [op |-> "edit", u |-> u, email |-> e, status |-> "ACTIVE", saw |-> {}]
  <2>1. q \in AccountCalls
    BY NormalTyped DEF AccountCalls, UserStatuses
  <2>2. Start(r, q) \/ Ends(r)
    BY <1>6 DEF EditsUser
  <2> HIDE DEF q
  <2> QED
    BY <2>1, <2>2, StartMoves, EndMoves
<1>7. ASSUME NEW u \in Users, NEW by \in Users, RemovesUser(r, u, by)
      PROVE  req' \in [Requests -> AccountCalls] /\ \A s \in Requests \ {r} : req'[s] = req[s]
  <2> DEFINE q == [op |-> "remove", u |-> u]
  <2>1. q \in AccountCalls
    BY DEF AccountCalls
  <2>2. Start(r, q) \/ Ends(r)
    BY <1>7 DEF RemovesUser
  <2> HIDE DEF q
  <2> QED
    BY <2>1, <2>2, StartMoves, EndMoves
<1>8. ASSUME NEW l \in link, Resets(r, l)
      PROVE  req' \in [Requests -> AccountCalls] /\ \A s \in Requests \ {r} : req'[s] = req[s]
  <2> DEFINE q == [op |-> "reset", at |-> "hash", u |-> l.u, link |-> {l}]
  <2>1. q \in AccountCalls
    BY DEF AccountCalls, Links
  <2>2. Start(r, q) \/ Ends(r)
    BY <1>8 DEF Resets
  <2> HIDE DEF q
  <2> QED
    BY <2>1, <2>2, StartMoves, EndMoves
<1>9. req[r] = Idle
  BY DEF AskStep, Forgets, MakesGuest, Registers, AdminMakes, AdminResets, EditsUser, RemovesUser, Resets, Arrives
<1>10. (\E e \in Emails : MakesGuest(r, e)) \/ UNCHANGED varsA
  BY DEF AskStep, Forgets, Registers, AdminMakes, AdminResets, EditsUser, RemovesUser, Resets
<1>11. req' \in [Requests -> AccountCalls] /\ \A s \in Requests \ {r} : req'[s] = req[s]
  BY <1>1, <1>2, <1>3, <1>4, <1>5, <1>6, <1>7, <1>8 DEF AskStep
<1> QED
  BY <1>2, <1>9, <1>10, <1>11 DEF varsA
\* The rows stay rows, and the other requests where they are.
LEMMA RowTyping ==
  ASSUME AccountsTypeInv, NEW r \in Requests, RowStep(r)
  PROVE  AccountsTypeInv' /\ \A s \in Requests \ {r} : req'[s] = req[s]
<1> USE OverIsCall DEF AccountsTypeInv
<1> DEFINE q == req[r]
<1>q. q \in AccountCalls
  OBVIOUS
<1> DEFINE Typed == AccountsTypeInv' /\ \A s \in Requests \ {r} : req'[s] = req[s]
<1>1. \A u \in Users : Account(u) => user[u] \in UserRows
  BY AccountIsRow
<1>2. \A u \in Users, row \in UserRows : /\ [row EXCEPT !.profile = TRUE] \in UserRows
                                         /\ \A st \in UserStatuses : [row EXCEPT !.status = st] \in UserRows
                                         /\ \A st \in UserStatuses, e \in Addresses :
                                              [row EXCEPT !.email = e, !.status = st] \in UserRows
  BY DEF UserRows, Addresses
<1>3. \A e \in Addresses, role \in UserRoles, st \in UserStatuses :
        Row(e, role, st) \in UserRows /\ [Row(e, role, st) EXCEPT !.profile = TRUE] \in UserRows
  BY DEF Row, UserRows, Addresses
<1>4. ASSUME NEW u \in Users, AddsProfile(r, u) \/ LogsOut(r, u) \/ SetsStatus(r, u, "SUSPENDED")
      PROVE  Typed
  <2>1. Ends(r) /\ Account(u) /\ link' \subseteq link /\ resets' = resets
    BY <1>4 DEF AddsProfile, LogsOut, SetsStatus
  <2>2. user' \in [Users -> UserRows \cup {Unmade, Erased}]
    <3>1. CASE AddsProfile(r, u)
      BY <1>1, <1>2, <3>1 DEF AddsProfile
    <3>2. CASE LogsOut(r, u)
      BY <3>2 DEF LogsOut
    <3>3. CASE SetsStatus(r, u, "SUSPENDED")
      BY <1>1, <1>2, <3>3 DEF SetsStatus, UserStatuses
    <3> QED
      BY <1>4, <3>1, <3>2, <3>3
  <2> QED
    BY <2>1, <2>2, EndMoves
<1>5. CASE StoresGuest(r)
  <2>1. q.op = "guest" /\ Ends(r) /\ UNCHANGED <<link, resets, torn>> /\ q.email \in Addresses
    BY <1>5, <1>q, AccountCallFields DEF StoresGuest, Running
  <2>2. user' = user \/ \E u \in Users : user' = [user EXCEPT ![u] = [Row(q.email, "CUSTOMER", "ACTIVE") EXCEPT !.profile = TRUE]]
    BY <1>5 DEF StoresGuest
  <2>3. user' \in [Users -> UserRows \cup {Unmade, Erased}]
    BY <1>3, <2>1, <2>2 DEF UserRoles, UserStatuses
  <2> QED
    BY <2>1, <2>3, EndMoves
<1>6. CASE StoresUser(r)
  <2>1. /\ q.op = "make" /\ q.at = "user" /\ UNCHANGED <<link, resets, torn>>
        /\ q.email \in Addresses /\ q.role \in UserRoles /\ q.status \in UserStatuses
    BY <1>6, <1>q, AccountCallFields DEF StoresUser, At
  <2>2. CASE Ends(r) /\ user' = user
    BY <2>1, <2>2, EndMoves
  <2>3. ASSUME NEW u \in Users, user' = [user EXCEPT ![u] = Row(q.email, q.role, q.status)],
               IF q.role = "ADMIN" THEN Ends(r) ELSE Start(r, [q EXCEPT !.at = "profile", !.u = u])
        PROVE  Typed
    <3>1. user' \in [Users -> UserRows \cup {Unmade, Erased}]
      BY <1>3, <2>1, <2>3
    <3> DEFINE p == [q EXCEPT !.at = "profile", !.u = u]
    <3>2. p \in AccountCalls
      BY <1>q, <2>1 DEF AccountCalls, Idle, Over
    <3>3. Ends(r) \/ Start(r, p)
      BY <2>3
    <3> HIDE DEF p
    <3> QED
      BY <2>1, <3>1, <3>2, <3>3, EndMoves, StartMoves
  <2> QED
    BY <1>6, <2>2, <2>3 DEF StoresUser
<1>7. CASE StoresProfile(r)
  <2>1. q.u \in Users /\ Ends(r) /\ UNCHANGED <<link, resets>>
    BY <1>7, <1>q, AccountCallFields DEF StoresProfile, At
  <2>2. user' \in [Users -> UserRows \cup {Unmade, Erased}]
    BY <1>1, <1>2, <1>7, <2>1 DEF StoresProfile
  <2> QED
    BY <2>1, <2>2, EndMoves
<1>8. CASE MakingDies(r) \/ ResetDies(r) \/ Revokes(r)
  <2>1. Ends(r) /\ user' = user /\ link' \subseteq link /\ resets' = resets
    BY <1>8 DEF MakingDies, ResetDies, Revokes, Revoked
  <2> QED
    BY <2>1, EndMoves
<1>9. CASE StoresEdit(r)
  <2>1. /\ q.u \in Users /\ q.email \in Addresses /\ q.status \in UserStatuses
        /\ Ends(r) /\ UNCHANGED <<link, resets>>
    BY <1>9, <1>q, AccountCallFields DEF StoresEdit, Running
  <2>2. \/ user' = user
        \/ /\ Account(q.u)
           /\ user' = [user EXCEPT ![q.u] = [user[q.u] EXCEPT !.email = q.email, !.status = q.status]]
    BY <1>9, <2>1 DEF StoresEdit
  <2>3. Account(q.u) => [user[q.u] EXCEPT !.email = q.email, !.status = q.status] \in UserRows
    BY <1>1, <1>2, <2>1
  <2>4. user' \in [Users -> UserRows \cup {Unmade, Erased}]
    BY <2>1, <2>2, <2>3
  <2> QED
    BY <2>1, <2>4, EndMoves
<1>10. CASE Erases(r)
  <2>1. Ends(r) /\ link' \subseteq link /\ resets' = resets
    BY <1>10 DEF Erases
  <2>2. user' \in [Users -> UserRows \cup {Unmade, Erased}]
    BY <1>10 DEF Erases
  <2> QED
    BY <2>1, <2>2, EndMoves
<1>11. CASE StoresLink(r)
  <2>1. q.u \in Users /\ Ends(r) /\ user' = user /\ resets' = resets
    BY <1>11, <1>q, AccountCallFields DEF StoresLink, Running
  <2>2. [u |-> q.u, by |-> r, after |-> resets[q.u]] \in Links
    BY <2>1 DEF Links
  <2>3. link' \subseteq Links
    BY <1>11, <2>2 DEF StoresLink
  <2> QED
    BY <2>1, <2>3, EndMoves
<1>12. CASE StoresPassword(r)
  <2>1. q.op = "reset" /\ q.u \in Users /\ UNCHANGED <<user, link>>
    BY <1>12, <1>q, AccountCallFields DEF StoresPassword, At
  <2>2. resets' \in [Users -> Nat]
    BY <1>12, <2>1 DEF StoresPassword
  <2>3. Ends(r) \/ GoesTo(r, "revoke")
    BY <1>12 DEF StoresPassword
  <2>4. [q EXCEPT !.at = "revoke"] \in AccountCalls
    BY <1>q, <2>1 DEF AccountCalls, Idle, Over
  <2>5. GoesTo(r, "revoke") => req' = [req EXCEPT ![r] = [q EXCEPT !.at = "revoke"]]
    BY DEF GoesTo
  <2> QED
    BY <2>1, <2>2, <2>3, <2>4, <2>5, EndMoves
<1> QED
  BY <1>4, <1>5, <1>6, <1>7, <1>8, <1>9, <1>10, <1>11, <1>12 DEF RowStep
LEMMA AccountsNextTyping ==
  AccountsTypeInv /\ [\E r \in Requests : AccountsNext(r, UserRoles)]_<<req, varsA>> => AccountsTypeInv'
<1> SUFFICES ASSUME AccountsTypeInv, [\E r \in Requests : AccountsNext(r, UserRoles)]_<<req, varsA>>
             PROVE  AccountsTypeInv'
  OBVIOUS
<1>1. ASSUME NEW r \in Requests, AccountsNext(r, UserRoles) PROVE AccountsTypeInv'
  BY <1>1, AccountsNextIs, AskMoves, RowTyping
<1>2. CASE UNCHANGED <<req, varsA>>
  BY <1>2 DEF AccountsTypeInv, varsA
<1> QED
  BY <1>1, <1>2

LEMMA AccountsInitTyping == AccountsInit => AccountsTypeInv
<1> SUFFICES ASSUME AccountsInit PROVE AccountsTypeInv
  OBVIOUS
<1>1. req \in [Requests -> AccountCalls]
  BY OverIsCall DEF AccountsInit, NoRequests
<1>2. link \subseteq Links /\ resets \in [Users -> Nat]
  BY DEF AccountsInit, Links
<1> QED
  BY <1>1, <1>2 DEF AccountsInit, AccountsTypeInv

\* The rows, the links and the requests in flight are well formed.
THEOREM AccountsTyped == AccountsSpec => []AccountsTypeInv
BY AccountsInitTyping, AccountsNextTyping, PTL DEF AccountsSpec

-------------------------------------------------------------------------------
(* One address has one account.                                              *)

\* An address an account gets is noted when another account has it, in
\* whatever case; nothing else brings two together.
LEMMA NoNewAddress ==
  ASSUME OneAccountEach, twice \subseteq twice',
         \A u \in Users : Account(u)' => Account(u) /\ user'[u].email = user[u].email
  PROVE  OneAccountEach'
BY DEF OneAccountEach, Accounts

LEMMA NewAddress ==
  ASSUME OneAccountEach, twice \subseteq twice', NEW u \in Users, NEW e,
         user'[u].email = e, \A v \in Users \ {u} : user'[v] = user[v],
         AnyCase(e) \ {u} # {} => Normal[e] \in twice'
  PROVE  OneAccountEach'
<1> SUFFICES ASSUME NEW v \in Users, NEW w \in Users, Account(v)', Account(w)', v # w,
                    Normal[user'[v].email] = Normal[user'[w].email]
             PROVE  Normal[user'[v].email] \in twice'
  BY DEF OneAccountEach, Accounts
<1>1. CASE v # u /\ w # u
  BY <1>1 DEF OneAccountEach, Accounts, Account
<1>2. CASE v = u
  <2>1. w \in AnyCase(e) \ {u}
    BY <1>2 DEF AnyCase, Accounts, Account
  <2> QED
    BY <1>2, <2>1
<1>3. CASE w = u
  <2>1. v \in AnyCase(e) \ {u}
    BY <1>3 DEF AnyCase, Accounts, Account
  <2> QED
    BY <1>3, <2>1
<1> QED
  BY <1>1, <1>2, <1>3

LEMMA AccountsStayOne ==
  ASSUME AccountsTypeInv, OneAccountEach, NEW r \in Requests, AskStep(r) \/ RowStep(r)
  PROVE  OneAccountEach'
<1> DEFINE q == req[r]
<1>q. q \in AccountCalls
  BY DEF AccountsTypeInv
<1>a. \A u \in Users : Account(u) => user[u] \in UserRows
  BY AccountIsRow
<1>u. user \in [Users -> UserRows \cup {Unmade, Erased}]
  BY DEF AccountsTypeInv
<1>1. CASE AskStep(r)
  <2>1. /\ twice' = twice
        /\ user' = user \/ \E u \in Accounts : user' = [user EXCEPT ![u].profile = TRUE]
    BY <1>1, AskMoves
  <2>2. \A u \in Users : Account(u)' => Account(u) /\ user'[u].email = user[u].email
    BY <1>a, <1>u, <2>1 DEF Account, Accounts, UserRows
  <2> QED
    BY <2>1, <2>2, NoNewAddress
<1>2. ASSUME NEW u \in Users, AddsProfile(r, u) \/ LogsOut(r, u) \/ SetsStatus(r, u, "SUSPENDED")
      PROVE  OneAccountEach'
  <2>1. Account(u) /\ user[u] \in UserRows /\ twice' = twice
    BY <1>2, <1>a DEF AddsProfile, LogsOut, SetsStatus
  <2>2. \A v \in Users \ {u} : user'[v] = user[v]
    BY <1>2, <1>u DEF AddsProfile, LogsOut, SetsStatus
  <2>3. user'[u].email = user[u].email
    BY <1>2, <1>u, <2>1 DEF AddsProfile, LogsOut, SetsStatus, UserRows
  <2> QED
    BY <2>1, <2>2, <2>3, NoNewAddress DEF Account
<1>3. ASSUME NEW u \in Users, NextUser(u), user'[u].email = q.email, \A v \in Users \ {u} : user'[v] = user[v],
             q.saw = {}, Doubles(q, AnyCase(q.email))
      PROVE  OneAccountEach'
  BY <1>3, NewAddress DEF Doubles
<1>4. CASE StoresGuest(r)
  <2>1. q.saw = {} /\ q.email \in Addresses
    BY <1>4, <1>q, AccountCallFields DEF StoresGuest, Running
  <2>2. CASE UNCHANGED <<user, twice>>
    BY <2>2, NoNewAddress DEF Account
  <2>3. ASSUME NEW u \in Users, NextUser(u), Doubles(q, AnyCase(q.email)),
               user' = [user EXCEPT ![u] = [Row(q.email, "CUSTOMER", "ACTIVE") EXCEPT !.profile = TRUE]]
        PROVE  OneAccountEach'
    <3>1. user'[u].email = q.email /\ \A v \in Users \ {u} : user'[v] = user[v]
      BY <1>u, <2>3 DEF Row
    <3> QED
      BY <1>3, <2>1, <2>3, <3>1
  <2> QED
    BY <1>4, <2>2, <2>3 DEF StoresGuest
<1>5. CASE StoresUser(r)
  <2>1. q.saw = {} /\ q.email \in Addresses
    BY <1>5, <1>q, AccountCallFields DEF StoresUser, At
  <2>2. CASE UNCHANGED <<user, twice>>
    BY <2>2, NoNewAddress DEF Account
  <2>3. ASSUME NEW u \in Users, NextUser(u), Doubles(q, AnyCase(q.email)),
               user' = [user EXCEPT ![u] = Row(q.email, q.role, q.status)]
        PROVE  OneAccountEach'
    <3>1. user'[u].email = q.email /\ \A v \in Users \ {u} : user'[v] = user[v]
      BY <1>u, <2>3 DEF Row
    <3> QED
      BY <1>3, <2>1, <2>3, <3>1
  <2> QED
    BY <1>5, <2>2, <2>3 DEF StoresUser
<1>6. CASE StoresProfile(r)
  <2>1. twice' = twice /\ q.u \in Users
    BY <1>6, <1>q, AccountCallFields DEF StoresProfile, At
  <2>2. user' = user \/ (Account(q.u) /\ user' = [user EXCEPT ![q.u].profile = TRUE])
    BY <1>6 DEF StoresProfile
  <2>3. \A u \in Users : Account(u)' => Account(u) /\ user'[u].email = user[u].email
    BY <1>a, <1>u, <2>1, <2>2 DEF Account, UserRows
  <2> QED
    BY <2>1, <2>3, NoNewAddress
<1>7. CASE MakingDies(r) \/ StoresLink(r) \/ StoresPassword(r) \/ Revokes(r) \/ ResetDies(r)
  <2>1. UNCHANGED <<user, twice>>
    BY <1>7 DEF MakingDies, StoresLink, StoresPassword, Revokes, ResetDies
  <2> QED
    BY <2>1, NoNewAddress DEF Account
<1>8. CASE StoresEdit(r)
  <2>1. q.saw = {} /\ q.email \in Addresses /\ q.u \in Users
    BY <1>8, <1>q, AccountCallFields DEF StoresEdit, Running
  <2>2. CASE UNCHANGED <<user, twice>>
    BY <2>2, NoNewAddress DEF Account
  <2>3. CASE /\ Account(q.u) /\ Doubles(q, AnyCase(q.email) \ {q.u})
             /\ user' = [user EXCEPT ![q.u] = [user[q.u] EXCEPT !.email = q.email, !.status = q.status]]
    <3>1. user[q.u] \in UserRows
      BY <1>a, <2>1, <2>3
    <3>2. user'[q.u].email = q.email /\ \A v \in Users \ {q.u} : user'[v] = user[v]
      BY <1>u, <2>1, <2>3, <3>1 DEF UserRows
    <3>3. /\ twice \subseteq twice'
          /\ AnyCase(q.email) \ {q.u} # {} => Normal[q.email] \in twice'
      BY <2>1, <2>3 DEF Doubles
    <3> QED
      BY <2>1, <3>2, <3>3, NewAddress
  <2> QED
    BY <1>8, <1>u, <2>1, <2>2, <2>3 DEF StoresEdit
<1>9. CASE Erases(r)
  <2>1. q.op = "remove" /\ q.u \in Users /\ twice' = twice
    BY <1>9, <1>q, AccountCallFields DEF Erases, Running
  <2>2. \A u \in Users : user'[u] = user[u] \/ user'[u] = Erased
    BY <1>9, <1>u, <2>1 DEF Erases
  <2> QED
    BY <2>1, <2>2, NoNewAddress DEF Account
<1> QED
  BY <1>1, <1>2, <1>4, <1>5, <1>6, <1>7, <1>8, <1>9 DEF RowStep
-------------------------------------------------------------------------------
(* Links and profiles.                                                       *)

\* While a reset is about to revoke the links of a user, and while the profile
\* of a new one is on its way, what AccountsAreWhole claims may be open.
Renewing(u) == \E s \in Running("reset") : req[s].at = "revoke" /\ req[s].u = u
Profiling(u) == \E s \in Running("make") : req[s].at = "profile" /\ req[s].u = u
LinksAreNew(u) == Renewing(u) \/ \A l \in link : l.u = u => l.after = resets[u]
HasProfile(u) == user[u].profile \/ Profiling(u)

\* The links of users that are still to be made were asked for before any reset.
WholeInv ==
  \A u \in Users : u \notin torn => /\ user[u] # Erased => LinksAreNew(u)
                                    /\ Account(u) => HasProfile(u)

LEMMA WholeEnough == WholeInv => AccountsAreWhole
<1> SUFFICES ASSUME WholeInv, NEW u \in Accounts \ torn
             PROVE  /\ Resetting(u) = {} => \A l \in link : l.u = u => l.after = resets[u]
                    /\ {s \in Running("make") : req[s].u = u} = {} => user[u].profile
  BY DEF AccountsAreWhole
<1>1. LinksAreNew(u) /\ HasProfile(u)
  BY DEF WholeInv, Accounts, Account
<1> QED
  BY <1>1 DEF LinksAreNew, HasProfile, Renewing, Profiling, Resetting

\* The others go on: only the request that moves can have been the one.
LEMMA StillOpen ==
  ASSUME NEW r \in Requests, \A s \in Requests \ {r} : req'[s] = req[s], NEW u
  PROVE  /\ Renewing(u) => Renewing(u)' \/ (At(r, "reset", "revoke") /\ req[r].u = u)
         /\ Profiling(u) => Profiling(u)' \/ (At(r, "make", "profile") /\ req[r].u = u)
BY DEF Renewing, Profiling, Running, At

LEMMA LinksStayNew ==
  ASSUME NEW u, LinksAreNew(u), Renewing(u) => Renewing(u)', resets'[u] = resets[u],
         \A l \in link' : l.u = u => l \in link \/ l.after = resets[u]
  PROVE  LinksAreNew(u)'
BY DEF LinksAreNew

\* A step by a request that owes nothing, and that erases or leaves every
\* account with the profile it has.
LEMMA WholeKept ==
  ASSUME WholeInv, NEW r \in Requests, \A s \in Requests \ {r} : req'[s] = req[s],
         ~At(r, "reset", "revoke"), ~At(r, "make", "profile"), torn \subseteq torn', resets' = resets,
         \A l \in link' : l \in link \/ l.after = resets[l.u],
         \A u \in Users : /\ user'[u] # Erased => user[u] # Erased
                          /\ Account(u)' => Account(u) /\ (user[u].profile => user'[u].profile)
  PROVE  WholeInv'
<1> SUFFICES ASSUME NEW u \in Users, u \notin torn'
             PROVE  /\ user'[u] # Erased => LinksAreNew(u)'
                    /\ Account(u)' => HasProfile(u)'
  BY DEF WholeInv
<1>1. /\ user[u] # Erased => LinksAreNew(u)
      /\ Account(u) => HasProfile(u)
  BY DEF WholeInv
<1>2. (Renewing(u) => Renewing(u)') /\ (Profiling(u) => Profiling(u)')
  BY StillOpen
<1>3. user'[u] # Erased => LinksAreNew(u)'
  BY <1>1, <1>2, LinksStayNew
<1>4. Account(u)' => HasProfile(u)'
  BY <1>1, <1>2 DEF HasProfile
<1> QED
  BY <1>3, <1>4

\* A user is made, with its profile or by a request that will store it.
LEMMA WholeMade ==
  ASSUME AccountsTypeInv, WholeInv, NEW r \in Requests, \A s \in Requests \ {r} : req'[s] = req[s],
         ~At(r, "reset", "revoke"), ~At(r, "make", "profile"), UNCHANGED <<link, resets, torn>>,
         NEW u \in Users, NextUser(u), \A v \in Users \ {u} : user'[v] = user[v],
         user'[u].profile \/ (req'[r].op = "make" /\ req'[r].at = "profile" /\ req'[r].u = u)
  PROVE  WholeInv'
<1> SUFFICES ASSUME NEW v \in Users, v \notin torn
             PROVE  /\ user'[v] # Erased => LinksAreNew(v)'
                    /\ Account(v)' => HasProfile(v)'
  BY DEF WholeInv
<1>1. (Renewing(v) => Renewing(v)') /\ (Profiling(v) => Profiling(v)')
  BY StillOpen
<1>2. user[u] = Unmade /\ Unmade # Erased
  BY DEF NextUser, Unmade, Erased
<1>3. user'[v] # Erased => LinksAreNew(v)'
  <2>1. user'[v] # Erased => LinksAreNew(v)
    BY <1>2 DEF WholeInv
  <2> QED
    BY <1>1, <2>1, LinksStayNew
<1>4. Account(v)' => HasProfile(v)'
  <2>1. CASE v = u
    BY <2>1 DEF HasProfile, Profiling, Running
  <2>2. CASE v # u
    BY <1>1, <2>2 DEF HasProfile, WholeInv, Account
  <2> QED
    BY <2>1, <2>2
<1> QED
  BY <1>3, <1>4

LEMMA AccountsStayWhole ==
  ASSUME AccountsTypeInv, WholeInv, NEW r \in Requests, AskStep(r) \/ RowStep(r)
  PROVE  WholeInv'
<1> DEFINE q == req[r]
<1>q. q \in AccountCalls
  BY DEF AccountsTypeInv
<1>a. \A u \in Users : Account(u) => user[u] \in UserRows
  BY AccountIsRow
<1>u. user \in [Users -> UserRows \cup {Unmade, Erased}]
  BY DEF AccountsTypeInv
<1>s. \A s \in Requests \ {r} : req'[s] = req[s]
  BY AskMoves, RowTyping
<1>e. \A row \in UserRows : row # Erased
  BY DEF UserRows, Erased
<1>1. CASE AskStep(r)
  <2>1. /\ q = Idle /\ UNCHANGED <<link, twice, resets, torn>>
        /\ user' = user \/ \E u \in Accounts : user' = [user EXCEPT ![u].profile = TRUE]
    BY <1>1, AskMoves
  <2>2. \A u \in Users : /\ user'[u] # Erased => user[u] # Erased
                         /\ Account(u)' => Account(u) /\ (user[u].profile => user'[u].profile)
    BY <1>a, <1>u, <1>e, <2>1 DEF Account, Accounts, UserRows
  <2> QED
    BY <1>s, <2>1, <2>2, WholeKept DEF At, Idle
<1>2. ASSUME NEW u \in Users, AddsProfile(r, u) \/ LogsOut(r, u) \/ SetsStatus(r, u, "SUSPENDED")
      PROVE  WholeInv'
  <2>1. Account(u) /\ user[u] \in UserRows /\ q = Idle /\ link' \subseteq link /\ UNCHANGED <<resets, torn>>
    BY <1>2, <1>a DEF AddsProfile, LogsOut, SetsStatus, Arrives
  <2>2. \A v \in Users \ {u} : user'[v] = user[v]
    BY <1>2, <1>u DEF AddsProfile, LogsOut, SetsStatus
  <2>3. user[u].profile => user'[u].profile
    BY <1>2, <1>u, <2>1 DEF AddsProfile, LogsOut, SetsStatus, UserRows
  <2>4. \A v \in Users : /\ user'[v] # Erased => user[v] # Erased
                         /\ Account(v)' => Account(v) /\ (user[v].profile => user'[v].profile)
    BY <1>e, <2>1, <2>2, <2>3 DEF Account
  <2> QED
    BY <1>s, <2>1, <2>4, WholeKept DEF At, Idle
<1>3. CASE StoresGuest(r)
  <2>1. q.op = "guest" /\ UNCHANGED <<link, resets, torn>>
    BY <1>3 DEF StoresGuest, Running
  <2>2. CASE user' = user
    BY <1>s, <2>1, <2>2, WholeKept DEF At, Account
  <2>3. ASSUME NEW u \in Users, NextUser(u),
               user' = [user EXCEPT ![u] = [Row(q.email, "CUSTOMER", "ACTIVE") EXCEPT !.profile = TRUE]]
        PROVE  WholeInv'
    <3>1. user'[u].profile = TRUE /\ \A v \in Users \ {u} : user'[v] = user[v]
      BY <1>u, <2>3 DEF Row
    <3> QED
      BY <1>s, <2>1, <2>3, <3>1, WholeMade DEF At
  <2> QED
    BY <1>3, <2>2, <2>3 DEF StoresGuest
<1>4. CASE StoresUser(r)
  <2>1. q.op = "make" /\ q.at = "user" /\ UNCHANGED <<link, resets, torn>>
    BY <1>4 DEF StoresUser, At
  <2>2. CASE user' = user
    BY <1>s, <2>1, <2>2, WholeKept DEF At, Account
  <2>3. ASSUME NEW u \in Users, NextUser(u), user' = [user EXCEPT ![u] = Row(q.email, q.role, q.status)],
               IF q.role = "ADMIN" THEN Ends(r) ELSE Start(r, [q EXCEPT !.at = "profile", !.u = u])
        PROVE  WholeInv'
    <3>1. user'[u].profile = (q.role = "ADMIN") /\ \A v \in Users \ {u} : user'[v] = user[v]
      BY <1>u, <2>3 DEF Row
    <3> DEFINE p == [q EXCEPT !.at = "profile", !.u = u]
    <3>2. p.op = "make" /\ p.at = "profile" /\ p.u = u
      BY <1>q, <2>1 DEF AccountCalls, Idle, Over
    <3>3. q.role # "ADMIN" => req'[r] = p
      BY <2>3 DEF Start, AccountsTypeInv
    <3> HIDE DEF p
    <3> QED
      BY <1>s, <2>1, <2>3, <3>1, <3>2, <3>3, WholeMade DEF At
  <2> QED
    BY <1>4, <2>2, <2>3 DEF StoresUser
<1>5. CASE StoresProfile(r)
  <2>1. q.op = "make" /\ q.u \in Users /\ UNCHANGED <<link, resets, torn>>
    BY <1>5, <1>q, AccountCallFields DEF StoresProfile, At
  <2>2. user' = IF Account(q.u) THEN [user EXCEPT ![q.u].profile = TRUE] ELSE user
    BY <1>5 DEF StoresProfile
  <2> SUFFICES ASSUME NEW u \in Users, u \notin torn
               PROVE  /\ user'[u] # Erased => LinksAreNew(u)'
                      /\ Account(u)' => HasProfile(u)'
    BY <2>1 DEF WholeInv
  <2>3. (Renewing(u) => Renewing(u)') /\ (u # q.u => (Profiling(u) => Profiling(u)'))
    BY <1>s, <2>1, StillOpen DEF At
  <2>4. user'[u] # Erased => LinksAreNew(u)'
    <3>1. user'[u] # Erased => user[u] # Erased
      BY <1>a, <1>e, <1>u, <2>2
    <3> QED
      BY <2>1, <2>3, <3>1, LinksStayNew DEF WholeInv
  <2>5. Account(u)' => HasProfile(u)'
    <3>1. CASE u = q.u /\ Account(u)
      <4>1. user'[u].profile = TRUE
        BY <1>a, <1>u, <2>2, <3>1 DEF UserRows
      <4> QED
        BY <4>1 DEF HasProfile
    <3>2. CASE u # q.u
      BY <1>u, <2>2, <2>3, <3>2 DEF HasProfile, WholeInv, Account
    <3>3. CASE ~Account(u)
      BY <1>u, <2>2, <3>3 DEF Account
    <3> QED
      BY <3>1, <3>2, <3>3
  <2> QED
    BY <2>4, <2>5
<1>6. CASE MakingDies(r) \/ ResetDies(r)
  <2>1. q.op \in {"make", "reset"} /\ UNCHANGED <<user, link, resets>> /\ torn' = torn \cup {q.u}
    BY <1>6 DEF MakingDies, ResetDies, At
  <2> SUFFICES ASSUME NEW u \in Users, u \notin torn'
               PROVE  /\ user'[u] # Erased => LinksAreNew(u)'
                      /\ Account(u)' => HasProfile(u)'
    BY DEF WholeInv
  <2>2. u \notin torn /\ u # q.u
    BY <2>1
  <2>3. (Renewing(u) => Renewing(u)') /\ (Profiling(u) => Profiling(u)')
    BY <1>s, <2>2, StillOpen
  <2> QED
    BY <2>1, <2>2, <2>3, LinksStayNew DEF WholeInv, HasProfile, Account
<1>7. CASE StoresEdit(r)
  <2>1. q.op = "edit" /\ q.u \in Users /\ UNCHANGED <<link, resets, torn>>
    BY <1>7, <1>q, AccountCallFields DEF StoresEdit, Running
  <2>2. \/ user' = user
        \/ /\ Account(q.u)
           /\ user' = [user EXCEPT ![q.u] = [user[q.u] EXCEPT !.email = q.email, !.status = q.status]]
    BY <1>7, <1>u, <2>1 DEF StoresEdit
  <2>3. \A u \in Users : /\ user'[u] # Erased => user[u] # Erased
                         /\ Account(u)' => Account(u) /\ (user[u].profile => user'[u].profile)
    BY <1>a, <1>u, <1>e, <2>1, <2>2, ZenonT(60) DEF Account, UserRows
  <2> QED
    BY <1>s, <2>1, <2>3, WholeKept DEF At
<1>8. CASE Erases(r)
  <2>1. q.op = "remove" /\ link' \subseteq link /\ UNCHANGED <<resets, torn>>
    BY <1>8 DEF Erases, Running
  <2>2. \A u \in Users : user'[u] = user[u] \/ user'[u] = Erased
    BY <1>8, <1>u DEF Erases
  <2> QED
    BY <1>s, <2>1, <2>2, WholeKept DEF At, Account
<1>9. CASE StoresLink(r)
  <2>1. q.op = "forget" /\ UNCHANGED <<user, resets, torn>>
    BY <1>9 DEF StoresLink, Running
  <2>2. \A l \in link' : l \in link \/ l.after = resets[l.u]
    BY <1>9 DEF StoresLink
  <2> QED
    BY <1>s, <2>1, <2>2, WholeKept DEF At, Account
<1>10. CASE StoresPassword(r)
  <2>1. q.op = "reset" /\ q.at = "hash" /\ q.u \in Users /\ UNCHANGED <<user, link>> /\ torn \subseteq torn'
    BY <1>10, <1>q, AccountCallFields DEF StoresPassword, At
  <2>2. CASE Ends(r) /\ UNCHANGED <<resets, torn>>
    BY <1>s, <2>1, <2>2, WholeKept DEF At, Account
  <2>3. CASE GoesTo(r, "revoke") /\ resets' = [resets EXCEPT ![q.u] = @ + 1]
    <3>1. req'[r].op = "reset" /\ req'[r].at = "revoke" /\ req'[r].u = q.u
      BY <1>q, <2>1, <2>3 DEF GoesTo, AccountsTypeInv, AccountCalls, Idle, Over
    <3> SUFFICES ASSUME NEW u \in Users, u \notin torn'
                 PROVE  /\ user'[u] # Erased => LinksAreNew(u)'
                        /\ Account(u)' => HasProfile(u)'
      BY DEF WholeInv
    <3>2. (Renewing(u) => Renewing(u)') /\ (Profiling(u) => Profiling(u)')
      BY <1>s, <2>1, StillOpen DEF At
    <3>3. CASE u = q.u
      BY <2>1, <3>1, <3>2, <3>3 DEF LinksAreNew, Renewing, Running, WholeInv, HasProfile, Account
    <3>4. CASE u # q.u
      <4>1. resets'[u] = resets[u]
        BY <2>3, <3>4 DEF AccountsTypeInv
      <4> QED
        BY <2>1, <3>2, <4>1, LinksStayNew DEF WholeInv, HasProfile, Account
    <3> QED
      BY <3>3, <3>4
  <2> QED
    BY <1>10, <2>2, <2>3 DEF StoresPassword
<1>11. CASE Revokes(r)
  <2>1. q.op = "reset" /\ link' = {l \in link : l.u # q.u} /\ UNCHANGED <<user, resets, torn>>
    BY <1>11 DEF Revokes, At, Revoked
  <2> SUFFICES ASSUME NEW u \in Users, u \notin torn
               PROVE  /\ user'[u] # Erased => LinksAreNew(u)'
                      /\ Account(u)' => HasProfile(u)'
    BY <2>1 DEF WholeInv
  <2>2. (u # q.u => (Renewing(u) => Renewing(u)')) /\ (Profiling(u) => Profiling(u)')
    BY <1>s, <2>1, StillOpen DEF At
  <2>3. Account(u)' => HasProfile(u)'
    BY <2>1, <2>2 DEF HasProfile, WholeInv, Account
  <2>4. CASE u = q.u
    BY <2>1, <2>3, <2>4 DEF LinksAreNew
  <2>5. CASE u # q.u
    BY <2>1, <2>2, <2>3, <2>5, LinksStayNew DEF WholeInv
  <2> QED
    BY <2>4, <2>5
<1> QED
  BY <1>1, <1>2, <1>3, <1>4, <1>5, <1>6, <1>7, <1>8, <1>9, <1>10, <1>11 DEF RowStep

AccountsInv == AccountsTypeInv /\ OneAccountEach /\ WholeInv

LEMMA AccountsInitInv == AccountsInit => AccountsInv
<1> SUFFICES ASSUME AccountsInit PROVE AccountsInv
  OBVIOUS
<1>1. OneAccountEach
  BY DEF AccountsInit, OneAccountEach
<1>2. WholeInv
  <2> SUFFICES ASSUME NEW u \in Users
               PROVE  LinksAreNew(u) /\ (Account(u) => HasProfile(u))
    BY DEF WholeInv
  <2>1. \A l \in link : l.after = 0
    BY DEF AccountsInit
  <2> QED
    BY <2>1 DEF AccountsInit, LinksAreNew, HasProfile, Accounts
<1> QED
  BY <1>1, <1>2, AccountsInitTyping DEF AccountsInv

LEMMA AccountsNextInv ==
  AccountsInv /\ [\E r \in Requests : AccountsNext(r, UserRoles)]_<<req, varsA>> => AccountsInv'
<1> SUFFICES ASSUME AccountsInv, [\E r \in Requests : AccountsNext(r, UserRoles)]_<<req, varsA>>
             PROVE  AccountsInv'
  OBVIOUS
<1>1. ASSUME NEW r \in Requests, AccountsNext(r, UserRoles) PROVE AccountsInv'
  <2>1. AskStep(r) \/ RowStep(r)
    BY <1>1, AccountsNextIs
  <2> QED
    BY <2>1, AskMoves, RowTyping, AccountsStayOne, AccountsStayWhole DEF AccountsInv
<1>2. CASE UNCHANGED <<req, varsA>>
  <2>1. AccountsTypeInv'
    BY <1>2, AccountsNextTyping DEF AccountsInv
  <2>2. OneAccountEach'
    BY <1>2 DEF AccountsInv, OneAccountEach, Accounts, Account, varsA
  <2>3. WholeInv'
    BY <1>2 DEF AccountsInv, WholeInv, LinksAreNew, HasProfile, Renewing, Profiling, Running, Account, varsA
  <2> QED
    BY <2>1, <2>2, <2>3 DEF AccountsInv
<1> QED
  BY <1>1, <1>2

\* Whoever signs in reaches one account, and a whole one: with a link that is
\* still open the password of after the last reset, and the profile of its role.
THEOREM AccountsStaySound == AccountsSpec => []AccountsAreSound
<1>1. AccountsInv => AccountsAreSound
  BY WholeEnough DEF AccountsInv, AccountsAreSound
<1> QED
  BY <1>1, AccountsInitInv, AccountsNextInv, PTL DEF AccountsSpec

-------------------------------------------------------------------------------
(* The desk: typing.                                                         *)

Moneys == {{}} \cup {{d} : d \in Currencies}
Chosen(S) == {{}} \cup {{x} : x \in S}
Stores == [type : Types, currency : Moneys, active : BOOLEAN, primary : Tongues, secondary : SUBSET Tongues,
           look : Requests \cup {0}, off : BOOLEAN, ship : SUBSET Classes]
RateRows == [class : Classes, own : BOOLEAN, active : BOOLEAN]
Saving == [op : {"update", "admin"}, at : {"write", "list", "revalidate"}, given : BOOLEAN, currency : Moneys,
           active : Chosen(BOOLEAN), type : Types, sent : Chosen(Types), switch : BOOLEAN]
Sweeps == [op : {"admin"}, at : {"sweep"}, todo : SUBSET Orders]
            \cup [op : {"admin"}, at : {"upsert"}, todo : SUBSET Orders, o : Orders, type : Types]
Telling == [op : {"admin", "flush", "look", "speak", "kustom"}, at : {"revalidate"}]
Looking == [op : {"look"}, at : {"write"}, seen : Requests \cup {0}]
             \cup [op : {"speak"}, at : {"write"}, primary : Chosen(Tongues), given : BOOLEAN,
                   secondary : SUBSET Tongues]
TaxCalls == [op : {"class"}, c : Classes, new : BOOLEAN, default : BOOLEAN, clear : SUBSET Classes]
              \cup [op : {"dropClass"}, c : Classes]
              \cup [op : {"rate"}, x : Rates, new : BOOLEAN, row : RateRows]
              \cup [op : {"taxes"}, off : BOOLEAN, ship : SUBSET Classes]
ShipCalls == [op : {"dropProfile"}, p : Profiles] \cup [op : {"default"}, at : {"clear", "set"}, p : Profiles]
DeskCalls == {Idle, Over} \cup Saving \cup Sweeps \cup Telling \cup Looking \cup [op : {"order"}, type : Types]
               \cup TaxCalls \cup ShipCalls

DeskTypeInv ==
  /\ req \in [Requests -> DeskCalls]
  /\ store \in Stores
  /\ order \in [Orders -> {None} \cup [paid : BOOLEAN, split : {"own", "shared"}]]
  /\ class \in [Classes -> {None} \cup [default : BOOLEAN]]
  /\ rate \in [Rates -> {None} \cup RateRows] /\ made \subseteq Rates
  /\ profile \in [Profiles -> {None} \cup [default : BOOLEAN, zones : BOOLEAN]]
  /\ chosen \subseteq Profiles

LEMMA DeskEnds == Idle \in DeskCalls /\ Over \in DeskCalls
BY DEF DeskCalls

LEMMA SavingFields ==
  ASSUME NEW q \in DeskCalls, q.op \in {"update", "admin"}, q.at \in {"write", "list"}
  PROVE  q \in Saving
BY DEF DeskCalls, Idle, Over, Saving, Sweeps, Telling, Looking, TaxCalls, ShipCalls

LEMMA SweepFields ==
  ASSUME NEW q \in DeskCalls, q.op = "admin", q.at \in {"sweep", "upsert"}
  PROVE  q \in Sweeps
BY DEF DeskCalls, Idle, Over, Saving, Sweeps, Telling, Looking, TaxCalls, ShipCalls

LEMMA LookingFields ==
  ASSUME NEW q \in DeskCalls, q.op \in {"look", "speak"}, q.at = "write"
  PROVE  q \in Looking
BY DEF DeskCalls, Idle, Over, Saving, Sweeps, Telling, Looking, TaxCalls, ShipCalls

LEMMA TaxFields ==
  ASSUME NEW q \in DeskCalls, q.op \in {"class", "dropClass", "rate", "taxes"}
  PROVE  q \in TaxCalls
BY DEF DeskCalls, Idle, Over, Saving, Sweeps, Telling, Looking, TaxCalls, ShipCalls

LEMMA ShipFields ==
  ASSUME NEW q \in DeskCalls, q.op \in {"dropProfile", "default"}
  PROVE  q \in ShipCalls
BY DEF DeskCalls, Idle, Over, Saving, Sweeps, Telling, Looking, TaxCalls, ShipCalls

LEMMA OrderFields ==
  ASSUME NEW q \in DeskCalls, q.op = "order"
  PROVE  q.type \in Types
BY DEF DeskCalls, Idle, Over, Saving, Sweeps, Telling, Looking, TaxCalls, ShipCalls

LEMMA TheIn ==
  ASSUME NEW S, NEW d \in S, NEW x \in Chosen(S)
  PROVE  The(x, d) \in S
BY DEF The, Chosen

LEMMA SplitTyped == \A t : SplitOf(t) \in {"own", "shared"}
BY DEF SplitOf

\* A request that takes up or goes on with q, or is over.
LEMMA DeskMoves ==
  ASSUME DeskTypeInv, NEW r \in Requests, NEW q \in DeskCalls, Start(r, q) \/ Ends(r)
  PROVE  /\ req' \in [Requests -> DeskCalls] /\ (Start(r, q) => req'[r] = q)
         /\ \A s \in Requests \ {r} : req'[s] = req[s]
BY DeskEnds, StartMoves, EndMoves, SMTT(40) DEF DeskTypeInv

\* What a save of the store knew of its type when it was let through.
Saved(q) ==
  q.op \in {"update", "admin"} /\ q.at = "write" =>
    /\ q.given /\ q.currency # {} => "INDEPENDENT" \in (IF q.sent = {} THEN {q.type} ELSE q.sent)
    /\ q.switch <=> q.sent \notin {{}, {q.type}}
    /\ q.switch => q.given /\ q.currency = {}
    /\ q.op = "update" => q.sent = {}

LEMMA SavesMoves ==
  ASSUME DeskTypeInv, NEW r \in Requests, NEW given \in BOOLEAN, NEW currency \in Moneys,
         NEW active \in Chosen(BOOLEAN), Saves(r, given, currency, active)
  PROVE  /\ req' \in [Requests -> DeskCalls] /\ \A s \in Requests \ {r} : req'[s] = req[s]
         /\ req[r] = Idle /\ UNCHANGED varsD
         /\ Saved(req'[r]) /\ (req'[r] = Over \/ (req'[r].op \in {"update", "admin"} /\ req'[r].at = "write"))
<1> DEFINE q == [op |-> "update", at |-> "write", given |-> given, currency |-> currency, active |-> active,
                 type |-> store.type, sent |-> {}, switch |-> FALSE]
<1>1. q \in DeskCalls /\ q.op = "update" /\ q.at = "write"
  BY DEF DeskTypeInv, DeskCalls, Saving, Stores, Chosen
<1>2. req[r] = Idle /\ UNCHANGED varsD
  BY DEF Saves, Arrives
<1>3. Saved(Over)
  BY DEF Saved, Over
<1>4. ASSUME ~(given /\ currency # {} /\ ~Independent) PROVE Saved(q)
  BY <1>4 DEF Saved, Independent
<1>5. IF given /\ currency # {} /\ ~Independent THEN Ends(r) ELSE Start(r, q)
  BY DEF Saves
<1> HIDE DEF q
<1>6. Ends(r) => req'[r] = Over
  BY DEF Ends, Done, DeskTypeInv
<1> QED
  BY <1>1, <1>2, <1>3, <1>4, <1>5, <1>6, DeskMoves

LEMMA AdminSavesMoves ==
  ASSUME DeskTypeInv, NEW r \in Requests, NEW given \in BOOLEAN, NEW currency \in Moneys,
         NEW sent \in Chosen(Types), AdminSaves(r, sent, given, currency)
  PROVE  /\ req' \in [Requests -> DeskCalls] /\ \A s \in Requests \ {r} : req'[s] = req[s]
         /\ req[r] = Idle /\ UNCHANGED varsD
         /\ Saved(req'[r]) /\ (req'[r] = Over \/ (req'[r].op \in {"update", "admin"} /\ req'[r].at = "write"))
<1> DEFINE switch == sent \notin {{}, {store.type}}
           money == CurrencyFor(switch, given, currency)
           q == [op |-> "admin", at |-> "write", given |-> money.given, currency |-> money.currency,
                 active |-> {}, type |-> store.type, sent |-> sent, switch |-> switch]
           refused == money.given /\ money.currency # {} /\ "INDEPENDENT" \notin (IF sent = {} THEN {store.type} ELSE sent)
<1>1. money.given \in BOOLEAN /\ money.currency \in Moneys /\ (switch => money.given /\ money.currency = {})
  BY DEF CurrencyFor, Moneys
<1>2. switch \in BOOLEAN /\ (switch <=> sent \notin {{}, {store.type}})
  OBVIOUS
<1>3. req[r] = Idle /\ UNCHANGED varsD
  BY DEF AdminSaves, Arrives
<1>4. IF refused THEN Ends(r) ELSE Start(r, q)
  BY DEF AdminSaves
<1> HIDE DEF money, switch
<1>5. q \in DeskCalls /\ q.op = "admin" /\ q.at = "write"
  BY <1>1, <1>2 DEF DeskTypeInv, DeskCalls, Saving, Stores, Chosen
<1>6. ~refused => Saved(q)
  BY <1>1, <1>2 DEF Saved
<1>7. Saved(Over) /\ (Ends(r) => req'[r] = Over)
  BY DEF Saved, Over, Ends, Done, DeskTypeInv
<1> HIDE DEF q, refused
<1> QED
  BY <1>3, <1>4, <1>5, <1>6, <1>7, DeskMoves

\* Steps that write neither the store nor an order.
LEMMA SweepMoves ==
  ASSUME DeskTypeInv, NEW r \in Requests,
         ListsUnpaid(r) \/ Swept(r) \/ \E o \in Orders : ReadsUnpaid(r, o)
  PROVE  /\ req' \in [Requests -> DeskCalls] /\ \A s \in Requests \ {r} : req'[s] = req[s]
         /\ UNCHANGED varsD /\ req[r].op = "admin" /\ req'[r].op = "admin"
         /\ req'[r].at \in {"sweep", "upsert", "revalidate"}
<1>1. ASSUME NEW q \in DeskCalls, Start(r, q), q.op = "admin", q.at \in {"sweep", "upsert", "revalidate"},
             UNCHANGED varsD, req[r].op = "admin"
      PROVE  /\ req' \in [Requests -> DeskCalls] /\ \A s \in Requests \ {r} : req'[s] = req[s]
             /\ UNCHANGED varsD /\ req[r].op = "admin" /\ req'[r].op = "admin"
             /\ req'[r].at \in {"sweep", "upsert", "revalidate"}
  BY <1>1, DeskMoves
<1>2. CASE ListsUnpaid(r)
  <2> DEFINE q == [op |-> "admin", at |-> "sweep", todo |-> Unpaid]
  <2>1. q \in DeskCalls /\ q.op = "admin" /\ q.at = "sweep"
    BY DEF DeskCalls, Sweeps, Unpaid
  <2>2. Start(r, q) /\ UNCHANGED varsD /\ req[r].op = "admin"
    BY <1>2 DEF ListsUnpaid, At
  <2> HIDE DEF q
  <2> QED
    BY <1>1, <2>1, <2>2
<1>3. CASE Swept(r)
  <2> DEFINE q == [op |-> "admin", at |-> "revalidate"]
  <2>1. q \in DeskCalls /\ q.op = "admin" /\ q.at = "revalidate"
    BY DEF DeskCalls, Telling
  <2>2. Start(r, q) /\ UNCHANGED varsD /\ req[r].op = "admin"
    BY <1>3 DEF Swept, At
  <2> HIDE DEF q
  <2> QED
    BY <1>1, <2>1, <2>2
<1>4. ASSUME NEW o \in Orders, ReadsUnpaid(r, o)
      PROVE  /\ req' \in [Requests -> DeskCalls] /\ \A s \in Requests \ {r} : req'[s] = req[s]
             /\ UNCHANGED varsD /\ req[r].op = "admin" /\ req'[r].op = "admin"
             /\ req'[r].at \in {"sweep", "upsert", "revalidate"}
  <2>1. req[r] \in DeskCalls /\ req[r].op = "admin" /\ req[r].at = "sweep" /\ UNCHANGED varsD
    BY <1>4 DEF ReadsUnpaid, At, DeskTypeInv
  <2>2. req[r] \in [op : {"admin"}, at : {"sweep"}, todo : SUBSET Orders]
    BY <2>1, SweepFields DEF Sweeps
  <2> DEFINE q1 == [req[r] EXCEPT !.todo = @ \ {o}]
             q2 == [op |-> "admin", at |-> "upsert", todo |-> req[r].todo \ {o}, o |-> o, type |-> store.type]
  <2>3. /\ q1 \in DeskCalls /\ q1.op = "admin" /\ q1.at = "sweep"
        /\ q2 \in DeskCalls /\ q2.op = "admin" /\ q2.at = "upsert"
    BY <2>2 DEF DeskCalls, Sweeps, DeskTypeInv, Stores
  <2>4. Start(r, q1) \/ Start(r, q2)
    BY <1>4 DEF ReadsUnpaid
  <2> HIDE DEF q1, q2
  <2> QED
    BY <1>1, <2>1, <2>3, <2>4
<1> QED
  BY <1>2, <1>3, <1>4

\* Requests that arrive to place an order, or to change the look or the
\* languages, read and write nothing yet.
LEMMA AskDeskMoves ==
  ASSUME DeskTypeInv, NEW r \in Requests,
         \/ Places(r) \/ Flushes(r) \/ SelectsTheme(r)
         \/ \E p \in Chosen(Tongues), given \in BOOLEAN : Speaks(r, p, given, Tongues)
  PROVE  /\ req' \in [Requests -> DeskCalls] /\ \A s \in Requests \ {r} : req'[s] = req[s]
         /\ req[r] = Idle /\ UNCHANGED varsD
         /\ req'[r].op \in {"order", "flush"} \/ (req'[r].op \in {"look", "speak"} /\ req'[r].at = "write")
<1> DEFINE Early(q) == q.op \in {"order", "flush"} \/ (q.op \in {"look", "speak"} /\ q.at = "write")
<1>1. ASSUME NEW q \in DeskCalls, Start(r, q), Early(q)
      PROVE  /\ req' \in [Requests -> DeskCalls] /\ \A s \in Requests \ {r} : req'[s] = req[s]
             /\ Early(req'[r])
  BY <1>1, DeskMoves
<1>2. req[r] = Idle /\ UNCHANGED varsD
  BY DEF Places, Flushes, SelectsTheme, Speaks, Arrives
<1>3. CASE Places(r)
  <2> DEFINE q == [op |-> "order", type |-> store.type]
  <2>1. q \in DeskCalls /\ Start(r, q) /\ Early(q)
    BY <1>3 DEF Places, DeskCalls, DeskTypeInv, Stores
  <2> HIDE DEF q
  <2> QED
    BY <1>1, <1>2, <2>1
<1>4. CASE Flushes(r)
  <2> DEFINE q == [op |-> "flush", at |-> "revalidate"]
  <2>1. q \in DeskCalls /\ Start(r, q) /\ Early(q)
    BY <1>4 DEF Flushes, DeskCalls, Telling
  <2> HIDE DEF q
  <2> QED
    BY <1>1, <1>2, <2>1
<1>5. CASE SelectsTheme(r)
  <2> DEFINE q == [op |-> "look", at |-> "write", seen |-> store.look]
  <2>1. q \in DeskCalls /\ Start(r, q) /\ Early(q)
    BY <1>5 DEF SelectsTheme, DeskCalls, Looking, DeskTypeInv, Stores
  <2> HIDE DEF q
  <2> QED
    BY <1>1, <1>2, <2>1
<1>6. ASSUME NEW p \in Chosen(Tongues), NEW given \in BOOLEAN, Speaks(r, p, given, Tongues)
      PROVE  /\ req' \in [Requests -> DeskCalls] /\ \A s \in Requests \ {r} : req'[s] = req[s]
             /\ Early(req'[r])
  <2> DEFINE secondary == Tongues \ {The(p, store.primary)}
             q == [op |-> "speak", at |-> "write", primary |-> p, given |-> given, secondary |-> secondary]
  <2>1. Start(r, q)
    BY <1>6 DEF Speaks
  <2>2. secondary \subseteq Tongues
    OBVIOUS
  <2> HIDE DEF secondary
  <2>3. q \in DeskCalls /\ Early(q)
    BY <2>2 DEF DeskCalls, Looking
  <2> HIDE DEF q
  <2> QED
    BY <1>1, <2>1, <2>3
<1> QED
  BY <1>2, <1>3, <1>4, <1>5, <1>6

LEMMA WritesStoreMoves ==
  ASSUME DeskTypeInv, NEW r \in Requests, WritesStore(r)
  PROVE  /\ req' \in [Requests -> DeskCalls] /\ \A s \in Requests \ {r} : req'[s] = req[s]
         /\ req[r] \in Saving /\ req[r].at = "write"
         /\ req'[r].op = req[r].op /\ req'[r].at = AfterWrite(req[r])
         /\ store' \in Stores
         /\ store'.type = The(req[r].sent, store.type)
         /\ store'.currency = (IF req[r].given THEN req[r].currency ELSE store.currency)
         /\ crossed' = IF req[r].type # store.type THEN crossed \cup {0} \cup {o \in Orders : order[o] # None} ELSE crossed
         /\ UNCHANGED <<order, quiet, clash, pay, cache>> /\ UNCHANGED <<varsT, varsP>>
<1> DEFINE q == req[r]
           p == [q EXCEPT !.at = AfterWrite(q)]
<1>1. q \in Saving /\ q.at = "write"
  BY SavingFields DEF WritesStore, Running, DeskTypeInv
<1>2. AfterWrite(q) \in {"list", "revalidate"}
  BY DEF AfterWrite
<1>3. p \in Saving /\ p.op = q.op /\ p.at = AfterWrite(q)
  BY <1>1, <1>2 DEF Saving
<1>4. req' = [req EXCEPT ![r] = p]
  BY DEF WritesStore, GoesTo
<1>5. p \in DeskCalls
  BY <1>3 DEF DeskCalls
<1>6. store \in Stores /\ req \in [Requests -> DeskCalls]
  BY DEF DeskTypeInv
<1> HIDE DEF p
<1>7. /\ req' \in [Requests -> DeskCalls] /\ req'[r] = p
      /\ \A s \in Requests \ {r} : req'[s] = req[s]
  BY <1>4, <1>5, <1>6
<1>8. The(q.sent, store.type) \in Types /\ The(q.active, store.active) \in BOOLEAN
  BY <1>1, <1>6, TheIn DEF Saving, Stores
<1>9. store' = [store EXCEPT !.currency = IF q.given THEN q.currency ELSE @, !.active = The(q.active, @),
                             !.type = The(q.sent, @)]
  BY DEF WritesStore
<1>10. /\ store' \in Stores /\ store'.type = The(q.sent, store.type)
       /\ store'.currency = (IF q.given THEN q.currency ELSE store.currency)
  BY <1>1, <1>6, <1>8, <1>9 DEF Saving, Stores
<1> QED
  BY <1>1, <1>3, <1>7, <1>10 DEF WritesStore, Others

\* A request that has changed what the store shows goes on to announce it.
LEMMA TellMoves ==
  ASSUME DeskTypeInv, NEW r \in Requests, NEW op \in {"look", "speak", "kustom"}, Announces(r, op)
  PROVE  /\ req' \in [Requests -> DeskCalls] /\ \A s \in Requests \ {r} : req'[s] = req[s]
         /\ req'[r].op = op /\ req'[r].at = "revalidate"
<1> DEFINE q == [op |-> op, at |-> "revalidate"]
<1>1. q \in DeskCalls /\ q.op = op /\ q.at = "revalidate" /\ Start(r, q)
  BY DEF DeskCalls, Telling, Announces
<1> HIDE DEF q
<1> QED
  BY <1>1, DeskMoves

LEMMA LookMoves ==
  ASSUME DeskTypeInv, NEW r \in Requests, Styles(r) \/ WritesTheme(r) \/ WritesLanguages(r)
  PROVE  /\ req' \in [Requests -> DeskCalls] /\ \A s \in Requests \ {r} : req'[s] = req[s]
         /\ req'[r].op \in {"look", "speak"} /\ req'[r].at = "revalidate"
         /\ req[r] = Idle \/ req[r] \in Looking
         /\ store' \in Stores /\ store'.type = store.type /\ store'.currency = store.currency
         /\ UNCHANGED <<pay, cache, order, crossed, quiet, clash>> /\ UNCHANGED <<varsT, varsP>>
<1>s. store \in Stores /\ req[r] \in DeskCalls
  BY DEF DeskTypeInv
<1>1. CASE Styles(r)
  <2>1. store' = [store EXCEPT !.look = r]
    BY <1>1 DEF Styles
  <2>2. store' \in Stores /\ store'.type = store.type /\ store'.currency = store.currency
    BY <1>s, <2>1 DEF Stores
  <2> QED
    BY <1>1, <2>2, TellMoves DEF Styles, StoreOnly, Arrives
<1>2. CASE WritesTheme(r)
  <2>1. req[r].op = "look" /\ req[r].at = "write"
    BY <1>2 DEF WritesTheme, At
  <2>2. req[r] \in Looking /\ req[r].seen \in Requests \cup {0}
    BY <1>s, <2>1, LookingFields DEF Looking
  <2>3. store' = [store EXCEPT !.look = req[r].seen]
    BY <1>2 DEF WritesTheme
  <2>4. store' \in Stores /\ store'.type = store.type /\ store'.currency = store.currency
    BY <1>s, <2>2, <2>3 DEF Stores
  <2> QED
    BY <1>2, <2>2, <2>4, TellMoves DEF WritesTheme, StoreOnly
<1>3. CASE WritesLanguages(r)
  <2> DEFINE q == req[r]
  <2>1. q.op = "speak" /\ q.at = "write"
    BY <1>3 DEF WritesLanguages, At
  <2>2. q \in Looking /\ q.primary \in Chosen(Tongues) /\ q.secondary \subseteq Tongues
    BY <1>s, <2>1, LookingFields DEF Looking
  <2>3. The(q.primary, store.primary) \in Tongues
    BY <1>s, <2>2, TheIn DEF Stores
  <2>4. store' = [store EXCEPT !.primary = The(q.primary, @), !.secondary = IF q.given THEN q.secondary ELSE @]
    BY <1>3 DEF WritesLanguages
  <2>5. store' \in Stores /\ store'.type = store.type /\ store'.currency = store.currency
    BY <1>s, <2>2, <2>3, <2>4 DEF Stores
  <2> QED
    BY <1>3, <2>2, <2>5, TellMoves DEF WritesLanguages, StoreOnly
<1> QED
  BY <1>1, <1>2, <1>3

LEMMA ChargeMoves ==
  ASSUME DeskTypeInv, NEW r \in Requests,
         \/ \E on, complete \in BOOLEAN : SetsKustom(r, on, complete)
         \/ \E card \in {"charges", "payouts", "none"} : ReportsAccount(r, card)
         \/ \E c \in Currencies : SetsPlatform(r, c)
  PROVE  /\ req' \in [Requests -> DeskCalls] /\ \A s \in Requests \ {r} : req'[s] = req[s]
         /\ req[r] = Idle
         /\ UNCHANGED <<store, cache, order, crossed, clash>> /\ UNCHANGED <<varsT, varsP>>
         /\ \/ req'[r].op = "kustom" /\ req'[r].at = "revalidate" /\ quiet' = quiet
            \/ req'[r] = Over /\ quiet' = TRUE
<1>1. ASSUME NEW on, NEW complete, SetsKustom(r, on, complete)
      PROVE  /\ req' \in [Requests -> DeskCalls] /\ \A s \in Requests \ {r} : req'[s] = req[s]
             /\ req[r] = Idle
             /\ UNCHANGED <<store, cache, order, crossed, clash>> /\ UNCHANGED <<varsT, varsP>>
             /\ req'[r].op = "kustom" /\ req'[r].at = "revalidate" /\ quiet' = quiet
  BY <1>1, TellMoves DEF SetsKustom, KustomAnnounced, Arrives
<1>2. ASSUME NEW new, Unannounced(r, new)
      PROVE  /\ req' \in [Requests -> DeskCalls] /\ \A s \in Requests \ {r} : req'[s] = req[s]
             /\ req[r] = Idle
             /\ UNCHANGED <<store, cache, order, crossed, clash>> /\ UNCHANGED <<varsT, varsP>>
             /\ req'[r] = Over /\ quiet' = TRUE
  BY <1>2, DeskEnds, EndMoves DEF Unannounced, Arrives, DeskTypeInv
<1> QED
  BY <1>1, <1>2 DEF ReportsAccount, SetsPlatform

LEMMA UpsertMoves ==
  ASSUME DeskTypeInv, NEW r \in Requests, Upserts(r)
  PROVE  /\ req' \in [Requests -> DeskCalls] /\ \A s \in Requests \ {r} : req'[s] = req[s]
         /\ req[r] \in [op : {"admin"}, at : {"upsert"}, todo : SUBSET Orders, o : Orders, type : Types]
         /\ req'[r] = [op |-> "admin", at |-> "sweep", todo |-> req[r].todo]
         /\ \/ /\ order' = [order EXCEPT ![req[r].o].split = SplitOf(req[r].type)]
               /\ crossed' = IF req[r].type # store.type THEN crossed \cup {req[r].o} ELSE crossed
            \/ order' = order /\ crossed' = crossed \cup {req[r].o}
         /\ UNCHANGED <<store, quiet, clash, pay, cache>> /\ UNCHANGED <<varsT, varsP>>
<1>1. req[r].op = "admin" /\ req[r].at = "upsert" /\ req[r] \in DeskCalls
  BY DEF Upserts, At, DeskTypeInv
<1>2. req[r] \in [op : {"admin"}, at : {"upsert"}, todo : SUBSET Orders, o : Orders, type : Types]
  BY <1>1, SweepFields DEF Sweeps
<1> DEFINE q == [op |-> "admin", at |-> "sweep", todo |-> req[r].todo]
<1>3. q \in DeskCalls
  BY <1>2 DEF DeskCalls, Sweeps
<1>4. Start(r, q)
  BY DEF Upserts
<1>5. req' \in [Requests -> DeskCalls] /\ req'[r] = q /\ \A s \in Requests \ {r} : req'[s] = req[s]
  <2> HIDE DEF q
  <2> QED
    BY <1>3, <1>4, DeskMoves
<1> QED
  BY <1>2, <1>5 DEF Upserts, Others

LEMMA OrderMoves ==
  ASSUME DeskTypeInv, NEW r \in Requests, StoresOrder(r) \/ \E o \in Orders : Pays(r, o)
  PROVE  /\ req' \in [Requests -> DeskCalls] /\ \A s \in Requests \ {r} : req'[s] = req[s]
         /\ req[r] = Idle \/ req[r].op = "order"
         /\ req'[r] = Over
         /\ \/ /\ req[r].op = "order" /\ req[r].type \in Types
               /\ \E o \in Orders :
                    /\ order[o] = None
                    /\ order' = [order EXCEPT ![o] = [paid |-> FALSE, split |-> SplitOf(req[r].type)]]
                    /\ crossed' = IF req[r].type # store.type THEN crossed \cup {o} ELSE crossed
            \/ /\ \E o \in Unpaid : order' = [order EXCEPT ![o].paid = TRUE]
               /\ crossed' = crossed
         /\ UNCHANGED <<store, quiet, clash, pay, cache>> /\ UNCHANGED <<varsT, varsP>>
<1>1. Ends(r)
  BY DEF StoresOrder, Pays
<1>2. /\ req' \in [Requests -> DeskCalls] /\ \A s \in Requests \ {r} : req'[s] = req[s]
      /\ req'[r] = Over
  BY <1>1, DeskEnds, EndMoves DEF DeskTypeInv
<1>3. CASE StoresOrder(r)
  <2>1. req[r].op = "order" /\ req[r].type \in Types
    BY <1>3, OrderFields DEF StoresOrder, Running, DeskTypeInv
  <2> QED
    BY <1>2, <1>3, <2>1 DEF StoresOrder, Orders0, Others
<1>4. CASE \E o \in Orders : Pays(r, o)
  BY <1>2, <1>4 DEF Pays, Others, Arrives
<1> QED
  BY <1>3, <1>4

LEMMA ShowMoves ==
  ASSUME DeskTypeInv, NEW r \in Requests, Visits(r) \/ Revalidates(r)
  PROVE  /\ req' \in [Requests -> DeskCalls] /\ \A s \in Requests \ {r} : req'[s] = req[s]
         /\ req'[r] = Over /\ (req[r] = Idle \/ req[r].at = "revalidate")
         /\ UNCHANGED <<store, pay, order, crossed, clash>> /\ UNCHANGED <<varsT, varsP>>
BY DeskEnds, EndMoves DEF Visits, Revalidates, DeskTypeInv, Arrives

\* What the storefront and the checkout read of a store.
Face == <<store.type, store.currency, store.active, store.primary, store.secondary, store.look>>

TaxAsks(r) ==
  \/ \E c \in Classes : SeedsClass(r, c) \/ DeletesClass(r, c) \/ SavesTaxSettings(r, FALSE, {c})
  \/ \E c \in Classes, b \in BOOLEAN : CreatesClass(r, c, b) \/ \E given \in BOOLEAN : UpdatesClass(r, c, given, b)
  \/ \E c \in Classes, x \in Rates, mine, active \in BOOLEAN : SavesRate(r, x, c, mine, active)
  \/ \E off \in BOOLEAN : SavesTaxSettings(r, off, {})
TaxWrites(r) ==
  \/ \E c \in Classes : AssignsClass(r, c)
  \/ \E x \in Rates : DeletesRate(r, x)
  \/ WritesClass(r) \/ DropsClass(r) \/ WritesRate(r) \/ WritesTaxSettings(r)

LEMMA TaxingIs ==
  ASSUME NEW r \in Requests
  PROVE  Taxing(r) => TaxAsks(r) \/ TaxWrites(r)
BY DEF Taxing, TaxAsks, TaxWrites

\* What a request to change a tax class has read of the classes.
ClassSound(q) ==
  /\ q.default => q.clear = Defaults
  /\ ~q.default => q.clear = {} /\ (q.new => Defaults # {})
DropSound(q) ==
  /\ q.c \notin Defaults
  /\ \A x \in Rates : IsRate(x) => rate[x].class # q.c
TaxSound(q) == (q.op = "class" => ClassSound(q)) /\ (q.op = "dropClass" => DropSound(q))
OneDefault == (\E c \in Classes : IsClass(c)) => \E d \in Classes : Defaults = {d}

\* A request arrives and reads; it writes nothing.
LEMMA TaxAskMoves ==
  ASSUME DeskTypeInv, NEW r \in Requests, TaxAsks(r)
  PROVE  /\ req' \in [Requests -> DeskCalls] /\ \A s \in Requests \ {r} : req'[s] = req[s]
         /\ req[r] = Idle /\ UNCHANGED varsD
         /\ req'[r] = Over \/ req'[r] \in TaxCalls
         /\ OneDefault => TaxSound(req'[r])
<1> DEFINE Goal == /\ req' \in [Requests -> DeskCalls] /\ \A s \in Requests \ {r} : req'[s] = req[s]
                   /\ req'[r] = Over \/ req'[r] \in TaxCalls
                   /\ OneDefault => TaxSound(req'[r])
<1>1. req[r] = Idle /\ UNCHANGED varsD
  BY DEF TaxAsks, SeedsClass, DeletesClass, SavesTaxSettings, CreatesClass, UpdatesClass, SavesRate, Arrives
<1>2. ASSUME Ends(r) PROVE Goal
  <2>1. req'[r] = Over
    BY <1>2, DeskEnds, EndMoves DEF DeskTypeInv
  <2> QED
    BY <1>2, <2>1, DeskEnds, EndMoves DEF DeskTypeInv, TaxSound, Over
<1>3. ASSUME NEW q \in TaxCalls, OneDefault => TaxSound(q), Start(r, q) PROVE Goal
  <2>1. q \in DeskCalls
    BY DEF DeskCalls
  <2> QED
    BY <1>3, <2>1, DeskMoves
<1>d. Defaults \subseteq Classes
  BY DEF Defaults
<1>4. ASSUME NEW c \in Classes, SeedsClass(r, c) PROVE Goal
  <2> DEFINE q == [op |-> "class", c |-> c, new |-> TRUE, default |-> Defaults = {}, clear |-> {}]
  <2>1. q \in TaxCalls
    BY DEF TaxCalls
  <2>2. TaxSound(q)
    BY DEF TaxSound, ClassSound
  <2>3. Start(r, q)
    BY <1>4 DEF SeedsClass
  <2> HIDE DEF q
  <2> QED
    BY <1>3, <2>1, <2>2, <2>3
<1>5. ASSUME NEW c \in Classes, DeletesClass(r, c) PROVE Goal
  <2> DEFINE q == [op |-> "dropClass", c |-> c]
  <2>1. q \in TaxCalls
    BY DEF TaxCalls
  <2>2. CASE ~(class[c].default \/ InUse(c))
    <3>1. TaxSound(q)
      BY <2>2 DEF TaxSound, DropSound, Defaults, InUse
    <3>2. Start(r, q)
      BY <1>5, <2>2 DEF DeletesClass
    <3> HIDE DEF q
    <3> QED
      BY <1>3, <2>1, <3>1, <3>2
  <2>3. CASE class[c].default \/ InUse(c)
    BY <1>2, <1>5, <2>3 DEF DeletesClass
  <2> QED
    BY <2>2, <2>3
<1>6. ASSUME NEW off \in BOOLEAN, NEW ship \in SUBSET Classes, SavesTaxSettings(r, off, ship) PROVE Goal
  <2> DEFINE q == [op |-> "taxes", off |-> off, ship |-> ship]
  <2>1. q \in TaxCalls
    BY DEF TaxCalls
  <2>2. TaxSound(q)
    BY DEF TaxSound
  <2>3. Start(r, q) \/ Ends(r)
    BY <1>6 DEF SavesTaxSettings
  <2> HIDE DEF q
  <2> QED
    BY <1>2, <1>3, <2>1, <2>2, <2>3
<1>7. ASSUME NEW c \in Classes, NEW b \in BOOLEAN, CreatesClass(r, c, b) PROVE Goal
  <2> DEFINE default == FirstIsDefault(b)
             q == [op |-> "class", c |-> c, new |-> TRUE, default |-> default,
                   clear |-> IF default THEN Defaults ELSE {}]
  <2>1. Start(r, q)
    BY <1>7 DEF CreatesClass
  <2>2. default \in BOOLEAN /\ (~default => \E x \in Classes : IsClass(x))
    BY DEF FirstIsDefault
  <2> HIDE DEF default
  <2>3. q \in TaxCalls
    BY <1>d, <2>2 DEF TaxCalls
  <2>4. OneDefault => TaxSound(q)
    BY <2>2 DEF TaxSound, ClassSound, OneDefault
  <2> HIDE DEF q
  <2> QED
    BY <1>3, <2>1, <2>3, <2>4
<1>8. ASSUME NEW c \in Classes, NEW b \in BOOLEAN, NEW given \in BOOLEAN, UpdatesClass(r, c, given, b) PROVE Goal
  <2> DEFINE default == given /\ b
             q == [op |-> "class", c |-> c, new |-> FALSE, default |-> default,
                   clear |-> IF default THEN Defaults ELSE {}]
  <2>1. Start(r, q) \/ Ends(r)
    BY <1>8 DEF UpdatesClass
  <2>2. default \in BOOLEAN
    OBVIOUS
  <2> HIDE DEF default
  <2>3. q \in TaxCalls
    BY <1>d, <2>2 DEF TaxCalls
  <2>4. TaxSound(q)
    BY <2>2 DEF TaxSound, ClassSound
  <2> HIDE DEF q
  <2> QED
    BY <1>2, <1>3, <2>1, <2>3, <2>4
<1>9. ASSUME NEW c \in Classes, NEW x \in Rates, NEW mine \in BOOLEAN, NEW active \in BOOLEAN,
             SavesRate(r, x, c, mine, active)
      PROVE  Goal
  <2> DEFINE new == rate[x] = None
             q == [op |-> "rate", x |-> x, new |-> new, row |-> [class |-> c, own |-> mine, active |-> active]]
  <2>1. Start(r, q) \/ Ends(r)
    BY <1>9 DEF SavesRate
  <2>2. new \in BOOLEAN
    OBVIOUS
  <2> HIDE DEF new
  <2>3. q \in TaxCalls
    BY <2>2 DEF TaxCalls, RateRows
  <2>4. TaxSound(q)
    BY DEF TaxSound
  <2> HIDE DEF q
  <2> QED
    BY <1>2, <1>3, <2>1, <2>3, <2>4
<1> HIDE DEF Goal
<1>10. Goal
  BY <1>4, <1>5, <1>6, <1>7, <1>8, <1>9 DEF TaxAsks
<1> QED
  BY <1>1, <1>10 DEF Goal

\* A write to the tax rows is the request's last step, and shows nothing new.
LEMMA TaxWriteMoves ==
  ASSUME DeskTypeInv, NEW r \in Requests, TaxWrites(r)
  PROVE  /\ req' \in [Requests -> DeskCalls] /\ \A s \in Requests \ {r} : req'[s] = req[s]
         /\ req'[r] = Over /\ (req[r] = Idle \/ req[r] \in TaxCalls)
         /\ store' \in Stores /\ Face' = Face
         /\ UNCHANGED <<pay, cache, order, crossed, quiet>> /\ UNCHANGED varsP
<1> DEFINE q == req[r]
<1>1. Ends(r) /\ UNCHANGED <<pay, cache, order, crossed, quiet>> /\ UNCHANGED varsP
  BY DEF TaxWrites, AssignsClass, DeletesRate, WritesClass, DropsClass, WritesRate, WritesTaxSettings, TaxOnly
<1>2. q = Idle \/ q.op \in {"class", "dropClass", "rate", "taxes"}
  BY DEF TaxWrites, AssignsClass, DeletesRate, WritesClass, DropsClass, WritesRate, WritesTaxSettings, Arrives, Running
<1>3. q \in DeskCalls /\ store \in Stores
  BY DEF DeskTypeInv
<1>4. q = Idle \/ q \in TaxCalls
  BY <1>2, <1>3, TaxFields
<1>5. /\ req' \in [Requests -> DeskCalls] /\ req'[r] = Over
      /\ \A s \in Requests \ {r} : req'[s] = req[s]
  BY <1>1, DeskEnds, EndMoves DEF DeskTypeInv
<1>6. store' \in Stores /\ Face' = Face
  <2>1. CASE store' = store
    BY <1>3, <2>1 DEF Face
  <2>2. CASE DropsClass(r)
    <3>1. store' = [store EXCEPT !.ship = @ \ {q.c}]
      BY <2>2 DEF DropsClass
    <3> QED
      BY <1>3, <3>1 DEF Stores, Face
  <2>3. CASE WritesTaxSettings(r) /\ store' # store
    <3>1. q.op = "taxes" /\ store' = [store EXCEPT !.off = q.off, !.ship = q.ship]
      BY <2>3 DEF WritesTaxSettings, Running
    <3>2. q \in TaxCalls
      BY <1>3, <3>1, TaxFields
    <3>3. q.off \in BOOLEAN /\ q.ship \subseteq Classes
      BY <3>1, <3>2 DEF TaxCalls
    <3> QED
      BY <1>3, <3>1, <3>3 DEF Stores, Face
  <2> QED
    BY <2>1, <2>2, <2>3 DEF TaxWrites, AssignsClass, DeletesRate, WritesClass, WritesRate
<1> QED
  BY <1>1, <1>4, <1>5, <1>6

LEMMA TaxRowsTyped ==
  ASSUME DeskTypeInv, NEW r \in Requests, TaxWrites(r)
  PROVE  /\ class' \in [Classes -> {None} \cup [default : BOOLEAN]]
         /\ rate' \in [Rates -> {None} \cup RateRows] /\ made' \subseteq Rates
<1> USE DEF DeskTypeInv
<1> DEFINE q == req[r]
<1>q. q \in DeskCalls
  OBVIOUS
<1>1. CASE WritesClass(r)
  <2>1. q \in TaxCalls /\ q.op = "class" /\ UNCHANGED <<rate, made>>
    BY <1>q, <1>1, TaxFields DEF WritesClass, Running
  <2>3. \A b \in BOOLEAN : [default |-> b] \in [default : BOOLEAN]
    OBVIOUS
  <2>4. \A c \in Classes : (q.default \/ (~q.new /\ class[c].default)) \in BOOLEAN
    OBVIOUS
  <2>5. \/ class' = class
        \/ class' = [c \in Classes |->
                      IF c = q.c THEN [default |-> q.default \/ (~q.new /\ class[c].default)]
                      ELSE IF c \in q.clear /\ IsClass(c) THEN [default |-> FALSE] ELSE class[c]]
    BY <1>1 DEF WritesClass
  <2>6. \A c \in Classes : [default |-> q.default \/ (~q.new /\ class[c].default)] \in [default : BOOLEAN]
    BY <2>3, <2>4
  <2> DEFINE mine(c) == [default |-> q.default \/ (~q.new /\ class[c].default)]
  <2>7. \A c \in Classes : mine(c) \in [default : BOOLEAN]
    BY <2>6
  <2> DEFINE new(c) == IF c = q.c THEN mine(c)
                       ELSE IF c \in q.clear /\ IsClass(c) THEN [default |-> FALSE] ELSE class[c]
  <2>8. class' = class \/ class' = [c \in Classes |-> new(c)]
    BY <2>5
  <2> HIDE DEF mine
  <2>9. \A c \in Classes : class[c] \in {None} \cup [default : BOOLEAN]
    OBVIOUS
  <2>10. \A c \in Classes : new(c) \in {None} \cup [default : BOOLEAN]
    <3>1. [default |-> FALSE] \in [default : BOOLEAN]
      BY <2>3
    <3> QED
      BY <2>7, <2>9, <3>1
  <2> HIDE DEF new
  <2> QED
    BY <2>1, <2>8, <2>10
<1>2. CASE DropsClass(r)
  BY <1>2 DEF DropsClass
<1>3. CASE WritesRate(r)
  <2>1. q \in TaxCalls /\ q.op = "rate" /\ UNCHANGED class
    BY <1>q, <1>3, TaxFields DEF WritesRate, Running
  <2>2. q.row \in RateRows /\ q.x \in Rates
    BY <2>1 DEF TaxCalls
  <2> QED
    BY <1>3, <2>1, <2>2 DEF WritesRate
<1>4. CASE ~(WritesClass(r) \/ DropsClass(r) \/ WritesRate(r))
  <2>1. class' = class /\ (UNCHANGED <<rate, made>> \/ \E x \in Rates : rate' = [rate EXCEPT ![x] = None] /\ made' = made \ {x})
    BY <1>4 DEF TaxWrites, AssignsClass, DeletesRate, WritesTaxSettings
  <2> QED
    BY <2>1
<1> QED
  BY <1>1, <1>2, <1>3, <1>4

\* A request for the shipping profiles reads, writes and ends; nothing else moves.
LEMMA SendingMoves ==
  ASSUME DeskTypeInv, NEW r \in Requests, Sending(r)
  PROVE  /\ req' \in [Requests -> DeskCalls] /\ \A s \in Requests \ {r} : req'[s] = req[s]
         /\ req[r] = Idle \/ req[r] \in ShipCalls
         /\ req'[r] = Over \/ req'[r] \in ShipCalls
         /\ profile' \in [Profiles -> {None} \cup [default : BOOLEAN, zones : BOOLEAN]]
         /\ chosen' \subseteq Profiles
         /\ UNCHANGED <<store, pay, cache, order, crossed, quiet>> /\ UNCHANGED varsT
<1> USE DEF DeskTypeInv
<1> DEFINE q == req[r]
           RowSet == [default : BOOLEAN, zones : BOOLEAN]
<1>q. q \in DeskCalls
  OBVIOUS
<1>0. UNCHANGED <<store, pay, cache, order, crossed, quiet>> /\ UNCHANGED varsT
  BY DEF Sending, DeletesProfile, SetsDefault, CreatesProfile, EditsZones, DropsProfile, ClearsDefaults,
         SetsTheDefault, DefaultDies, ShipOnly, varsD, varsT
<1> DEFINE Asked == req' \in [Requests -> DeskCalls] /\ (\A s \in Requests \ {r} : req'[s] = req[s])
                    /\ (req[r] = Idle \/ req[r] \in ShipCalls) /\ (req'[r] = Over \/ req'[r] \in ShipCalls)
           Left == profile' \in [Profiles -> {None} \cup RowSet] /\ chosen' \subseteq Profiles
<1>1. ASSUME Ends(r), q = Idle \/ q \in ShipCalls PROVE Asked
  BY <1>1, DeskEnds, EndMoves
<1>2. ASSUME NEW p \in ShipCalls, Start(r, p), q = Idle \/ q \in ShipCalls PROVE Asked
  <2>1. p \in DeskCalls
    BY DEF DeskCalls
  <2> QED
    BY <1>2, <2>1, DeskMoves
<1>3. \A p \in Profiles : IsProfile(p) => /\ profile[p] \in RowSet
                                          /\ \A b \in BOOLEAN : [profile[p] EXCEPT !.zones = b] \in RowSet
                                          /\ \A b \in BOOLEAN : [profile[p] EXCEPT !.default = b] \in RowSet
  BY DEF IsProfile
<1>4. ASSUME NEW p \in Profiles, DeletesProfile(r, p) PROVE Asked /\ Left
  <2> DEFINE s == [op |-> "dropProfile", p |-> p]
  <2>1. s \in ShipCalls /\ Start(r, s) /\ q = Idle
    BY <1>4 DEF DeletesProfile, ShipCalls, Arrives
  <2>2. Left
    BY <1>3, <1>4 DEF DeletesProfile
  <2> HIDE DEF s
  <2> QED
    BY <1>2, <2>1, <2>2
<1>5. ASSUME NEW p \in Profiles, SetsDefault(r, p) PROVE Asked /\ Left
  <2> DEFINE s == [op |-> "default", at |-> "clear", p |-> p]
  <2>1. s \in ShipCalls /\ Start(r, s) /\ q = Idle
    BY <1>5 DEF SetsDefault, ShipCalls, Arrives
  <2>2. Left
    BY <1>5 DEF SetsDefault, varsD
  <2> HIDE DEF s
  <2> QED
    BY <1>2, <2>1, <2>2
<1>6. ASSUME NEW p \in Profiles, NEW b \in BOOLEAN, NEW z \in BOOLEAN, CreatesProfile(r, p, b, z) \/ EditsZones(r, p, z)
      PROVE  Asked /\ Left
  <2>1. Ends(r) /\ q = Idle
    BY <1>6 DEF CreatesProfile, EditsZones, Arrives
  <2>2. [default |-> b, zones |-> z] \in RowSet
    OBVIOUS
  <2>3. Left
    BY <1>3, <1>6, <2>2 DEF CreatesProfile, EditsZones
  <2> QED
    BY <1>1, <2>1, <2>3
<1>7. ASSUME DropsProfile(r) PROVE Asked /\ Left
  <2>1. Ends(r) /\ q \in ShipCalls
    BY <1>q, <1>7, ShipFields DEF DropsProfile, Running
  <2>2. Left
    BY <1>7 DEF DropsProfile
  <2> QED
    BY <1>1, <2>1, <2>2
<1>8. ASSUME ClearsDefaults(r) PROVE Asked /\ Left
  <2>1. GoesTo(r, "set") /\ q.op = "default" /\ q.at = "clear"
    BY <1>8 DEF ClearsDefaults, At
  <2>2. q \in ShipCalls
    BY <1>q, <2>1, ShipFields
  <2>3. q \in [op : {"default"}, at : {"clear", "set"}, p : Profiles]
    BY <2>1, <2>2 DEF ShipCalls
  <2> DEFINE s == [q EXCEPT !.at = "set"]
  <2>4. s \in ShipCalls /\ Start(r, s)
    BY <2>1, <2>3 DEF ShipCalls, GoesTo, Start
  <2>5. \A x \in Profiles : (IF IsProfile(x) THEN [profile[x] EXCEPT !.default = FALSE] ELSE None) \in {None} \cup RowSet
    BY <1>3
  <2>6. Left
    BY <1>8, <2>5 DEF ClearsDefaults, AllCleared
  <2> HIDE DEF s
  <2> QED
    BY <1>2, <2>2, <2>4, <2>6
<1>9. ASSUME SetsTheDefault(r) PROVE Asked /\ Left
  <2>1. Ends(r) /\ q.op = "default" /\ q \in ShipCalls
    BY <1>q, <1>9, ShipFields DEF SetsTheDefault, At
  <2>2. q.p \in Profiles
    BY <2>1 DEF ShipCalls
  <2>3. Left
    BY <1>3, <1>9, <2>2, ZenonT(60) DEF SetsTheDefault, varsP
  <2> QED
    BY <1>1, <2>1, <2>3
<1>10. ASSUME DefaultDies(r) PROVE Asked /\ Left
  <2>1. Ends(r) /\ q \in ShipCalls
    BY <1>q, <1>10, ShipFields DEF DefaultDies, At
  <2>2. Left
    BY <1>10 DEF DefaultDies, varsP
  <2> QED
    BY <1>1, <2>1, <2>2
<1>11. Asked /\ Left
  BY <1>4, <1>5, <1>6, <1>7, <1>8, <1>9, <1>10 DEF Sending
<1> QED
  BY <1>0, <1>11

-------------------------------------------------------------------------------
(* Taxes: one default class, and the rates that were made.                   *)

\* The strengthening of the first half of DefaultsStand: what each request in
\* flight has read is still so, unless it met another.
TaxInv ==
  "class" \notin clash => /\ OneDefault
                          /\ \A x \in made : IsRate(x)
                          /\ \A r \in Requests : TaxSound(req[r])

\* A step that leaves the classes alone and adds no rate of another class.
LEMMA TaxStays ==
  ASSUME TaxInv, NEW r \in Requests, clash \subseteq clash', class' = class,
         \A x \in Rates : rate'[x] = rate[x] \/ rate'[x] = None,
         \A x \in made' : x \in made /\ rate'[x] = rate[x],
         \A s \in Requests \ {r} : req'[s] = req[s],
         "class" \notin clash /\ OneDefault => TaxSound(req'[r])
  PROVE  TaxInv'
<1> SUFFICES ASSUME "class" \notin clash'
             PROVE  /\ OneDefault'
                    /\ \A x \in made' : rate'[x] # None
                    /\ \A s \in Requests : TaxSound(req[s])'
  BY DEF TaxInv, IsRate
<1>1. OneDefault /\ (\A x \in made : IsRate(x)) /\ \A s \in Requests : TaxSound(req[s])
  BY DEF TaxInv
<1>2. Defaults' = Defaults /\ OneDefault'
  BY <1>1 DEF Defaults, OneDefault, IsClass
<1>3. \A s \in Requests : TaxSound(req'[s])
  BY <1>1
<1>4. \A s \in Requests : ClassSound(req'[s]) => ClassSound(req[s])'
  BY <1>2 DEF ClassSound
<1>5. \A s \in Requests : DropSound(req'[s]) => DropSound(req[s])'
  BY <1>2 DEF DropSound, IsRate
<1>6. \A s \in Requests : TaxSound(req[s])'
  BY <1>3, <1>4, <1>5 DEF TaxSound
<1> QED
  BY <1>1, <1>2, <1>6 DEF IsRate

\* The class written becomes the only default, or leaves the default what it is.
LEMMA WritesClassKeeps ==
  ASSUME DeskTypeInv, NEW r \in Requests, WritesClass(r), OneDefault, ClassSound(req[r])
  PROVE  OneDefault'
<1> DEFINE q == req[r]
<1>1. q \in TaxCalls /\ q.op = "class"
  BY TaxFields DEF WritesClass, Running, DeskTypeInv
<1>2. q.c \in Classes /\ q.default \in BOOLEAN /\ q.new \in BOOLEAN
  BY <1>1 DEF TaxCalls
<1>4. CASE class' = class
  BY <1>4 DEF OneDefault, Defaults, IsClass
<1>5. CASE class' # class
  <2>1. q.new <=> ~IsClass(q.c)
    BY <1>5, <1>2 DEF WritesClass
  <2>2. class' = [c \in Classes |->
                   IF c = q.c THEN [default |-> q.default \/ (~q.new /\ class[c].default)]
                   ELSE IF c \in q.clear /\ IsClass(c) THEN [default |-> FALSE] ELSE class[c]]
    BY <1>5 DEF WritesClass
  <2>3. class'[q.c] # None /\ (class'[q.c].default <=> (q.default \/ (~q.new /\ class[q.c].default)))
    <3>1. class'[q.c] = [default |-> q.default \/ (~q.new /\ class[q.c].default)]
      BY <1>2, <2>2
    <3> DEFINE d == q.default \/ (~q.new /\ class[q.c].default)
    <3>2. d \in BOOLEAN
      OBVIOUS
    <3> HIDE DEF d
    <3>3. class'[q.c] # None /\ class'[q.c].default = d
      BY <3>1, <3>2 DEF d, None
    <3>4. class'[q.c].default <=> d
      BY <3>3, Zenon
    <3> QED
      BY <3>3, <3>4, Zenon DEF d
  <2>4. \A c \in Classes \ {q.c} :
          IF c \in q.clear /\ IsClass(c) THEN IsClass(c)' /\ ~class'[c].default ELSE class'[c] = class[c]
    BY <2>2 DEF IsClass, None
  <2>5. CASE q.default
    <3>1. q.clear = Defaults
      BY <2>5 DEF ClassSound
    <3>2. \A c \in Classes \ {q.c} : c \notin Defaults'
      BY <2>4, <3>1 DEF Defaults, IsClass
    <3>3. q.c \in Defaults'
      <4>1. class'[q.c] # None /\ class'[q.c].default
        BY <2>3, <2>5, Zenon
      <4> QED
        BY <1>2, <4>1, Zenon DEF Defaults, IsClass
    <3>4. Defaults' = {q.c}
      BY <3>2, <3>3 DEF Defaults
    <3> QED
      BY <1>2, <3>4 DEF OneDefault
  <2>6. CASE ~q.default
    <3>1. q.clear = {} /\ (q.new => Defaults # {})
      BY <2>6 DEF ClassSound
    <3>2. \A c \in Classes \ {q.c} : class'[c] = class[c]
      BY <2>4, <3>1
    <3>3. q.c \in Defaults' <=> q.c \in Defaults
      <4>1. class'[q.c] # None /\ (class'[q.c].default <=> ~q.new /\ class[q.c].default)
        BY <2>3, <2>6, Zenon
      <4>2. q.new <=> class[q.c] = None
        BY <2>1 DEF IsClass
      <4> HIDE DEF q
      <4> QED
        BY <1>2, <4>1, <4>2, Zenon DEF Defaults, IsClass
    <3>4. Defaults' = Defaults
      BY <3>2, <3>3 DEF Defaults, IsClass
    <3>5. \E c \in Classes : IsClass(c)
      BY <1>2, <2>1, <3>1 DEF Defaults
    <3> QED
      BY <3>4, <3>5 DEF OneDefault
  <2> QED
    BY <2>5, <2>6
<1> QED
  BY <1>4, <1>5

LEMMA TaxWritesKeep ==
  ASSUME DeskTypeInv, TaxInv, NEW r \in Requests, TaxWrites(r)
  PROVE  TaxInv'
<1> DEFINE q == req[r]
<1>t. rate \in [Rates -> {None} \cup RateRows] /\ made \subseteq Rates
      /\ class \in [Classes -> {None} \cup [default : BOOLEAN]]
  BY DEF DeskTypeInv
<1>m. req'[r] = Over /\ (\A s \in Requests \ {r} : req'[s] = req[s])
  BY TaxWriteMoves
<1>o. TaxSound(req'[r]) /\ TaxSound(req[r])'
  BY <1>m DEF TaxSound, Over
<1>1. ASSUME NEW c \in Classes, AssignsClass(r, c) PROVE TaxInv'
  <2>1. UNCHANGED <<class, rate, made, clash>>
    BY <1>1 DEF AssignsClass
  <2>2. \A x \in made : rate'[x] = rate[x]
    BY <2>1
  <2> QED
    BY <1>m, <1>o, <2>1, <2>2, TaxStays
<1>2. ASSUME NEW x \in Rates, DeletesRate(r, x) PROVE TaxInv'
  <2>1. UNCHANGED <<class, clash>> /\ rate' = [rate EXCEPT ![x] = None] /\ made' = made \ {x}
    BY <1>2 DEF DeletesRate
  <2>2. /\ \A y \in Rates : rate'[y] = rate[y] \/ rate'[y] = None
        /\ \A y \in made' : y \in made /\ rate'[y] = rate[y]
    BY <1>t, <2>1
  <2> QED
    BY <1>m, <1>o, <2>1, <2>2, TaxStays
<1>3. CASE WritesTaxSettings(r)
  <2>1. UNCHANGED <<class, rate, made, clash>>
    BY <1>3 DEF WritesTaxSettings
  <2>2. \A x \in made : rate'[x] = rate[x]
    BY <2>1
  <2> QED
    BY <1>m, <1>o, <2>1, <2>2, TaxStays
<1> SUFFICES ASSUME "class" \notin clash', WritesClass(r) \/ DropsClass(r) \/ WritesRate(r) PROVE TaxInv'
  BY <1>1, <1>2, <1>3 DEF TaxInv, TaxWrites
<1>c. "class" \notin clash
  BY DEF WritesClass, DropsClass, WritesRate, Met
<1>i. OneDefault /\ (\A x \in made : IsRate(x)) /\ \A s \in Requests : TaxSound(req[s])
  BY <1>c DEF TaxInv
<1>a. ASSUME NEW s \in Requests, Changing \subseteq {r} PROVE TaxSound(req[s])'
  <2>1. CASE s = r
    BY <1>o, <2>1
  <2>2. CASE s # r
    <3>1. s \notin Changing /\ req'[s] = req[s]
      BY <1>a, <1>m, <2>2
    <3> QED
      BY <3>1 DEF TaxSound, Changing, Running
  <2> QED
    BY <2>1, <2>2
<1>4. CASE WritesClass(r)
  <2>1. Changing \subseteq {r} /\ UNCHANGED <<rate, made>> /\ q.op = "class"
    BY <1>4 DEF WritesClass, Met, Running
  <2>2. OneDefault'
    BY <1>4, <1>i, <2>1, WritesClassKeeps DEF TaxSound
  <2> QED
    BY <1>i, <1>a, <2>1, <2>2 DEF TaxInv, IsRate
<1>5. CASE DropsClass(r)
  <2>1. /\ Changing \subseteq {r} /\ made' = made /\ q.op = "dropClass"
        /\ class' = [class EXCEPT ![q.c] = None]
        /\ rate'  = [x \in Rates |-> IF IsRate(x) /\ rate[x].class = q.c THEN None ELSE rate[x]]
    BY <1>5 DEF DropsClass, Met, Running
  <2>2. q.c \notin Defaults /\ \A x \in Rates : IsRate(x) => rate[x].class # q.c
    BY <1>i, <2>1 DEF TaxSound, DropSound
  <2>3. \A x \in made : IsRate(x)'
    BY <1>t, <1>i, <2>1, <2>2 DEF IsRate
  <2>4. \A c \in Classes : c = q.c \/ class'[c] = class[c]
    BY <1>t, <2>1
  <2>5. q.c \in Classes => class'[q.c] = None
    BY <1>t, <2>1
  <2>6. Defaults' = Defaults /\ \A c \in Classes : IsClass(c)' => IsClass(c)
    BY <2>2, <2>4, <2>5 DEF Defaults, IsClass
  <2>7. OneDefault'
    BY <1>i, <2>6 DEF OneDefault
  <2> QED
    BY <1>a, <2>1, <2>3, <2>7 DEF TaxInv
<1>6. CASE WritesRate(r)
  <2>1. /\ Running("dropClass") \subseteq {r} /\ class' = class /\ q.op = "rate"
        /\ \/ rate' = [rate EXCEPT ![q.x] = q.row] /\ made' = made \cup {q.x}
           \/ UNCHANGED <<rate, made>>
    BY <1>6 DEF WritesRate, Met, Running
  <2>2. q \in TaxCalls
    BY <2>1, TaxFields DEF DeskTypeInv
  <2>3. q.x \in Rates /\ q.row \in RateRows
    BY <2>1, <2>2 DEF TaxCalls
  <2>4. q.row # None
    BY <2>3 DEF RateRows, None
  <2>5. \A x \in made' : IsRate(x)'
    BY <1>t, <1>i, <2>1, <2>3, <2>4 DEF IsRate
  <2>6. Defaults' = Defaults /\ OneDefault'
    BY <1>i, <2>1 DEF OneDefault, Defaults, IsClass
  <2>7. ASSUME NEW s \in Requests, s # r PROVE TaxSound(req[s])'
    <3>1. req'[s] = req[s] /\ req[s].op # "dropClass" /\ TaxSound(req[s])
      BY <1>m, <1>i, <2>1, <2>7 DEF Running
    <3>2. ClassSound(req[s]) => ClassSound(req[s])'
      BY <2>6, <3>1 DEF ClassSound
    <3> QED
      BY <3>1, <3>2 DEF TaxSound
  <2> QED
    BY <1>o, <2>5, <2>6, <2>7 DEF TaxInv
<1> QED
  BY <1>4, <1>5, <1>6

-------------------------------------------------------------------------------
(* Shipping: the profile last chosen is the default.                         *)

DefaultProfiles == {x \in Profiles : IsProfile(x) /\ profile[x].default}
Setting == {r \in Running("default") : req[r].at = "set"}

\* While a request makes a profile the default there is none between its steps.
ShipInv ==
  "profile" \notin clash => /\ Running("default") = {} => \A p \in chosen : DefaultProfiles = {p}
                            /\ Setting # {} => DefaultProfiles = {}

\* A step that takes no default away and starts no request after its clearing.
LEMMA ShipStays ==
  ASSUME ShipInv, clash' = clash, chosen' = chosen, DefaultProfiles' = DefaultProfiles,
         Running("default") \subseteq Running("default")', Setting' \subseteq Setting
  PROVE  ShipInv'
BY DEF ShipInv

LEMMA ShipStepKeeps ==
  ASSUME DeskTypeInv, ShipInv, NEW r \in Requests, Sending(r)
  PROVE  ShipInv'
<1> DEFINE q == req[r]
           RowSet == [default : BOOLEAN, zones : BOOLEAN]
<1>t. profile \in [Profiles -> {None} \cup RowSet] /\ q \in DeskCalls /\ req \in [Requests -> DeskCalls]
  BY DEF DeskTypeInv
<1>m. req' \in [Requests -> DeskCalls] /\ \A s \in Requests \ {r} : req'[s] = req[s]
  BY SendingMoves
<1>r. \A p \in Profiles : IsProfile(p) => profile[p] \in RowSet
  BY <1>t DEF IsProfile
<1>e. ASSUME Ends(r)
      PROVE  /\ req'[r] = Over /\ Setting' = Setting \ {r}
             /\ Running("default")' = Running("default") \ {r}
  <2>1. req'[r] = Over
    BY <1>e, <1>t DEF Ends, Done
  <2> QED
    BY <1>m, <2>1 DEF Over, Running, Setting
<1>1. ASSUME NEW p \in Profiles, NEW b \in BOOLEAN, NEW z \in BOOLEAN, CreatesProfile(r, p, b, z)
      PROVE  ShipInv'
  <2> SUFFICES ASSUME "profile" \notin clash' PROVE ShipInv'
    BY DEF ShipInv
  <2>1. ~b /\ clash' = clash /\ chosen' = chosen /\ Ends(r) /\ q.op = "idle" /\ profile[p] = None
    BY <1>1 DEF CreatesProfile, Arrives, Idle
  <2>2. profile' = [profile EXCEPT ![p] = [default |-> FALSE, zones |-> z]]
    BY <1>1, <2>1 DEF CreatesProfile
  <2>3. \A x \in Profiles : x \in DefaultProfiles' <=> x \in DefaultProfiles
    BY <1>t, <2>1, <2>2 DEF DefaultProfiles, IsProfile
  <2>4. DefaultProfiles' = DefaultProfiles
    BY <2>3 DEF DefaultProfiles
  <2>5. r \notin Running("default")
    BY <2>1 DEF Running
  <2> QED
    BY <1>e, <2>1, <2>4, <2>5, ShipStays
<1>2. ASSUME NEW p \in Profiles, DeletesProfile(r, p) \/ \E z \in BOOLEAN : EditsZones(r, p, z)
      PROVE  ShipInv'
  <2>1. /\ IsProfile(p) /\ UNCHANGED <<chosen, clash>> /\ q.op = "idle"
    BY <1>2 DEF EditsZones, DeletesProfile, Arrives, Idle
  <2>z. PICK z \in BOOLEAN : profile' = [profile EXCEPT ![p].zones = z]
    <3>1. DeletesProfile(r, p) => profile' = [profile EXCEPT ![p].zones = FALSE]
      BY DEF DeletesProfile
    <3>2. \A z \in BOOLEAN : EditsZones(r, p, z) => profile' = [profile EXCEPT ![p].zones = z]
      BY DEF EditsZones
    <3> QED
      BY <1>2, <3>1, <3>2
  <2>2. \A x \in Profiles : /\ profile'[x] # None <=> profile[x] # None
                            /\ profile[x] # None => (profile'[x].default <=> profile[x].default)
    <3>1. [profile[p] EXCEPT !.zones = z] \in RowSet /\ [profile[p] EXCEPT !.zones = z].default = profile[p].default
      BY <1>r, <2>1
    <3>2. \A row \in RowSet : row # None
      BY DEF None
    <3> QED
      BY <1>t, <2>1, <2>z, <3>1, <3>2 DEF IsProfile
  <2>3. DefaultProfiles' = DefaultProfiles
    BY <2>2 DEF DefaultProfiles, IsProfile
  <2>4. r \notin Running("default")
    BY <2>1 DEF Running
  <2>5. req'[r].op \in {"done", "dropProfile"}
    <3> DEFINE s == [op |-> "dropProfile", p |-> p]
    <3>1. s \in DeskCalls /\ s.op = "dropProfile"
      BY DEF DeskCalls, ShipCalls
    <3>2. Ends(r) \/ Start(r, s)
      BY <1>2 DEF EditsZones, DeletesProfile
    <3> HIDE DEF s
    <3> QED
      BY <1>e, <3>1, <3>2, DeskMoves DEF Over
  <2>6. Running("default")' = Running("default") /\ Setting' = Setting
    BY <1>m, <2>4, <2>5 DEF Running, Setting
  <2> QED
    BY <2>1, <2>3, <2>6, ShipStays
<1>3. ASSUME NEW p \in Profiles, SetsDefault(r, p) PROVE ShipInv'
  <2> DEFINE s == [op |-> "default", at |-> "clear", p |-> p]
  <2>1. s \in DeskCalls /\ s.op = "default" /\ s.at = "clear" /\ Start(r, s) /\ q.op = "idle"
    BY <1>3 DEF DeskCalls, ShipCalls, SetsDefault, Arrives, Idle
  <2>2. UNCHANGED <<profile, chosen, clash>>
    BY <1>3 DEF SetsDefault, varsD
  <2> HIDE DEF s
  <2>3. req'[r] = s
    BY <2>1, DeskMoves
  <2>4. Running("default") \subseteq Running("default")' /\ Setting' \subseteq Setting
    BY <1>m, <2>1, <2>3 DEF Running, Setting
  <2>5. DefaultProfiles' = DefaultProfiles
    BY <2>2 DEF DefaultProfiles, IsProfile
  <2> QED
    BY <2>2, <2>4, <2>5, ShipStays
<1>4. CASE DropsProfile(r)
  <2>1. Ends(r) /\ clash' = clash /\ q.op = "dropProfile"
    BY <1>4 DEF DropsProfile, Running
  <2>2. q.p \in Profiles
    BY <1>t, <2>1, ShipFields DEF ShipCalls
  <2>3. Running("default")' = Running("default") /\ Setting' = Setting
    BY <1>e, <2>1 DEF Running, Setting
  <2>4. CASE UNCHANGED <<profile, chosen>>
    BY <2>1, <2>3, <2>4, ShipStays DEF DefaultProfiles, IsProfile
  <2>5. CASE profile' = [profile EXCEPT ![q.p] = None] /\ chosen' = chosen \ {q.p}
    <3>1. \A x \in Profiles : x \in DefaultProfiles' <=> x \in DefaultProfiles \ {q.p}
      BY <1>t, <2>2, <2>5 DEF DefaultProfiles, IsProfile
    <3>2. DefaultProfiles' = DefaultProfiles \ {q.p}
      BY <3>1 DEF DefaultProfiles
    <3> QED
      BY <2>1, <2>3, <2>5, <3>2 DEF ShipInv
  <2> QED
    BY <1>4, <2>4, <2>5 DEF DropsProfile
<1>5. CASE ClearsDefaults(r)
  <2>1. /\ q.op = "default" /\ GoesTo(r, "set") /\ UNCHANGED <<chosen, clash>>
        /\ profile' = [x \in Profiles |-> IF IsProfile(x) THEN [profile[x] EXCEPT !.default = FALSE] ELSE None]
    BY <1>5 DEF ClearsDefaults, At, AllCleared
  <2>2. \A x \in Profiles : IsProfile(x) => ~profile'[x].default
    BY <1>r, <2>1
  <2>3. \A x \in Profiles : ~IsProfile(x) => profile'[x] = None
    BY <2>1
  <2>4. DefaultProfiles' = {}
    BY <2>2, <2>3 DEF DefaultProfiles, IsProfile
  <2>5. q \in [op : {"default"}, at : {"clear", "set"}, p : Profiles]
    BY <1>t, <2>1, ShipFields DEF ShipCalls
  <2>6. req'[r].op = "default"
    BY <1>t, <2>1, <2>5 DEF GoesTo
  <2>7. Running("default")' # {}
    BY <2>6 DEF Running
  <2> QED
    BY <2>1, <2>4, <2>7 DEF ShipInv
<1>6. CASE SetsTheDefault(r) \/ DefaultDies(r)
  <2> SUFFICES ASSUME "profile" \notin clash' PROVE ShipInv'
    BY DEF ShipInv
  <2>1. /\ q.op = "default" /\ q.at = "set" /\ Ends(r) /\ "profile" \notin clash
        /\ Running("default") = {r} /\ IsProfile(q.p)
        /\ profile' = [profile EXCEPT ![q.p].default = TRUE] /\ chosen' = {q.p}
    BY <1>6 DEF SetsTheDefault, DefaultDies, At
  <2>2. q.p \in Profiles
    BY <1>t, <2>1, ShipFields DEF ShipCalls
  <2>3. DefaultProfiles = {}
    BY <2>1 DEF ShipInv, Setting
  <2>4. [profile[q.p] EXCEPT !.default = TRUE] \in RowSet /\ [profile[q.p] EXCEPT !.default = TRUE].default = TRUE
    BY <1>r, <2>1, <2>2
  <2>5. profile'[q.p] # None /\ profile'[q.p].default = TRUE
    BY <1>t, <2>1, <2>2, <2>4 DEF None
  <2>6. \A x \in Profiles \ {q.p} : x \notin DefaultProfiles'
    BY <1>t, <2>1, <2>3 DEF DefaultProfiles, IsProfile
  <2>7. q.p \in DefaultProfiles'
    BY <2>2, <2>5 DEF DefaultProfiles, IsProfile
  <2>8. DefaultProfiles' = {q.p}
    BY <2>6, <2>7 DEF DefaultProfiles
  <2>9. Setting' = {}
    BY <1>e, <2>1 DEF Setting
  <2> QED
    BY <2>1, <2>8, <2>9 DEF ShipInv
<1> QED
  BY <1>1, <1>2, <1>3, <1>4, <1>5, <1>6 DEF Sending

-------------------------------------------------------------------------------
(* The type of the store: its currency and the splits of its orders.         *)

\* An order whose split is still to be derived by a sweep under way.
InSweep(q) == q.op = "admin" /\ q.at \in {"list", "sweep", "upsert"}
Covers(q, o) ==
  /\ InSweep(q)
  /\ q.at \in {"sweep", "upsert"} => o \in q.todo \/ (q.at = "upsert" /\ o = q.o)
SplitOrSwept(o) == order[o].split = SplitOf(store.type) \/ \E r \in Requests : Covers(req[r], o)

\* The strengthening of TypeGoverns: what saves have read, and which orders
\* the sweeps have still before them.
GovernsInv ==
  /\ 0 \notin crossed => (store.currency # {} => Independent)
  /\ \A r \in Requests : Saved(req[r])
  /\ \A o \in Unpaid \ crossed : SplitOrSwept(o)

LEMMA TypeEnough == GovernsInv => TypeGoverns
BY DEF GovernsInv, TypeGoverns, SplitOrSwept, Sweeping, Covers, InSweep, Running

\* A step of a request that is not sweeping, and leaves the type, the currency
\* and the orders alone.
LEMMA TypeStays ==
  ASSUME GovernsInv, NEW r \in Requests, UNCHANGED <<order, crossed>>,
         store'.type = store.type, store'.currency = store.currency,
         \A s \in Requests \ {r} : req'[s] = req[s], ~InSweep(req[r]), Saved(req'[r])
  PROVE  GovernsInv'
<1>1. Unpaid' = Unpaid
  BY DEF Unpaid, There
<1>2. \A s \in Requests : Saved(req'[s])
  BY DEF GovernsInv
<1>3. ASSUME NEW o \in Unpaid \ crossed PROVE SplitOrSwept(o)'
  <2>1. CASE order[o].split = SplitOf(store.type)
    BY <2>1 DEF SplitOrSwept, SplitOf
  <2>2. ASSUME NEW s \in Requests, Covers(req[s], o) PROVE SplitOrSwept(o)'
    <3>1. s # r
      BY <2>2 DEF Covers
    <3> QED
      BY <2>2, <3>1 DEF SplitOrSwept
  <2> QED
    BY <1>3, <2>1, <2>2 DEF GovernsInv, SplitOrSwept
<1> QED
  BY <1>1, <1>2, <1>3 DEF GovernsInv, Independent, Saved

\* A switch is swept after, unless it met another.
LEMMA WritesStoreKeepsType ==
  ASSUME DeskTypeInv, GovernsInv, NEW r \in Requests, WritesStore(r)
  PROVE  GovernsInv'
<1> DEFINE q == req[r]
<1>m. /\ \A s \in Requests \ {r} : req'[s] = req[s]
      /\ q \in Saving /\ q.at = "write"
      /\ req'[r].op = q.op /\ req'[r].at = AfterWrite(q)
      /\ store'.type = The(q.sent, store.type)
      /\ store'.currency = (IF q.given THEN q.currency ELSE store.currency)
      /\ crossed' = IF q.type # store.type THEN crossed \cup {0} \cup {o \in Orders : order[o] # None} ELSE crossed
      /\ order' = order
  BY WritesStoreMoves
<1>s. Saved(q)
  BY DEF GovernsInv
<1>o. q.op \in {"update", "admin"} /\ q.sent \in Chosen(Types)
  BY <1>m DEF Saving
<1>1. q.sent = {} \/ \E t \in Types : q.sent = {t} /\ The(q.sent, store.type) = t
  BY <1>o DEF Chosen, The
<1>2. Saved(req'[r])
  BY <1>m DEF Saved, AfterWrite
<1>3. \A s \in Requests : Saved(req[s])'
  BY <1>m, <1>2 DEF GovernsInv, Saved
<1>4. Unpaid' = Unpaid
  BY <1>m DEF Unpaid, There
<1>5. CASE q.type # store.type
  <2>1. 0 \in crossed' /\ Unpaid \subseteq crossed'
    BY <1>m, <1>5 DEF Unpaid, There
  <2> QED
    BY <1>3, <1>4, <2>1 DEF GovernsInv
<1>6. CASE q.type = store.type
  <2>1. crossed' = crossed
    BY <1>m, <1>6
  <2>2. 0 \notin crossed => (store'.currency # {} => store'.type = "INDEPENDENT")
    <3> SUFFICES ASSUME 0 \notin crossed, store'.currency # {} PROVE store'.type = "INDEPENDENT"
      OBVIOUS
    <3>1. q.sent = {} => store'.type = store.type
      BY <1>m DEF The
    <3>2. CASE q.given
      <4>1. "INDEPENDENT" \in (IF q.sent = {} THEN {q.type} ELSE q.sent)
        BY <1>m, <1>o, <1>s, <3>2 DEF Saved
      <4> QED
        BY <1>m, <1>1, <1>6, <3>1, <4>1
    <3>3. CASE ~q.given
      <4>1. q.sent \in {{}, {store.type}} /\ store.currency # {}
        BY <1>m, <1>o, <1>s, <1>6, <3>3 DEF Saved
      <4>2. store'.type = store.type
        BY <1>m, <1>1, <3>1, <4>1
      <4> QED
        BY <4>1, <4>2 DEF GovernsInv, Independent
    <3> QED
      BY <3>2, <3>3
  <2>3. ASSUME NEW o \in Unpaid \ crossed PROVE SplitOrSwept(o)'
    <3>1. CASE q.switch
      <4>1. q.op = "admin"
        BY <1>m, <1>o, <1>s, <3>1 DEF Saved, Saving
      <4>2. Covers(req'[r], o)
        BY <1>m, <3>1, <4>1 DEF Covers, InSweep, AfterWrite
      <4> QED
        BY <4>2 DEF SplitOrSwept
    <3>2. CASE ~q.switch
      <4>1. q.sent \in {{}, {store.type}}
        BY <1>m, <1>o, <1>s, <1>6, <3>2 DEF Saved
      <4>2. store'.type = store.type
        BY <1>m, <1>1, <4>1 DEF The
      <4>3. CASE order[o].split = SplitOf(store.type)
        BY <1>m, <4>2, <4>3 DEF SplitOrSwept
      <4>4. ASSUME NEW s \in Requests, Covers(req[s], o) PROVE SplitOrSwept(o)'
        <5>1. s # r
          BY <1>m, <4>4 DEF Covers, InSweep
        <5> QED
          BY <1>m, <4>4, <5>1 DEF SplitOrSwept
      <4> QED
        BY <2>3, <4>3, <4>4 DEF GovernsInv, SplitOrSwept
    <3> QED
      BY <3>1, <3>2
  <2> QED
    BY <1>3, <1>4, <2>1, <2>2, <2>3 DEF GovernsInv, Independent
<1> QED
  BY <1>5, <1>6

\* A sweep hands each order it listed on until its split is derived.
LEMMA SweepKeepsType ==
  ASSUME DeskTypeInv, GovernsInv, NEW r \in Requests,
         ListsUnpaid(r) \/ Swept(r) \/ \E o \in Orders : ReadsUnpaid(r, o)
  PROVE  GovernsInv'
<1>m. /\ \A s \in Requests \ {r} : req'[s] = req[s]
      /\ UNCHANGED <<order, crossed, store>> /\ req[r].op = "admin"
      /\ req'[r].at # "write"
  BY SweepMoves DEF varsD
<1>f. r \in DOMAIN req
  BY DEF DeskTypeInv
<1>1. \A s \in Requests : Saved(req[s])'
  BY <1>m DEF GovernsInv, Saved
<1>2. Unpaid' = Unpaid
  BY <1>m DEF Unpaid, There
<1>3. ASSUME NEW o \in Unpaid \ crossed, Covers(req[r], o) PROVE Covers(req'[r], o)
  <2>1. CASE ListsUnpaid(r)
    <3>1. req'[r] = [op |-> "admin", at |-> "sweep", todo |-> Unpaid]
      BY <1>f, <2>1 DEF ListsUnpaid, Start
    <3> QED
      BY <1>3, <3>1 DEF Covers, InSweep
  <2>2. CASE Swept(r)
    BY <1>3, <2>2 DEF Covers, Swept, At
  <2>3. ASSUME NEW p \in Orders, ReadsUnpaid(r, p) PROVE Covers(req'[r], o)
    <3>1. req[r].at = "sweep" /\ o \in req[r].todo
      BY <1>3, <2>3 DEF ReadsUnpaid, At, Covers
    <3>2. req[r] \in [op : {"admin"}, at : {"sweep"}, todo : SUBSET Orders]
      BY <1>m, <3>1, SweepFields DEF Sweeps, DeskTypeInv
    <3>3. CASE order[p].paid
      <4>1. req'[r] = [req[r] EXCEPT !.todo = @ \ {p}]
        BY <1>f, <2>3, <3>3 DEF ReadsUnpaid, Start
      <4>2. o # p
        BY <1>3, <3>3 DEF Unpaid
      <4>3. req'[r].op = "admin" /\ req'[r].at = "sweep" /\ o \in req'[r].todo
        BY <3>1, <3>2, <4>1, <4>2
      <4> QED
        BY <4>3 DEF Covers, InSweep
    <3>4. CASE ~order[p].paid
      <4>1. req'[r] = [op |-> "admin", at |-> "upsert", todo |-> req[r].todo \ {p}, o |-> p, type |-> store.type]
        BY <1>f, <2>3, <3>4 DEF ReadsUnpaid, Start
      <4> QED
        BY <3>1, <4>1 DEF Covers, InSweep
    <3> QED
      BY <3>3, <3>4
  <2> QED
    BY <2>1, <2>2, <2>3
<1>4. ASSUME NEW o \in Unpaid \ crossed PROVE SplitOrSwept(o)'
  <2>1. SplitOrSwept(o)
    BY DEF GovernsInv
  <2> QED
    BY <1>m, <1>3, <2>1 DEF SplitOrSwept
<1> QED
  BY <1>1, <1>2, <1>4, <1>m DEF GovernsInv, Independent

LEMMA UpsertKeepsType ==
  ASSUME DeskTypeInv, GovernsInv, NEW r \in Requests, Upserts(r)
  PROVE  GovernsInv'
<1> DEFINE q == req[r]
<1>m. /\ \A s \in Requests \ {r} : req'[s] = req[s]
      /\ q \in [op : {"admin"}, at : {"upsert"}, todo : SUBSET Orders, o : Orders, type : Types]
      /\ req'[r] = [op |-> "admin", at |-> "sweep", todo |-> q.todo]
      /\ \/ /\ order' = [order EXCEPT ![q.o].split = SplitOf(q.type)]
            /\ crossed' = IF q.type # store.type THEN crossed \cup {q.o} ELSE crossed
         \/ order' = order /\ crossed' = crossed \cup {q.o}
      /\ store' = store
  BY UpsertMoves
<1>1. \A s \in Requests : Saved(req[s])'
  BY <1>m DEF GovernsInv, Saved
<1>2. crossed \subseteq crossed'
  BY <1>m
<1>t. order \in [Orders -> {None} \cup [paid : BOOLEAN, split : {"own", "shared"}]]
  BY DEF DeskTypeInv
<1>3. ASSUME NEW o \in Unpaid', o \notin crossed' PROVE SplitOrSwept(o)'
  <2>1. CASE o = q.o
    <3>1. order' = [order EXCEPT ![q.o].split = SplitOf(q.type)] /\ q.type = store.type
      BY <1>m, <1>3, <2>1
    <3>2. order'[o] = [order[o] EXCEPT !.split = SplitOf(q.type)] /\ o \in Orders
      BY <1>m, <1>t, <2>1, <3>1
    <3>3. order[o] # None
      <4>1. [None EXCEPT !.split = SplitOf(q.type)] = None
        BY DEF None
      <4> QED
        BY <1>3, <3>2, <4>1 DEF Unpaid, There
    <3>4. order'[o].split = SplitOf(store.type)
      BY <1>t, <3>1, <3>2, <3>3
    <3> QED
      BY <1>m, <3>4 DEF SplitOrSwept, SplitOf
  <2>2. CASE o # q.o
    <3>1. order'[o] = order[o] /\ o \in Orders
      BY <1>m, <1>t, <2>2 DEF Unpaid
    <3>2. o \in Unpaid \ crossed
      BY <1>2, <1>3, <3>1 DEF Unpaid, There
    <3>3. SplitOrSwept(o)
      BY <3>2 DEF GovernsInv
    <3>4. Covers(q, o) => Covers(req'[r], o)
      BY <1>m, <2>2 DEF Covers, InSweep
    <3> QED
      BY <1>m, <3>1, <3>3, <3>4 DEF SplitOrSwept, SplitOf
  <2> QED
    BY <2>1, <2>2
<1> QED
  BY <1>m, <1>1, <1>2, <1>3 DEF GovernsInv, Independent

LEMMA OrderKeepsType ==
  ASSUME DeskTypeInv, GovernsInv, NEW r \in Requests, StoresOrder(r) \/ \E o \in Orders : Pays(r, o)
  PROVE  GovernsInv'
<1> DEFINE q == req[r]
<1>m. /\ \A s \in Requests \ {r} : req'[s] = req[s]
      /\ (q = Idle \/ q.op = "order") /\ req'[r] = Over
      /\ \/ /\ q.type \in Types
            /\ \E o \in Orders :
                 /\ order[o] = None
                 /\ order' = [order EXCEPT ![o] = [paid |-> FALSE, split |-> SplitOf(q.type)]]
                 /\ crossed' = IF q.type # store.type THEN crossed \cup {o} ELSE crossed
         \/ /\ \E o \in Unpaid : order' = [order EXCEPT ![o].paid = TRUE]
            /\ crossed' = crossed
      /\ store' = store
  BY OrderMoves
<1>1. \A s \in Requests : Saved(req[s])'
  BY <1>m DEF GovernsInv, Saved, Over
<1>2. crossed \subseteq crossed'
  BY <1>m
<1>t. order \in [Orders -> {None} \cup [paid : BOOLEAN, split : {"own", "shared"}]]
  BY DEF DeskTypeInv
<1>n. ~InSweep(q)
  BY <1>m DEF InSweep, Idle
<1>3. ASSUME NEW o \in Orders, o \in Unpaid \ crossed, order'[o] = order[o] PROVE SplitOrSwept(o)'
  <2>1. SplitOrSwept(o)
    BY <1>3 DEF GovernsInv
  <2>2. ~Covers(q, o)
    BY <1>n DEF Covers
  <2> QED
    BY <1>m, <1>3, <2>1, <2>2 DEF SplitOrSwept, SplitOf
<1>4. ASSUME NEW o \in Unpaid', o \notin crossed' PROVE SplitOrSwept(o)'
  <2>0. o \in Orders
    BY <1>4 DEF Unpaid
  <2>1. CASE order'[o] = order[o]
    <3>1. o \in Unpaid \ crossed
      BY <1>2, <1>4, <2>1 DEF Unpaid, There
    <3> QED
      BY <1>3, <2>0, <2>1, <3>1
  <2>2. CASE order'[o] # order[o]
    <3>1. CASE \E p \in Unpaid : order' = [order EXCEPT ![p].paid = TRUE]
      <4>1. order'[o] = [order[o] EXCEPT !.paid = TRUE]
        BY <1>t, <2>0, <2>2, <3>1
      <4>2. o \in Unpaid
        BY <1>t, <2>0, <2>2, <3>1
      <4>3. order[o] \in [paid : BOOLEAN, split : {"own", "shared"}]
        BY <1>t, <2>0, <4>2 DEF Unpaid, There
      <4>4. order'[o].paid = TRUE
        BY <4>1, <4>3
      <4> QED
        BY <1>4, <4>4 DEF Unpaid
    <3>2. ASSUME NEW p \in Orders,
                 order' = [order EXCEPT ![p] = [paid |-> FALSE, split |-> SplitOf(q.type)]],
                 crossed' = IF q.type # store.type THEN crossed \cup {p} ELSE crossed
          PROVE  SplitOrSwept(o)'
      <4>1. o = p /\ order'[o].split = SplitOf(q.type)
        BY <1>t, <2>0, <2>2, <3>2
      <4>2. q.type = store.type
        BY <1>4, <3>2, <4>1
      <4> QED
        BY <1>m, <4>1, <4>2 DEF SplitOrSwept, SplitOf
    <3> QED
      BY <1>m, <3>1, <3>2
  <2> QED
    BY <2>1, <2>2
<1> QED
  BY <1>m, <1>1, <1>2, <1>4 DEF GovernsInv, Independent

-------------------------------------------------------------------------------
(* The desk: every step, and the theorems.                                   *)

SaveAsks(r) ==
  \E given \in BOOLEAN, c \in Moneys :
    \/ \E active \in Chosen(BOOLEAN) : Saves(r, given, c, active)
    \/ \E sent \in Chosen(Types) : AdminSaves(r, sent, given, c)
LookAsks(r) ==
  \/ Places(r) \/ Flushes(r) \/ SelectsTheme(r)
  \/ \E p \in Chosen(Tongues), given \in BOOLEAN : Speaks(r, p, given, Tongues)
Looks(r)   == Styles(r) \/ WritesTheme(r) \/ WritesLanguages(r)
Charges(r) ==
  \/ \E on, complete \in BOOLEAN : SetsKustom(r, on, complete)
  \/ \E card \in {"charges", "payouts", "none"} : ReportsAccount(r, card)
  \/ \E c \in Currencies : SetsPlatform(r, c)
SweepStep(r) == ListsUnpaid(r) \/ Swept(r) \/ \E o \in Orders : ReadsUnpaid(r, o)
OrderStep(r) == StoresOrder(r) \/ \E o \in Orders : Pays(r, o)
Faces(r)     == Visits(r) \/ Revalidates(r)

LEMMA DeskNextIs ==
  ASSUME NEW r \in Requests, Settings(r) \/ Showing(r) \/ Taxing(r) \/ Sending(r)
  PROVE  \/ SaveAsks(r) \/ LookAsks(r) \/ Looks(r) \/ Charges(r) \/ SweepStep(r) \/ OrderStep(r) \/ Faces(r)
         \/ WritesStore(r) \/ Upserts(r) \/ TaxAsks(r) \/ TaxWrites(r) \/ Sending(r)
<1>1. CASE Settings(r)
  <2>1. {} \in Chosen(BOOLEAN)
    BY DEF Chosen
  <2> QED
    BY <1>1, <2>1 DEF Settings, SaveAsks, LookAsks, SweepStep, OrderStep, Faces, Moneys, Chosen
<1>2. CASE Showing(r)
  <2>1. {TRUE} \in Chosen(BOOLEAN) /\ \A c \in Currencies : {c} \in Moneys
    BY DEF Chosen, Moneys
  <2>2. (\E c \in Currencies : Saves(r, TRUE, {c}, {TRUE})) => SaveAsks(r)
    BY <2>1 DEF SaveAsks
  <2> QED
    BY <1>2, <2>2 DEF Showing, LookAsks, Looks, Charges, Faces, Chosen
<1> QED
  BY <1>1, <1>2, TaxingIs

LEMMA DeskNextTyping ==
  ASSUME DeskTypeInv, NEW r \in Requests, Settings(r) \/ Showing(r) \/ Taxing(r) \/ Sending(r)
  PROVE  DeskTypeInv'
<1> DEFINE RowSet == /\ order \in [Orders -> {None} \cup [paid : BOOLEAN, split : {"own", "shared"}]]
                     /\ class \in [Classes -> {None} \cup [default : BOOLEAN]]
                     /\ rate \in [Rates -> {None} \cup RateRows] /\ made \subseteq Rates
                     /\ profile \in [Profiles -> {None} \cup [default : BOOLEAN, zones : BOOLEAN]]
                     /\ chosen \subseteq Profiles
<1>r. RowSet /\ store \in Stores
  BY DEF DeskTypeInv
<1>f. ASSUME req' \in [Requests -> DeskCalls], store' \in Stores, RowSet' PROVE DeskTypeInv'
  BY <1>f DEF DeskTypeInv
<1>k. UNCHANGED <<order, varsT, varsP>> => RowSet'
  BY <1>r DEF varsT, varsP
<1> HIDE DEF RowSet
<1>1. CASE SaveAsks(r)
  BY <1>1, <1>f, <1>k, <1>r, SavesMoves, AdminSavesMoves DEF SaveAsks, varsD, varsT, varsP
<1>2. CASE LookAsks(r) \/ SweepStep(r) \/ TaxAsks(r)
  BY <1>2, <1>f, <1>k, <1>r, AskDeskMoves, SweepMoves, TaxAskMoves DEF LookAsks, SweepStep, varsD, varsT, varsP
<1>3. CASE Looks(r) \/ Charges(r) \/ Faces(r) \/ WritesStore(r)
  BY <1>3, <1>f, <1>k, <1>r, LookMoves, ChargeMoves, ShowMoves, WritesStoreMoves DEF Looks, Charges, Faces
<1>4. CASE OrderStep(r) \/ Upserts(r)
  <2>1. req' \in [Requests -> DeskCalls] /\ store' = store /\ UNCHANGED <<varsT, varsP>>
    BY <1>4, OrderMoves, UpsertMoves DEF OrderStep
  <2> DEFINE OrderRows == [paid : BOOLEAN, split : {"own", "shared"}]
  <2>2. order \in [Orders -> {None} \cup OrderRows]
    BY <1>r DEF RowSet
  <2>3. \A o \in Unpaid : [order[o] EXCEPT !.paid = TRUE] \in OrderRows
    BY <2>2 DEF Unpaid, There
  <2>4. \A t : \A o \in Orders : [order[o] EXCEPT !.split = SplitOf(t)] \in {None} \cup OrderRows
    <3>1. \A t : [None EXCEPT !.split = SplitOf(t)] = None
      BY DEF None
    <3> QED
      BY <2>2, <3>1, SplitTyped
  <2>5. \A t : [paid |-> FALSE, split |-> SplitOf(t)] \in OrderRows
    BY SplitTyped
  <2>6. order' \in [Orders -> {None} \cup OrderRows]
    <3>1. CASE Upserts(r)
      <4>1. req[r].o \in Orders /\ (order' = [order EXCEPT ![req[r].o].split = SplitOf(req[r].type)] \/ order' = order)
        BY <3>1, UpsertMoves
      <4>2. [order[req[r].o] EXCEPT !.split = SplitOf(req[r].type)] \in {None} \cup OrderRows
        BY <2>4, <4>1
      <4> QED
        BY <2>2, <4>1, <4>2
    <3>2. CASE OrderStep(r)
      <4>1. \/ \E o \in Orders : order' = [order EXCEPT ![o] = [paid |-> FALSE, split |-> SplitOf(req[r].type)]]
            \/ \E o \in Unpaid : order' = [order EXCEPT ![o].paid = TRUE]
        BY <3>2, OrderMoves DEF OrderStep
      <4>2. [paid |-> FALSE, split |-> SplitOf(req[r].type)] \in OrderRows
        BY <2>5
      <4> QED
        BY <2>2, <2>3, <4>1, <4>2
    <3> QED
      BY <1>4, <3>1, <3>2
  <2>7. RowSet'
    BY <1>r, <2>1, <2>6 DEF RowSet, varsT, varsP
  <2> QED
    BY <1>f, <1>r, <2>1, <2>7
<1>5. CASE TaxWrites(r)
  <2>1. RowSet'
    BY <1>5, <1>r, TaxWriteMoves, TaxRowsTyped DEF RowSet, varsP
  <2> QED
    BY <1>5, <1>f, <2>1, TaxWriteMoves
<1>6. CASE Sending(r)
  <2>1. RowSet'
    BY <1>6, <1>r, SendingMoves DEF RowSet, varsT
  <2> QED
    BY <1>6, <1>f, <1>r, <2>1, SendingMoves
<1> QED
  BY <1>1, <1>2, <1>3, <1>4, <1>5, <1>6, DeskNextIs

LEMMA DeskNextType ==
  ASSUME DeskTypeInv, GovernsInv, NEW r \in Requests, Settings(r) \/ Showing(r) \/ Taxing(r) \/ Sending(r)
  PROVE  GovernsInv'
<1>i. ~InSweep(Idle) /\ Saved(Over)
  BY DEF InSweep, Saved, Idle, Over
<1>c. \A q \in TaxCalls \cup ShipCalls \cup Looking : ~InSweep(q) /\ Saved(q)
  BY DEF TaxCalls, ShipCalls, Looking, InSweep, Saved
<1>s. \A q : q.op \notin {"update", "admin"} \/ q.at # "write" => Saved(q)
  BY DEF Saved
<1>t. ASSUME UNCHANGED <<order, crossed>>, store'.type = store.type, store'.currency = store.currency,
             \A s \in Requests \ {r} : req'[s] = req[s], ~InSweep(req[r]), Saved(req'[r])
      PROVE  GovernsInv'
  BY <1>t, TypeStays
<1>1. CASE SaveAsks(r)
  <2>1. /\ \A s \in Requests \ {r} : req'[s] = req[s]
        /\ req[r] = Idle /\ UNCHANGED varsD /\ Saved(req'[r])
    BY <1>1, SavesMoves, AdminSavesMoves DEF SaveAsks
  <2> QED
    BY <1>i, <1>t, <2>1 DEF varsD
<1>2. CASE LookAsks(r)
  <2>1. /\ \A s \in Requests \ {r} : req'[s] = req[s]
        /\ req[r] = Idle /\ UNCHANGED varsD /\ req'[r].op \in {"order", "flush", "look", "speak"}
    BY <1>2, AskDeskMoves DEF LookAsks
  <2> QED
    BY <1>i, <1>s, <1>t, <2>1 DEF varsD
<1>3. CASE TaxAsks(r)
  <2>1. /\ \A s \in Requests \ {r} : req'[s] = req[s]
        /\ req[r] = Idle /\ UNCHANGED varsD /\ (req'[r] = Over \/ req'[r] \in TaxCalls)
    BY <1>3, TaxAskMoves
  <2> QED
    BY <1>i, <1>c, <1>t, <2>1 DEF varsD
<1>4. CASE Looks(r)
  BY <1>4, <1>i, <1>c, <1>s, <1>t, LookMoves DEF Looks
<1>5. CASE Charges(r)
  BY <1>5, <1>i, <1>s, <1>t, ChargeMoves DEF Charges
<1>6. CASE Faces(r)
  <2>1. ~InSweep(req[r])
    BY <1>6, <1>i, ShowMoves DEF Faces, InSweep
  <2> QED
    BY <1>6, <1>i, <1>t, <2>1, ShowMoves DEF Faces
<1>7. CASE TaxWrites(r)
  <2>1. store'.type = store.type /\ store'.currency = store.currency
    BY <1>7, TaxWriteMoves DEF Face
  <2> QED
    BY <1>7, <1>i, <1>c, <1>t, <2>1, TaxWriteMoves
<1>8. CASE Sending(r)
  BY <1>8, <1>i, <1>c, <1>t, SendingMoves
<1>9. CASE SweepStep(r) \/ OrderStep(r) \/ WritesStore(r) \/ Upserts(r)
  BY <1>9, SweepKeepsType, OrderKeepsType, WritesStoreKeepsType, UpsertKeepsType DEF SweepStep, OrderStep
<1> QED
  BY <1>1, <1>2, <1>3, <1>4, <1>5, <1>6, <1>7, <1>8, <1>9, DeskNextIs

LEMMA DeskNextRows ==
  ASSUME DeskTypeInv, TaxInv, ShipInv, NEW r \in Requests,
         Settings(r) \/ Showing(r) \/ Taxing(r) \/ Sending(r)
  PROVE  TaxInv' /\ ShipInv'
<1>i. TaxSound(Over)
  BY DEF TaxSound, Over
<1>s. \A q : q.op \notin {"class", "dropClass"} => TaxSound(q)
  BY DEF TaxSound
<1>w. \A q \in Saving \cup Sweeps \cup ShipCalls : TaxSound(q)
  BY DEF TaxSound, Saving, Sweeps, ShipCalls
<1>1. ASSUME UNCHANGED varsT, clash = clash' \/ ("profile" \in clash' /\ clash' = clash \cup {"profile"}),
             \A s \in Requests \ {r} : req'[s] = req[s], OneDefault => TaxSound(req'[r])
      PROVE  TaxInv'
  <2>1. /\ clash \subseteq clash' /\ class' = class
        /\ \A x \in Rates : rate'[x] = rate[x] \/ rate'[x] = None
        /\ \A x \in made' : x \in made /\ rate'[x] = rate[x]
    BY <1>1 DEF varsT
  <2> QED
    BY <1>1, <2>1, TaxStays
<1>2. ASSUME UNCHANGED varsP, clash' = clash \/ clash' = clash \cup {"class"},
             \A s \in Requests \ {r} : req'[s] = req[s], req[r].op # "default", req'[r].op # "default"
      PROVE  ShipInv'
  <2>1. DefaultProfiles' = DefaultProfiles /\ chosen' = chosen
    BY <1>2 DEF DefaultProfiles, IsProfile, varsP
  <2>2. Running("default")' = Running("default") /\ Setting' = Setting
    BY <1>2 DEF Running, Setting
  <2> QED
    BY <1>2, <2>1, <2>2 DEF ShipInv
<1>o. Idle.op = "idle" /\ Over.op = "done"
  BY DEF Idle, Over
<1>p. \A q \in Saving \cup Sweeps \cup TaxCalls \cup Looking : q.op # "default"
  BY DEF Saving, Sweeps, TaxCalls, Looking
<1>q. \A q \in Looking : TaxSound(q)
  BY DEF Looking, TaxSound
<1>3. CASE SaveAsks(r)
  <2>1. /\ \A s \in Requests \ {r} : req'[s] = req[s]
        /\ req[r] = Idle /\ UNCHANGED varsD /\ req' \in [Requests -> DeskCalls]
        /\ req'[r] = Over \/ req'[r].op \in {"update", "admin"}
    BY <1>3, SavesMoves, AdminSavesMoves DEF SaveAsks
  <2>2. req'[r].op \notin {"class", "dropClass", "default"}
    BY <1>o, <2>1
  <2> QED
    BY <1>1, <1>2, <1>o, <1>s, <2>1, <2>2 DEF varsD, varsT, varsP
<1>4. CASE LookAsks(r)
  BY <1>4, <1>1, <1>2, <1>o, <1>s, AskDeskMoves DEF LookAsks, varsD, varsT, varsP
<1>5. CASE Looks(r)
  BY <1>5, <1>1, <1>2, <1>o, <1>p, <1>s, LookMoves DEF Looks
<1>6. CASE Charges(r)
  BY <1>6, <1>1, <1>2, <1>i, <1>o, <1>s, ChargeMoves DEF Charges
<1>7. CASE SweepStep(r)
  BY <1>7, <1>1, <1>2, <1>s, SweepMoves DEF SweepStep, varsD, varsT, varsP
<1>8. CASE OrderStep(r)
  BY <1>8, <1>1, <1>2, <1>i, <1>o, OrderMoves DEF OrderStep
<1>9. CASE Faces(r)
  <2>1. req[r].op # "default"
    BY <1>9, <1>o DEF Faces, Visits, Revalidates, Arrives
  <2> QED
    BY <1>9, <1>1, <1>2, <1>i, <1>o, <2>1, ShowMoves DEF Faces
<1>10. CASE WritesStore(r)
  <2>1. req'[r].op = req[r].op /\ req[r] \in Saving
    BY <1>10, WritesStoreMoves
  <2>2. req[r].op \in {"update", "admin"}
    BY <2>1 DEF Saving
  <2> QED
    BY <1>10, <1>1, <1>2, <1>s, <2>1, <2>2, WritesStoreMoves
<1>11. CASE Upserts(r)
  <2>1. req'[r].op = "admin" /\ req[r].op = "admin"
    <3>1. /\ req'[r] = [op |-> "admin", at |-> "sweep", todo |-> req[r].todo]
          /\ req[r] \in [op : {"admin"}, at : {"upsert"}, todo : SUBSET Orders, o : Orders, type : Types]
      BY <1>11, UpsertMoves, Zenon
    <3> QED
      BY <3>1
  <2> QED
    BY <1>11, <1>1, <1>2, <1>s, <2>1, UpsertMoves
<1>12. CASE TaxAsks(r)
  <2>1. ShipInv'
    BY <1>12, <1>2, <1>o, <1>p, TaxAskMoves DEF varsD, varsP
  <2> QED
    BY <1>12, <1>1, <2>1, TaxAskMoves DEF varsD, varsT
<1>13. CASE TaxWrites(r)
  <2>1. clash' = clash \/ clash' = clash \cup {"class"}
    BY <1>13 DEF TaxWrites, AssignsClass, DeletesRate, WritesClass, DropsClass, WritesRate, WritesTaxSettings, Met
  <2> QED
    BY <1>13, <1>2, <1>o, <1>p, <2>1, TaxWriteMoves, TaxWritesKeep
<1>14. CASE Sending(r)
  <2>1. clash' = clash \/ clash' = clash \cup {"profile"}
    BY <1>14 DEF Sending, DeletesProfile, SetsDefault, CreatesProfile, EditsZones, DropsProfile, ClearsDefaults,
                 SetsTheDefault, DefaultDies, varsD
  <2>2. TaxSound(req'[r])
    BY <1>14, <1>i, <1>w, SendingMoves
  <2> QED
    BY <1>14, <1>1, <2>1, <2>2, SendingMoves, ShipStepKeeps
<1> QED
  BY <1>3, <1>4, <1>5, <1>6, <1>7, <1>8, <1>9, <1>10, <1>11, <1>12, <1>13, <1>14, DeskNextIs

\* The first conjunct of ShownIsCurrent is inductive as it stands.
ShownOrTold == ~quiet /\ Announcing = {} => cache \subseteq {Shown}

LEMMA ShownStays ==
  ASSUME ShownOrTold, cache' = cache, quiet => quiet', Shown' = Shown, Announcing \subseteq Announcing'
  PROVE  ShownOrTold'
BY DEF ShownOrTold

LEMMA StillShown ==
  ASSUME Face' = Face, pay' = pay
  PROVE  Shown' = Shown
BY DEF Face, Shown, Currency, Independent, CardOffered, KustomEnabled

LEMMA StillAnnouncing ==
  ASSUME NEW r \in Requests, \A s \in Requests \ {r} : req'[s] = req[s], r \notin Announcing
  PROVE  Announcing \subseteq Announcing'
BY DEF Announcing, InFlight

LEMMA DeskNextShown ==
  ASSUME DeskTypeInv, ShownOrTold, NEW r \in Requests,
         Settings(r) \/ Showing(r) \/ Taxing(r) \/ Sending(r)
  PROVE  ShownOrTold'
<1>a. ASSUME req'[r].op \in {"update", "admin", "look", "speak", "kustom"}, req'[r].at # "write"
      PROVE  ShownOrTold'
  <2>1. r \in Announcing'
    BY <1>a DEF Announcing, InFlight, Idle, Over
  <2> QED
    BY <2>1 DEF ShownOrTold
<1>u. ASSUME UNCHANGED <<pay, cache, quiet>>, Face' = Face, \A s \in Requests \ {r} : req'[s] = req[s],
             r \notin Announcing
      PROVE  ShownOrTold'
  BY <1>u, StillShown, StillAnnouncing, ShownStays
<1>i. \A s \in Requests : req[s] = Idle => s \notin Announcing
  BY DEF Announcing, InFlight
<1>n. \A s \in Requests : req[s] \in TaxCalls \cup ShipCalls \/ req[s].op = "order" => s \notin Announcing
  BY DEF Announcing, TaxCalls, ShipCalls
<1>1. CASE SaveAsks(r)
  BY <1>1, <1>u, <1>i, SavesMoves, AdminSavesMoves DEF SaveAsks, varsD, Face
<1>2. CASE LookAsks(r) \/ TaxAsks(r)
  BY <1>2, <1>u, <1>i, AskDeskMoves, TaxAskMoves DEF LookAsks, varsD, Face
<1>3. CASE Looks(r)
  BY <1>3, <1>a, LookMoves DEF Looks
<1>4. CASE Charges(r)
  <2>1. CASE req'[r].op = "kustom" /\ req'[r].at = "revalidate"
    BY <1>a, <2>1
  <2>2. CASE quiet'
    BY <2>2 DEF ShownOrTold
  <2> QED
    BY <1>4, <2>1, <2>2, ChargeMoves DEF Charges
<1>5. CASE SweepStep(r)
  BY <1>5, <1>a, SweepMoves DEF SweepStep
<1>6. CASE OrderStep(r)
  BY <1>6, <1>u, <1>i, <1>n, OrderMoves DEF OrderStep, Face
<1>7. CASE Visits(r)
  <2>1. UNCHANGED <<store, pay, quiet>> /\ req[r] = Idle /\ \A s \in Requests \ {r} : req'[s] = req[s]
    BY <1>7, ShowMoves DEF Visits, Arrives
  <2>2. Shown' = Shown /\ Announcing \subseteq Announcing'
    BY <1>i, <2>1, StillShown, StillAnnouncing DEF Face
  <2>3. cache' = cache \/ cache' = {Shown}
    BY <1>7 DEF Visits
  <2> QED
    BY <2>1, <2>2, <2>3 DEF ShownOrTold
<1>8. CASE Revalidates(r)
  <2>1. UNCHANGED <<store, pay>> /\ \A s \in Requests \ {r} : req'[s] = req[s]
    BY <1>8, ShowMoves
  <2>2. CASE cache' = {}
    BY <2>2 DEF ShownOrTold
  <2>3. CASE cache' = cache /\ quiet' = (quiet \/ req[r].op # "flush")
    <3>1. CASE req[r].op # "flush"
      BY <2>3, <3>1 DEF ShownOrTold
    <3>2. CASE req[r].op = "flush"
      <4>1. r \notin Announcing
        BY <3>2 DEF Announcing
      <4>2. Shown' = Shown /\ Announcing \subseteq Announcing'
        BY <2>1, <4>1, StillShown, StillAnnouncing DEF Face
      <4> QED
        BY <2>3, <4>2, ShownStays
    <3> QED
      BY <3>1, <3>2
  <2> QED
    BY <1>8, <2>2, <2>3 DEF Revalidates
<1>9. CASE WritesStore(r)
  <2>1. req[r] \in Saving /\ req'[r].op = req[r].op /\ req'[r].at = AfterWrite(req[r])
    BY <1>9, WritesStoreMoves
  <2>2. req'[r].op \in {"update", "admin"} /\ req'[r].at # "write"
    BY <2>1 DEF Saving, AfterWrite
  <2> QED
    BY <1>a, <2>2
<1>10. CASE Upserts(r)
  <2>1. req'[r].op = "admin" /\ req'[r].at = "sweep"
    <3>1. req'[r] = [op |-> "admin", at |-> "sweep", todo |-> req[r].todo]
      BY <1>10, UpsertMoves, Zenon
    <3> QED
      BY <3>1
  <2> QED
    BY <1>a, <2>1
<1>11. CASE TaxWrites(r)
  BY <1>11, <1>u, <1>i, <1>n, TaxWriteMoves
<1>12. CASE Sending(r)
  BY <1>12, <1>u, <1>i, <1>n, SendingMoves DEF Face
<1> QED
  BY <1>1, <1>2, <1>3, <1>4, <1>5, <1>6, <1>7, <1>8, <1>9, <1>10, <1>11, <1>12, DeskNextIs DEF Faces

DeskInv == DeskTypeInv /\ GovernsInv /\ TaxInv /\ ShipInv /\ ShownOrTold

LEMMA DeskInitInv == DeskInit => DeskInv
<1> SUFFICES ASSUME DeskInit PROVE DeskInv
  OBVIOUS
<1> USE DEF DeskInit, NoRequests
<1>1. req \in [Requests -> DeskCalls] /\ \A r \in Requests : req[r] = Idle
  BY DeskEnds
<1>2. DeskTypeInv
  <2>1. store \in Stores
    <3>1. \A t \in Types, p \in Tongues, s \in SUBSET Tongues : NewStore(t, p, s) \in Stores
      BY DEF NewStore, Stores, Moneys
    <3> QED
      BY <3>1 DEF StoreInit
  <2>2. order \in [Orders -> {None} \cup [paid : BOOLEAN, split : {"own", "shared"}]]
    <3>1. [paid : BOOLEAN, split : {SplitOf(store.type)}] \subseteq [paid : BOOLEAN, split : {"own", "shared"}]
      BY SplitTyped
    <3>2. order \in [Orders -> {None} \cup [paid : BOOLEAN, split : {SplitOf(store.type)}]]
      BY DEF StoreInit
    <3> QED
      BY <3>1, <3>2
  <2>3. rate \in [Rates -> {None} \cup RateRows] /\ made \subseteq Rates
    <3>1. [class : {c \in Classes : IsClass(c)}, own : BOOLEAN, active : BOOLEAN] \subseteq RateRows
      BY DEF RateRows
    <3>2. rate \in [Rates -> {None} \cup [class : {c \in Classes : IsClass(c)}, own : BOOLEAN, active : BOOLEAN]]
      BY DEF RowsInit
    <3> QED
      BY <3>1, <3>2 DEF RowsInit
  <2> QED
    BY <1>1, <2>1, <2>2, <2>3 DEF RowsInit, DeskTypeInv
<1>3. GovernsInv
  <2>1. store.currency = {} /\ \A r \in Requests : Saved(req[r])
    BY <1>1 DEF StoreInit, NewStore, Saved, Idle
  <2>2. \A o \in Unpaid : order[o].split = SplitOf(store.type)
    BY DEF StoreInit, Unpaid, There
  <2> QED
    BY <2>1, <2>2 DEF GovernsInv, SplitOrSwept
<1>4. TaxInv
  <2>1. OneDefault /\ \A x \in made : IsRate(x)
    BY DEF RowsInit, OneDefault
  <2>2. \A r \in Requests : TaxSound(req[r])
    BY <1>1 DEF TaxSound, Idle
  <2> QED
    BY <2>1, <2>2 DEF TaxInv
<1>5. ShipInv
  BY <1>1 DEF RowsInit, ShipInv, Setting, Running, Idle
<1>6. ShownOrTold
  BY DEF StoreInit, ShownOrTold
<1> QED
  BY <1>2, <1>3, <1>4, <1>5, <1>6 DEF DeskInv

LEMMA DeskNextInv == DeskInv /\ [DeskNext]_<<req, varsD>> => DeskInv'
<1> SUFFICES ASSUME DeskInv, [DeskNext]_<<req, varsD>> PROVE DeskInv'
  OBVIOUS
<1>1. CASE DeskNext
  BY <1>1, DeskNextTyping, DeskNextType, DeskNextRows, DeskNextShown DEF DeskInv, DeskNext
<1>2. CASE UNCHANGED <<req, varsD>>
  <2>1. DeskTypeInv'
    BY <1>2 DEF DeskInv, DeskTypeInv, varsD
  <2>2. GovernsInv'
    BY <1>2 DEF DeskInv, GovernsInv, Independent, Unpaid, There, SplitOrSwept, varsD
  <2>3. TaxInv'
    BY <1>2 DEF DeskInv, TaxInv, OneDefault, TaxSound, ClassSound, DropSound, Defaults, IsClass, IsRate, varsD
  <2>4. ShipInv'
    BY <1>2 DEF DeskInv, ShipInv, Setting, Running, DefaultProfiles, IsProfile, varsD
  <2>5. ShownOrTold'
    <3>1. Shown' = Shown /\ Announcing' = Announcing
      BY <1>2, StillShown DEF Face, Announcing, InFlight, varsD
    <3> QED
      BY <1>2, <3>1, ShownStays DEF DeskInv, varsD
  <2> QED
    BY <2>1, <2>2, <2>3, <2>4, <2>5 DEF DeskInv
<1> QED
  BY <1>1, <1>2

\* The store's row, its orders, its tax rows and its profiles stay well formed.
THEOREM DeskTyped == DeskSpec => []DeskTypeInv
<1>1. DeskInv => DeskTypeInv
  BY DEF DeskInv
<1> QED
  BY <1>1, DeskInitInv, DeskNextInv, PTL DEF DeskSpec

LEMMA DefaultsEnough == TaxInv /\ ShipInv => DefaultsStand
<1> SUFFICES ASSUME TaxInv, ShipInv PROVE DefaultsStand
  OBVIOUS
<1>1. OneDefault => ((\E c \in Classes : IsClass(c)) => Cardinality(Defaults) = 1)
  BY FS_Singleton DEF OneDefault
<1> QED
  BY <1>1 DEF TaxInv, ShipInv, DefaultsStand, DefaultProfiles

LEMMA ShownEnough == ShownOrTold => ShownIsCurrent
BY DEF ShownOrTold, ShownIsCurrent, Shown, CheckoutConfig, KustomEnabled, SettingsReady, CardOffered, Independent

\* The type governs the currency and the splits, one class is the default, and
\* the profile chosen is, for any number of requests that interleave.
THEOREM SettingsStayStanding == DeskSpec => []SettingsStand
<1>1. DeskInv => SettingsStand
  BY TypeEnough, DefaultsEnough DEF DeskInv, SettingsStand
<1> QED
  BY <1>1, DeskInitInv, DeskNextInv, PTL DEF DeskSpec

\* What the storefront keeps is what the store is, once every change was announced.
THEOREM ShownStaysCurrent == DeskSpec => []ShownIsCurrent
<1>1. DeskInv => ShownIsCurrent
  BY ShownEnough DEF DeskInv
<1> QED
  BY <1>1, DeskInitInv, DeskNextInv, PTL DEF DeskSpec

-------------------------------------------------------------------------------
(* The mails: typing.                                                      *)

\* What a message is about; a test is one of its own.
Events == {"order_confirmation", "order_shipped", "order_delivered", "order_cancelled", "order_refunded",
           "new_order_owner", "password_reset", "welcome", "template_test"}
Ids  == Requests \X (Events \cup {"test"})
Vias == {"store", "platform"}
LogRows == [m : Ids, status : {"SENT", "FAILED"}, via : Vias] \cup [m : Ids, status : {"SKIPPED"}, via : {"none"}]
Messages == [event : Events, own : BOOLEAN]
Both == <<OrderConfirmation, NewOrderToOwner>>
Lists == {Both} \cup {<<m>> : m \in Messages}
Stages == Statuses \cup {"CONFIRMED", "REFUNDED"}
MailCalls ==
  {Idle, Over}
    \cup [op : {"pays", "refunds"}, at : {"flip"}, saw : Stages]
    \cup [op : {"sets"}, at : {"write"}, saw : Stages, to : Statuses]
    \cup [op : {"mail"}, at : {"resolve", "store", "platform"}, mails : Lists, row : {NoRow}]
    \cup [op : {"mail"}, at : {"log"}, mails : Lists, row : LogRows]
    \cup [op : {"save"}, at : {"upsert"}, host : Hosts, pass : Passwords \cup {0}, on : BOOLEAN]
    \cup [op : {"test"}, at : {"send"}, via : Vias, host : Hosts \cup {0}, pass : Passwords \cup {0}, row : {NoRow}]
    \cup [op : {"test"}, at : {"verify"}, via : {"store"}, host : Hosts \cup {0}, pass : Passwords \cup {0}, row : {NoRow}]
    \cup [op : {"test"}, at : {"log"}, via : Vias, host : Hosts \cup {0}, pass : Passwords \cup {0}, row : LogRows]

MailTypeInv ==
  /\ req \in [Requests -> MailCalls]
  /\ type \in {"INDEPENDENT", "MARKETPLACE"} /\ own \in Senders
  /\ sold \in [status : Stages, payment : {"unpaid", "paid", "refunded"}]
  /\ asked \subseteq Ids /\ box \subseteq asked \X Vias /\ late \subseteq box
  /\ log \subseteq {row \in LogRows : row.m \in asked}


LEMMA MailEnds == Idle \in MailCalls /\ Over \in MailCalls
BY DEF MailCalls

LEMMA ListFacts ==
  ASSUME NEW ms \in Lists
  PROVE  /\ ms # <<>> /\ Head(ms) \in Messages
         /\ Tail(ms) = <<>> \/ (ms = Both /\ Tail(ms) = <<NewOrderToOwner>>)
         /\ ms = Both => Head(ms) = OrderConfirmation /\ Tail(ms) = <<NewOrderToOwner>>
<1>1. CASE ms = Both
  <2>1. OrderConfirmation \in Messages
    BY DEF Messages, OrderConfirmation, Message, Events
  <2>2. ms # <<>> /\ Head(ms) = OrderConfirmation /\ Tail(ms) = <<NewOrderToOwner>>
    BY <1>1 DEF Both
  <2> QED
    BY <1>1, <2>1, <2>2
<1>2. ASSUME NEW m \in Messages, ms = <<m>>
      PROVE  ms # <<>> /\ Head(ms) \in Messages /\ Tail(ms) = <<>> /\ ms # Both
  BY <1>2 DEF Both
<1> QED
  BY <1>1, <1>2 DEF Lists

LEMMA OneOfList == /\ \A m \in Messages : <<m>> \in Lists
                   /\ NewOrderToOwner \in Messages /\ Both \in Lists
BY DEF Lists, Messages, NewOrderToOwner, Message, Events

LEMMA MailFields ==
  ASSUME NEW q \in MailCalls, q.op = "mail"
  PROVE  /\ q \in [op : {"mail"}, at : {"resolve", "store", "platform"}, mails : Lists, row : {NoRow}]
                    \cup [op : {"mail"}, at : {"log"}, mails : Lists, row : LogRows]
         /\ q.mails \in Lists /\ q.at \in {"resolve", "store", "platform", "log"}
         /\ q.at = "log" => q.row \in LogRows
BY DEF MailCalls, Idle, Over

LEMMA TestFields ==
  ASSUME NEW q \in MailCalls, q.op = "test"
  PROVE  /\ q.via \in Vias /\ q.host \in Hosts \cup {0} /\ q.pass \in Passwords \cup {0}
         /\ q.at \in {"send", "verify", "log"}
         /\ q.at = "verify" => q.via = "store"
         /\ q.at = "log" => q.row \in LogRows
BY DEF MailCalls, Idle, Over, Vias

LEMMA WriterFields ==
  ASSUME NEW q \in MailCalls, q.op \in {"pays", "sets", "refunds"}
  PROVE  q.saw \in Stages /\ (q.op = "sets" => q.to \in Statuses) /\ q.at \in {"flip", "write"}
BY DEF MailCalls, Idle, Over

LEMMA SaveFields ==
  ASSUME NEW q \in MailCalls, q.op = "save"
  PROVE  q.host \in Hosts /\ q.pass \in Passwords \cup {0} /\ q.on \in BOOLEAN
BY DEF MailCalls, Idle, Over

LEMMA MailMoves ==
  ASSUME MailTypeInv, NEW r \in Requests, NEW q \in MailCalls, Start(r, q) \/ Ends(r)
  PROVE  /\ req' \in [Requests -> MailCalls] /\ (Start(r, q) => req'[r] = q) /\ (Ends(r) => req'[r] = Over)
         /\ \A s \in Requests \ {r} : req'[s] = req[s]
BY MailEnds, StartMoves, EndMoves, ZenonT(60) DEF MailTypeInv

\* A handler that goes on to its mails stands before the first of them.
LEMMA MailsMoves ==
  ASSUME MailTypeInv, NEW r \in Requests, NEW ms \in Lists \cup {<<>>}, Mails(r, ms)
  PROVE  /\ req' \in [Requests -> MailCalls] /\ \A s \in Requests \ {r} : req'[s] = req[s]
         /\ IF ms = <<>> THEN req'[r] = Over
            ELSE req'[r] = [op |-> "mail", at |-> "resolve", mails |-> ms, row |-> NoRow]
<1> DEFINE q == [op |-> "mail", at |-> "resolve", mails |-> ms, row |-> NoRow]
<1>1. CASE ms = <<>>
  BY <1>1, MailEnds, MailMoves DEF Mails
<1>2. CASE ms # <<>>
  <2>1. q \in MailCalls /\ Start(r, q)
    BY <1>2 DEF MailCalls, Mails
  <2> HIDE DEF q
  <2>2. req' \in [Requests -> MailCalls] /\ req'[r] = q /\ \A s \in Requests \ {r} : req'[s] = req[s]
    BY <2>1, MailMoves
  <2> QED
    BY <1>2, <2>2 DEF q
<1> QED
  BY <1>1, <1>2

LEMMA StatusMailIs ==
  ASSUME NEW s
  PROVE  \/ StatusMail(s) = <<>> /\ s \notin {"SHIPPED", "DELIVERED", "CANCELLED", "REFUNDED"}
         \/ s = "SHIPPED" /\ StatusMail(s) = <<OrderShipped>>
         \/ s = "DELIVERED" /\ StatusMail(s) = <<OrderDelivered>>
         \/ s = "CANCELLED" /\ StatusMail(s) = <<OrderCancelled>>
         \/ s = "REFUNDED" /\ StatusMail(s) = <<OrderRefunded>>
BY DEF StatusMail

LEMMA StatusMessages ==
  {OrderShipped, OrderDelivered, OrderCancelled, OrderRefunded, PasswordReset, Welcome, TemplateTest(TRUE),
   TemplateTest(FALSE)} \subseteq Messages
BY DEF OrderShipped, OrderDelivered, OrderCancelled, OrderRefunded, PasswordReset, Welcome, TemplateTest,
       Message, Messages, Events

LEMMA StatusListed == \A s : StatusMail(s) \in Lists \cup {<<>>}
BY StatusMailIs, StatusMessages, OneOfList

\* A request that hands the service nothing in this step, and has not before.
Early == {"idle", "pays", "sets", "refunds", "save"}
QuietStep(r) ==
  /\ req' \in [Requests -> MailCalls] /\ \A s \in Requests \ {r} : req'[s] = req[s]
  /\ UNCHANGED <<mails, cut>> /\ type' = type
  /\ req[r].op \in Early
  /\ \/ req'[r] = Over \/ req'[r].op \in Early \ {"idle"}
     \/ req'[r].op = "mail" /\ req'[r].at = "resolve" /\ req'[r].mails \in Lists

LEMMA MailsQuiet ==
  ASSUME MailTypeInv, NEW r \in Requests, NEW ms \in Lists \cup {<<>>}, Mails(r, ms),
         UNCHANGED <<mails, cut>>, type' = type, req[r].op \in Early
  PROVE  QuietStep(r)
<1>1. CASE ms = <<>>
  BY <1>1, MailsMoves DEF QuietStep
<1>2. CASE ms # <<>>
  <2>1. req'[r] = [op |-> "mail", at |-> "resolve", mails |-> ms, row |-> NoRow]
    BY <1>2, MailsMoves
  <2>2. req'[r].op = "mail" /\ req'[r].at = "resolve" /\ req'[r].mails = ms
    BY <2>1
  <2> QED
    BY <1>2, <2>2, MailsMoves DEF QuietStep
<1> QED
  BY <1>1, <1>2

LEMMA StartQuiet ==
  ASSUME MailTypeInv, NEW r \in Requests, NEW q \in MailCalls, Start(r, q) \/ Ends(r),
         q.op \in Early \ {"idle"}, UNCHANGED <<mails, cut>>, type' = type, req[r].op \in Early
  PROVE  QuietStep(r)
BY MailMoves DEF QuietStep

\* A request for the order reads it, and will write it, or is over at once.
LEMMA OrderAsksMoves ==
  ASSUME MailTypeInv, NEW r \in Requests, NEW to \in Statuses, AsksOrder(r, to)
  PROVE  /\ QuietStep(r) /\ req[r] = Idle
         /\ UNCHANGED <<sold, moved, type, own, platform, tested, doubt>> /\ Arrived(r)
         /\ \/ req'[r] = Over /\ met' = met
            \/ \E q \in MailCalls : /\ q.op \in Writers /\ q.saw = sold.status
                                    /\ req'[r] = q /\ Reads(r, q)
<1> DEFINE saw == sold.status
<1>s. saw \in Stages
  BY DEF MailTypeInv
<1>q. /\ [op |-> "pays", at |-> "flip", saw |-> saw] \in MailCalls
      /\ [op |-> "refunds", at |-> "flip", saw |-> saw] \in MailCalls
      /\ [op |-> "sets", at |-> "write", saw |-> saw, to |-> to] \in MailCalls
  BY <1>s DEF MailCalls
<1>1. OrderRequest(r)
  BY DEF AsksOrder, Confirms, AdminSets, Advances, Refunds
<1>2. /\ UNCHANGED <<sold, moved, type, own, platform, tested, doubt>> /\ Arrived(r) /\ req[r] = Idle
      /\ UNCHANGED <<mails, cut>> /\ req[r].op \in Early
  BY <1>1 DEF OrderRequest, Arrives, limits, Early, Idle
<1>3. \/ Ends(r) /\ met' = met
      \/ Reads(r, [op |-> "pays", at |-> "flip", saw |-> saw])
      \/ Reads(r, [op |-> "refunds", at |-> "flip", saw |-> saw])
      \/ Reads(r, [op |-> "sets", at |-> "write", saw |-> saw, to |-> to])
  BY DEF AsksOrder, Confirms, AdminSets, Advances, Refunds
<1>4. \/ Ends(r) /\ met' = met
      \/ \E q \in MailCalls : Reads(r, q) /\ q.op \in Writers /\ q.saw = saw
  <2>1. ASSUME Reads(r, [op |-> "pays", at |-> "flip", saw |-> saw])
        PROVE  \E q \in MailCalls : Reads(r, q) /\ q.op \in Writers /\ q.saw = saw
    <3> DEFINE q == [op |-> "pays", at |-> "flip", saw |-> saw]
    <3>1. q \in MailCalls /\ q.op \in Writers /\ q.saw = saw /\ Reads(r, q)
      BY <1>q, <2>1 DEF Writers
    <3> HIDE DEF q
    <3> QED
      BY <3>1
  <2>2. ASSUME Reads(r, [op |-> "refunds", at |-> "flip", saw |-> saw])
        PROVE  \E q \in MailCalls : Reads(r, q) /\ q.op \in Writers /\ q.saw = saw
    <3> DEFINE q == [op |-> "refunds", at |-> "flip", saw |-> saw]
    <3>1. q \in MailCalls /\ q.op \in Writers /\ q.saw = saw /\ Reads(r, q)
      BY <1>q, <2>2 DEF Writers
    <3> HIDE DEF q
    <3> QED
      BY <3>1
  <2>3. ASSUME Reads(r, [op |-> "sets", at |-> "write", saw |-> saw, to |-> to])
        PROVE  \E q \in MailCalls : Reads(r, q) /\ q.op \in Writers /\ q.saw = saw
    <3> DEFINE q == [op |-> "sets", at |-> "write", saw |-> saw, to |-> to]
    <3>1. q \in MailCalls /\ q.op \in Writers /\ q.saw = saw /\ Reads(r, q)
      BY <1>q, <2>3 DEF Writers
    <3> HIDE DEF q
    <3> QED
      BY <3>1
  <2> QED
    BY <1>3, <2>1, <2>2, <2>3
<1>5. ASSUME Ends(r) /\ met' = met PROVE QuietStep(r) /\ req'[r] = Over /\ met' = met
  BY <1>2, <1>5, MailEnds, MailMoves DEF QuietStep
<1>6. ASSUME NEW q \in MailCalls, Reads(r, q), q.op \in Writers, q.saw = saw
      PROVE  QuietStep(r) /\ req'[r] = q
  <2>1. Start(r, q)
    BY <1>6 DEF Reads
  <2> QED
    BY <1>2, <1>6, <2>1, MailMoves DEF QuietStep, Writers, Early
<1> QED
  BY <1>2, <1>4, <1>5, <1>6

\* The write of the order: the request tells of it, or not.
LEMMA PaysOffMoves ==
  ASSUME MailTypeInv, NEW r \in Requests, PaysOff(r)
  PROVE  /\ QuietStep(r) /\ req[r].op = "pays" /\ UNCHANGED <<met, settings>>
         /\ \/ req'[r] = Over /\ UNCHANGED <<sold, moved>>
            \/ /\ req'[r] = [op |-> "mail", at |-> "resolve", mails |-> Both, row |-> NoRow]
               /\ \E to \in {"CONFIRMED", req[r].saw} :
                    /\ sold' = [payment |-> "paid", status |-> to]
                    /\ moved' = moved \cup {<<r, "paid">>} \cup (IF to # sold.status THEN {<<r, to>>} ELSE {})
<1>1. req[r].op = "pays" /\ UNCHANGED <<met, settings, mails, limits>>
  BY DEF PaysOff, At
<1>2. req[r].op \in Early /\ UNCHANGED <<mails, cut>> /\ type' = type
  BY <1>1 DEF Early, limits, settings
<1>3. CASE sold.payment = "paid"
  <2>1. Ends(r) /\ UNCHANGED <<sold, moved>>
    BY <1>3 DEF PaysOff
  <2>2. req'[r] = Over /\ QuietStep(r)
    BY <1>2, <2>1, MailEnds, MailMoves DEF QuietStep
  <2> QED
    BY <1>1, <2>1, <2>2
<1>4. CASE sold.payment # "paid"
  <2> DEFINE to == IF req[r].saw = "PENDING" THEN "CONFIRMED" ELSE req[r].saw
  <2>1. /\ sold' = [payment |-> "paid", status |-> to]
        /\ moved' = moved \cup {<<r, "paid">>} \cup (IF to # sold.status THEN {<<r, to>>} ELSE {})
        /\ Mails(r, Both)
    BY <1>4 DEF PaysOff, Both
  <2>2. to \in {"CONFIRMED", req[r].saw}
    OBVIOUS
  <2> HIDE DEF to
  <2>3. Both \in Lists /\ Both # <<>>
    BY OneOfList, ListFacts
  <2>4. QuietStep(r)
    BY <1>2, <2>1, <2>3, MailsQuiet
  <2>5. req'[r] = [op |-> "mail", at |-> "resolve", mails |-> Both, row |-> NoRow]
    BY <2>1, <2>3, MailsMoves
  <2> QED
    BY <1>1, <2>1, <2>2, <2>4, <2>5
<1> QED
  BY <1>3, <1>4

LEMMA MovesOrderMoves ==
  ASSUME MailTypeInv, NEW r \in Requests, MovesOrder(r)
  PROVE  /\ QuietStep(r) /\ req[r].op = "sets" /\ req[r].to \in Statuses /\ UNCHANGED <<met, settings>>
         /\ Moves(r, req[r].to)
         /\ LET ms == StatusMails(req[r].saw, req[r].to) IN
            IF ms = <<>> THEN req'[r] = Over
            ELSE req'[r] = [op |-> "mail", at |-> "resolve", mails |-> ms, row |-> NoRow]
<1> DEFINE ms == StatusMails(req[r].saw, req[r].to)
<1>1. req[r].op = "sets" /\ UNCHANGED <<met, settings, mails, limits>> /\ Moves(r, req[r].to) /\ Mails(r, ms)
  BY DEF MovesOrder, At
<1>2. req[r].op \in Early /\ UNCHANGED <<mails, cut>> /\ type' = type
  BY <1>1 DEF Early, limits, settings
<1>3. ms \in Lists \cup {<<>>}
  BY StatusListed DEF StatusMails
<1>4. req[r].to \in Statuses
  BY <1>1, WriterFields DEF MailTypeInv
<1> HIDE DEF ms
<1>5. QuietStep(r) /\ IF ms = <<>> THEN req'[r] = Over
                      ELSE req'[r] = [op |-> "mail", at |-> "resolve", mails |-> ms, row |-> NoRow]
  BY <1>1, <1>2, <1>3, MailsQuiet, MailsMoves
<1> QED
  BY <1>1, <1>4, <1>5 DEF ms

LEMMA RefundFlipsMoves ==
  ASSUME MailTypeInv, NEW r \in Requests, RefundFlips(r)
  PROVE  /\ QuietStep(r) /\ req[r].op = "refunds" /\ UNCHANGED <<met, settings>>
         /\ \/ req'[r] = Over /\ UNCHANGED <<sold, moved>>
            \/ /\ sold' = [payment |-> "refunded", status |-> "REFUNDED"]
               /\ moved' = IF sold.status # "REFUNDED" THEN moved \cup {<<r, "REFUNDED">>} ELSE moved
               /\ IF req[r].saw = "REFUNDED" THEN req'[r] = Over
                  ELSE req'[r] = [op |-> "mail", at |-> "resolve", mails |-> <<OrderRefunded>>, row |-> NoRow]
<1>1. req[r].op = "refunds" /\ UNCHANGED <<met, settings, mails, limits>>
  BY DEF RefundFlips, At
<1>2. req[r].op \in Early /\ UNCHANGED <<mails, cut>> /\ type' = type
  BY <1>1 DEF Early, limits, settings
<1>3. CASE sold.payment = "refunded"
  <2>1. Ends(r) /\ UNCHANGED <<sold, moved>>
    BY <1>3 DEF RefundFlips
  <2>2. req'[r] = Over /\ QuietStep(r)
    BY <1>2, <2>1, MailEnds, MailMoves DEF QuietStep
  <2> QED
    BY <1>1, <2>1, <2>2
<1>4. CASE sold.payment # "refunded"
  <2> DEFINE ms == RefundMails(req[r].saw)
  <2>1. /\ sold' = [payment |-> "refunded", status |-> "REFUNDED"]
        /\ moved' = IF sold.status # "REFUNDED" THEN moved \cup {<<r, "REFUNDED">>} ELSE moved
        /\ Mails(r, ms)
    BY <1>4 DEF RefundFlips
  <2>2. /\ <<OrderRefunded>> \in Lists /\ <<OrderRefunded>> # <<>>
        /\ ms = IF req[r].saw = "REFUNDED" THEN <<>> ELSE <<OrderRefunded>>
    BY StatusMessages, OneOfList DEF RefundMails
  <2> HIDE DEF ms
  <2>3. QuietStep(r)
    BY <1>2, <2>1, <2>2, MailsQuiet
  <2>4. IF req[r].saw = "REFUNDED" THEN req'[r] = Over
        ELSE req'[r] = [op |-> "mail", at |-> "resolve", mails |-> <<OrderRefunded>>, row |-> NoRow]
    BY <2>1, <2>2, MailsMoves
  <2> QED
    BY <1>1, <2>1, <2>3, <2>4
<1> QED
  BY <1>3, <1>4

\* The mails of an account or a test of a template, which no order asks for.
Alone == {PasswordReset, Welcome, TemplateTest(TRUE), TemplateTest(FALSE)}
LEMMA WritesMoves ==
  ASSUME MailTypeInv, NEW r \in Requests, NEW m \in Alone, Writes(r, m)
  PROVE  /\ QuietStep(r) /\ req[r] = Idle /\ UNCHANGED <<orders, type, own, platform, tested, doubt>> /\ Arrived(r)
         /\ \/ req'[r] = Over
            \/ req'[r] = [op |-> "mail", at |-> "resolve", mails |-> <<m>>, row |-> NoRow]
<1>1. /\ req[r] = Idle /\ UNCHANGED <<orders, type, own, platform, tested, doubt, mails, limits>> /\ Arrived(r)
      /\ Ends(r) \/ Mails(r, <<m>>)
  BY DEF Writes, Arrives
<1>2. req[r].op \in Early /\ UNCHANGED <<mails, cut>> /\ type' = type
  BY <1>1 DEF Early, limits, Idle
<1>3. <<m>> \in Lists /\ <<m>> # <<>>
  BY StatusMessages, OneOfList DEF Alone
<1>4. CASE Ends(r)
  BY <1>1, <1>2, <1>4, MailEnds, MailMoves DEF QuietStep
<1>5. CASE Mails(r, <<m>>)
  <2>1. QuietStep(r)
    BY <1>2, <1>3, <1>5, MailsQuiet
  <2>2. req'[r] = [op |-> "mail", at |-> "resolve", mails |-> <<m>>, row |-> NoRow]
    BY <1>3, <1>5, MailsMoves
  <2> QED
    BY <1>1, <2>1, <2>2
<1> QED
  BY <1>1, <1>4, <1>5

LEMMA SavesSenderMoves ==
  ASSUME MailTypeInv, NEW r \in Requests, NEW host \in Hosts, NEW pass \in Passwords \cup {0}, NEW on \in BOOLEAN,
         SavesSender(r, host, pass, on)
  PROVE  /\ QuietStep(r) /\ req[r] = Idle /\ UNCHANGED <<orders, own, tested, doubt>> /\ Arrived(r)
         /\ req'[r] = Over \/ req'[r].op = "save"
<1> DEFINE q == [op |-> "save", at |-> "upsert", host |-> host, pass |-> pass, on |-> on]
<1>1. q \in MailCalls /\ q.op = "save" /\ q.op \in Early \ {"idle"}
  BY DEF MailCalls, Early
<1>2. /\ req[r] = Idle /\ Arrived(r) /\ UNCHANGED <<orders, own, tested, doubt>>
      /\ UNCHANGED <<mails, cut>> /\ type' = type
      /\ Start(r, q) \/ Ends(r)
  BY DEF SavesSender, Asks, Arrives, limits, mails
<1>3. req[r].op \in Early
  BY <1>2 DEF Early, Idle
<1> HIDE DEF q
<1>4. QuietStep(r) /\ (req'[r] = Over \/ req'[r] = q)
  BY <1>1, <1>2, <1>3, StartQuiet, MailMoves
<1> QED
  BY <1>1, <1>2, <1>4

LEMMA StoresSenderMoves ==
  ASSUME MailTypeInv, NEW r \in Requests, StoresSender(r)
  PROVE  /\ QuietStep(r) /\ req[r].op = "save" /\ UNCHANGED <<orders, plain, tested>> /\ req'[r] = Over
         /\ own' \in Senders
         /\ own'.verified => own.verified /\ own'.pass = own.pass /\ doubt' = doubt
<1> DEFINE q == req[r]
<1>1. /\ q.op = "save" /\ Ends(r) /\ own' = Updated(own, q) /\ doubt' = (IF own'.verified THEN doubt ELSE FALSE)
      /\ UNCHANGED <<orders, type, plain, tested, mails, limits>>
  BY DEF StoresSender, At
<1>2. q.host \in Hosts /\ q.pass \in Passwords \cup {0} /\ q.on \in BOOLEAN /\ own \in Senders
  BY <1>1, SaveFields DEF MailTypeInv
<1>3. own' = [own EXCEPT !.host = q.host, !.on = q.on, !.pass = IF q.pass = 0 THEN @ ELSE q.pass,
                         !.verified = IF q.pass = 0 THEN @ ELSE FALSE]
  BY <1>1 DEF Updated
<1>4. own' \in Senders
  BY <1>2, <1>3 DEF Senders
<1>5. own'.verified => own.verified /\ own'.pass = own.pass
  <2>1. q.pass # 0 => own'.verified = FALSE
    BY <1>2, <1>3 DEF Senders
  <2>2. q.pass = 0 => own'.verified = own.verified /\ own'.pass = own.pass
    BY <1>2, <1>3 DEF Senders
  <2> QED
    BY <2>1, <2>2
<1>6. req'[r] = Over /\ QuietStep(r)
  BY <1>1, MailEnds, MailMoves DEF QuietStep, limits, Early
<1> QED
  BY <1>1, <1>4, <1>5, <1>6

LEMMA SavesPlatformMoves ==
  ASSUME MailTypeInv, NEW r \in Requests, NEW db \in BOOLEAN, SavesPlatform(r, db)
  PROVE  /\ QuietStep(r) /\ req[r] = Idle /\ UNCHANGED <<orders, own, tested, doubt>> /\ Arrived(r)
         /\ req'[r] = Over
<1>1. /\ req[r] = Idle /\ Arrived(r) /\ UNCHANGED <<orders, own, tested, doubt, mails, cut>> /\ type' = type /\ Ends(r)
  BY DEF SavesPlatform, Asks, Arrives, limits, mails
<1> QED
  BY <1>1, MailEnds, MailMoves DEF QuietStep, Early, Idle

\* A test is handed to the service, by the sender it is to try, or refused.
LEMMA TestMoves ==
  ASSUME MailTypeInv, NEW r \in Requests, TestsSender(r) \/ TestsPlatform(r)
  PROVE  /\ req' \in [Requests -> MailCalls] /\ \A s \in Requests \ {r} : req'[s] = req[s]
         /\ req[r] = Idle /\ Arrived(r)
         /\ UNCHANGED <<orders, type, own, tested, doubt, box, log, late, unlogged, old, cut>>
         /\ \/ req'[r] = Over /\ asked' = asked
            \/ /\ req'[r].op = "test" /\ req'[r].at = "send" /\ asked' = asked \cup {<<r, "test">>}
               /\ req'[r].via = "store" => type = "INDEPENDENT" /\ req'[r].host \in Hosts
<1>1. /\ req[r] = Idle /\ Arrived(r)
      /\ UNCHANGED <<orders, type, own, tested, doubt, box, log, late, unlogged, old, cut>>
  BY DEF TestsSender, TestsPlatform, Asks, Arrives, limits
<1>o. own.host \in Hosts \cup {0} /\ own.pass \in Passwords \cup {0}
  BY DEF MailTypeInv, Senders
<1>2. ASSUME NEW via \in Vias, NEW host \in Hosts \cup {0}, NEW pass \in Passwords \cup {0},
             Tests(r, via, host, pass), via = "store" => type = "INDEPENDENT" /\ host \in Hosts
      PROVE  /\ req' \in [Requests -> MailCalls] /\ \A s \in Requests \ {r} : req'[s] = req[s]
             /\ req'[r].op = "test" /\ req'[r].at = "send" /\ asked' = asked \cup {<<r, "test">>}
             /\ req'[r].via = "store" => type = "INDEPENDENT" /\ req'[r].host \in Hosts
  <2> DEFINE q == [op |-> "test", at |-> "send", via |-> via, host |-> host, pass |-> pass, row |-> NoRow]
  <2>1. q \in MailCalls /\ q.op = "test" /\ q.at = "send" /\ q.via = via /\ q.host = host
    BY DEF MailCalls
  <2>2. Start(r, q) /\ asked' = asked \cup {<<r, "test">>}
    BY <1>2 DEF Tests
  <2> HIDE DEF q
  <2> QED
    BY <1>2, <2>1, <2>2, MailMoves
<1>3. CASE Ends(r) /\ asked' = asked
  BY <1>1, <1>3, MailEnds, MailMoves
<1>4. CASE ~(Ends(r) /\ asked' = asked) /\ TestsSender(r)
  <2>1. HasSender /\ Tests(r, "store", own.host, own.pass)
    BY <1>4 DEF TestsSender
  <2>2. type = "INDEPENDENT" /\ own.host \in Hosts
    BY <1>o, <2>1 DEF HasSender
  <2> QED
    BY <1>1, <1>2, <1>o, <2>1, <2>2 DEF Vias
<1>5. CASE ~(Ends(r) /\ asked' = asked) /\ TestsPlatform(r)
  <2>1. Tests(r, "platform", 0, 0)
    BY <1>5 DEF TestsPlatform
  <2> QED
    BY <1>1, <1>2, <2>1 DEF Vias
<1> QED
  BY <1>3, <1>4, <1>5

LEMMA IdIs ==
  ASSUME NEW q \in MailCalls, NEW r \in Requests, req[r] = q, q.op \in {"mail", "test"}
  PROVE  /\ Id(r) \in Ids /\ Id(r)[1] = r
         /\ Id(r) = <<r, IF q.op = "test" THEN "test" ELSE Head(q.mails).event>>
         /\ q.op = "mail" => Head(q.mails).event \in Events /\ Id(r)[2] # "test"
<1>1. q.op = "mail" => Head(q.mails).event \in Events
  BY MailFields, ListFacts DEF Messages
<1> QED
  BY <1>1 DEF Id, Ids, Events

LEMMA ResolvesMoves ==
  ASSUME MailTypeInv, NEW r \in Requests, Resolves(r)
  PROVE  /\ req' \in [Requests -> MailCalls] /\ \A s \in Requests \ {r} : req'[s] = req[s]
         /\ req[r].op = "mail" /\ req[r].at = "resolve"
         /\ req'[r].op = "mail" /\ req'[r].mails = req[r].mails
         /\ req'[r].at = "platform" \/ (req'[r].at = "store" /\ HasSender)
         /\ asked' = asked \cup {Id(r)} /\ Id(r)' = Id(r)
         /\ UNCHANGED <<orders, settings, box, log, late, unlogged, old, limits>>
<1> DEFINE q == req[r]
           at == IF Head(q.mails).own /\ HasSender THEN "store" ELSE "platform"
           p == [q EXCEPT !.at = at]
<1>1. /\ q.op = "mail" /\ q.at = "resolve" /\ asked' = asked \cup {Id(r)}
      /\ UNCHANGED <<orders, settings, box, log, late, unlogged, old, limits>>
      /\ GoesTo(r, at)
  BY DEF Resolves, At
<1>2. at \in {"store", "platform"} /\ (at = "store" => HasSender)
  OBVIOUS
<1> HIDE DEF at
<1>3. q \in [op : {"mail"}, at : {"resolve", "store", "platform"}, mails : Lists, row : {NoRow}]
  BY <1>1, MailFields DEF MailTypeInv
<1>4. p \in MailCalls /\ p.op = "mail" /\ p.at = at /\ p.mails = q.mails
  BY <1>2, <1>3 DEF MailCalls
<1>5. Start(r, p)
  BY <1>1 DEF GoesTo, Start
<1> HIDE DEF p
<1>6. req'[r] = p /\ req' \in [Requests -> MailCalls] /\ \A s \in Requests \ {r} : req'[s] = req[s]
  BY <1>4, <1>5, MailMoves
<1>7. Id(r)' = Id(r)
  BY <1>1, <1>4, <1>6 DEF Id
<1> QED
  BY <1>1, <1>2, <1>4, <1>6, <1>7

\* What one attempt of a sender does: the answer, and the row that is to be written.
Attempt(r, via) ==
  LET row == req'[r].row IN
  /\ row.m = Id(r) /\ row.via = via
  /\ \/ row.status = "SENT" /\ box' = box \cup {<<Id(r), via>>} /\ late' = late
     \/ row.status = "FAILED" /\ UNCHANGED <<box, late>>
     \/ /\ row.status = "FAILED"
        /\ box' = box \cup {<<Id(r), via>>} /\ late' = late \cup {<<Id(r), via>>}

LEMMA TrySendMoves ==
  ASSUME MailTypeInv, NEW r \in Requests, NEW via \in Vias, TrySend(r, via),
         req[r].op = "mail", req[r].at \in {"store", "platform"}
  PROVE  /\ req' \in [Requests -> MailCalls] /\ \A s \in Requests \ {r} : req'[s] = req[s]
         /\ req'[r].op = "mail" /\ req'[r].at = "log" /\ req'[r].mails = req[r].mails
         /\ Attempt(r, via) /\ Id(r)' = Id(r)
         /\ UNCHANGED <<orders, settings, log, asked, unlogged, old, cut>>
<1> DEFINE q == req[r]
<1>q. q \in [op : {"mail"}, at : {"resolve", "store", "platform"}, mails : Lists, row : {NoRow}]
  BY MailFields DEF MailTypeInv
<1>m. Id(r) \in Ids
  BY IdIs DEF MailTypeInv
<1>1. PICK answer \in {"accepted", "refused", "late"} :
        Answers(Id(r), via, answer) /\ Start(r, ToLog(q, Id(r), Outcome(answer), via))
  BY DEF TrySend
<1> DEFINE row == [m |-> Id(r), status |-> Outcome(answer), via |-> via]
           p == [q EXCEPT !.at = "log", !.row = row]
<1>2. Start(r, p)
  BY <1>1 DEF ToLog
<1>3. row \in LogRows /\ row.m = Id(r) /\ row.status = Outcome(answer) /\ row.via = via
  BY <1>m DEF LogRows, Outcome
<1> HIDE DEF row
<1>4. p \in MailCalls /\ p.op = "mail" /\ p.at = "log" /\ p.mails = q.mails /\ p.row = row
  BY <1>q, <1>3 DEF MailCalls
<1> HIDE DEF p
<1>5. req'[r] = p /\ req' \in [Requests -> MailCalls] /\ \A s \in Requests \ {r} : req'[s] = req[s]
  BY <1>2, <1>4, MailMoves
<1>6. Attempt(r, via)
  BY <1>1, <1>3, <1>4, <1>5 DEF Attempt, Answers, Outcome
<1>7. Id(r)' = Id(r)
  BY <1>4, <1>5 DEF Id
<1> QED
  BY <1>4, <1>5, <1>6, <1>7 DEF TrySend

\* Neither sender is set up: the message is skipped, and the log says so.
Skips(r) ==
  /\ req' \in [Requests -> MailCalls] /\ \A s \in Requests \ {r} : req'[s] = req[s]
  /\ req'[r].op = "mail" /\ req'[r].at = "log" /\ req'[r].mails = req[r].mails /\ Id(r)' = Id(r)
  /\ req'[r].row = [m |-> Id(r), status |-> "SKIPPED", via |-> "none"]
  /\ UNCHANGED <<orders, settings, mails, limits>>

LEMMA PlatformMoves ==
  ASSUME MailTypeInv, NEW r \in Requests, SendsByPlatform(r)
  PROVE  req[r].op = "mail" /\ req[r].at = "platform" /\ (TrySend(r, "platform") \/ Skips(r))
<1> DEFINE q == req[r]
           row == [m |-> Id(r), status |-> "SKIPPED", via |-> "none"]
           p == [q EXCEPT !.at = "log", !.row = row]
<1>1. /\ q.op = "mail" /\ q.at = "platform"
      /\ TrySend(r, "platform") \/ (Start(r, p) /\ UNCHANGED <<orders, settings, mails, limits>>)
  BY DEF SendsByPlatform, At, ToLog
<1>q. q \in [op : {"mail"}, at : {"resolve", "store", "platform"}, mails : Lists, row : {NoRow}]
  BY <1>1, MailFields DEF MailTypeInv
<1>m. Id(r) \in Ids
  BY <1>1, IdIs DEF MailTypeInv
<1>3. row \in LogRows
  BY <1>m DEF LogRows
<1> HIDE DEF row
<1>4. p \in MailCalls /\ p.op = "mail" /\ p.at = "log" /\ p.mails = q.mails /\ p.row = row
  BY <1>q, <1>3 DEF MailCalls
<1> HIDE DEF p
<1>5. ASSUME Start(r, p), UNCHANGED <<orders, settings, mails, limits>> PROVE Skips(r)
  <2>1. req'[r] = p /\ req' \in [Requests -> MailCalls] /\ \A s \in Requests \ {r} : req'[s] = req[s]
    BY <1>4, <1>5, MailMoves
  <2>2. Id(r)' = Id(r)
    BY <1>1, <1>4, <2>1 DEF Id
  <2> QED
    BY <1>4, <1>5, <2>1, <2>2 DEF Skips, row
<1> QED
  BY <1>1, <1>5

\* A test goes out, or fails; a test of the store's sender that was accepted
\* is still to be noted in its settings.
LEMMA SendsTestMoves ==
  ASSUME MailTypeInv, NEW r \in Requests, SendsTest(r)
  PROVE  /\ req' \in [Requests -> MailCalls] /\ \A s \in Requests \ {r} : req'[s] = req[s]
         /\ req[r].op = "test" /\ req[r].at = "send" /\ Id(r)' = Id(r)
         /\ req'[r].op = "test" /\ req'[r].via = req[r].via
         /\ req'[r].host = req[r].host /\ req'[r].pass = req[r].pass
         /\ \/ /\ req'[r].at = "verify" /\ req[r].via = "store"
               /\ tested' = tested \cup {<<req[r].host, req[r].pass>>}
               /\ box' = box \cup {<<Id(r), "store">>} /\ late' = late
            \/ req'[r].at = "log" /\ Attempt(r, req[r].via) /\ tested' = tested
         /\ UNCHANGED <<orders, type, own, platform, plain, doubt, log, asked, unlogged, old, cut>>
<1> DEFINE q == req[r]
           via == q.via
<1>1. q.op = "test" /\ q.at = "send"
  BY DEF SendsTest, At
<1>q. q \in [op : {"test"}, at : {"send"}, via : Vias, host : Hosts \cup {0}, pass : Passwords \cup {0}, row : {NoRow}]
  BY <1>1 DEF MailTypeInv, MailCalls, Idle, Over
<1>m. Id(r) \in Ids
  BY <1>1, IdIs DEF MailTypeInv
<1>2. PICK answer \in {"accepted", "refused", "late"} :
        /\ Answers(Id(r), via, answer)
        /\ IF via = "store" /\ answer = "accepted"
           THEN GoesTo(r, "verify") /\ tested' = tested \cup {<<q.host, q.pass>>}
           ELSE Start(r, ToLog(q, Id(r), Outcome(answer), via)) /\ UNCHANGED tested
  BY DEF SendsTest
<1>f. UNCHANGED <<orders, type, own, platform, plain, doubt, log, asked, unlogged, old, cut>>
  BY DEF SendsTest
<1>3. CASE via = "store" /\ answer = "accepted"
  <2> DEFINE p == [q EXCEPT !.at = "verify"]
  <2>1. p \in MailCalls /\ p.op = "test" /\ p.at = "verify" /\ p.via = via /\ p.host = q.host /\ p.pass = q.pass
    BY <1>q, <1>3 DEF MailCalls
  <2>2. Start(r, p)
    BY <1>2, <1>3 DEF GoesTo, Start
  <2> HIDE DEF p
  <2>3. req'[r] = p /\ req' \in [Requests -> MailCalls] /\ \A s \in Requests \ {r} : req'[s] = req[s]
    BY <2>1, <2>2, MailMoves
  <2>4. Id(r)' = Id(r)
    BY <1>1, <2>1, <2>3 DEF Id
  <2>5. box' = box \cup {<<Id(r), "store">>} /\ late' = late
    BY <1>2, <1>3 DEF Answers
  <2> QED
    BY <1>1, <1>2, <1>3, <1>f, <2>1, <2>3, <2>4, <2>5
<1>4. CASE ~(via = "store" /\ answer = "accepted")
  <2> DEFINE row == [m |-> Id(r), status |-> Outcome(answer), via |-> via]
             p == [q EXCEPT !.at = "log", !.row = row]
  <2>1. Start(r, p) /\ tested' = tested
    BY <1>2, <1>4 DEF ToLog
  <2>2. row \in LogRows /\ row.m = Id(r) /\ row.status = Outcome(answer) /\ row.via = via
    BY <1>m, <1>q DEF LogRows, Outcome
  <2> HIDE DEF row
  <2>3. /\ p \in MailCalls /\ p.op = "test" /\ p.at = "log" /\ p.via = via /\ p.host = q.host /\ p.pass = q.pass
        /\ p.row = row
    BY <1>q, <2>2 DEF MailCalls
  <2> HIDE DEF p
  <2>4. req'[r] = p /\ req' \in [Requests -> MailCalls] /\ \A s \in Requests \ {r} : req'[s] = req[s]
    BY <2>1, <2>3, MailMoves
  <2>5. Attempt(r, via)
    BY <1>2, <2>2, <2>3, <2>4 DEF Attempt, Answers, Outcome
  <2>6. Id(r)' = Id(r)
    BY <1>1, <2>3, <2>4 DEF Id
  <2> QED
    BY <1>1, <1>f, <2>1, <2>3, <2>4, <2>5, <2>6
<1> QED
  BY <1>3, <1>4

\* The test is noted in the settings, or that fails.
LEMMA VerifyMoves ==
  ASSUME MailTypeInv, NEW r \in Requests, Verifies(r) \/ VerifyThrows(r)
  PROVE  /\ req' \in [Requests -> MailCalls] /\ \A s \in Requests \ {r} : req'[s] = req[s]
         /\ req[r].op = "test" /\ req[r].at = "verify" /\ req[r].via = "store" /\ Id(r)' = Id(r)
         /\ req'[r].op = "test" /\ req'[r].at = "log" /\ req'[r].via = "store" /\ req'[r].host = req[r].host
         /\ req'[r].row.m = Id(r) /\ req'[r].row.via = "store"
         /\ \/ /\ req'[r].row.status = "SENT" /\ late' = late
               /\ own' = [own EXCEPT !.verified = TRUE] /\ doubt' = (own.pass # req[r].pass)
            \/ /\ req'[r].row.status = "FAILED" /\ late' = late \cup {<<Id(r), "store">>}
               /\ own' = own /\ doubt' = doubt
         /\ UNCHANGED <<orders, type, platform, plain, tested, box, log, asked, unlogged, old, cut>>
<1> DEFINE q == req[r]
<1>1. q.op = "test" /\ q.at = "verify"
  BY DEF Verifies, VerifyThrows, At
<1>q. q \in [op : {"test"}, at : {"verify"}, via : {"store"}, host : Hosts \cup {0}, pass : Passwords \cup {0}, row : {NoRow}]
  BY <1>1 DEF MailTypeInv, MailCalls, Idle, Over
<1>m. Id(r) \in Ids
  BY <1>1, IdIs DEF MailTypeInv
<1>2. ASSUME NEW status \in {"SENT", "FAILED"}, Start(r, ToLog(q, Id(r), status, "store"))
      PROVE  /\ req' \in [Requests -> MailCalls] /\ \A s \in Requests \ {r} : req'[s] = req[s]
             /\ req'[r].op = "test" /\ req'[r].at = "log" /\ req'[r].via = "store" /\ req'[r].host = q.host
             /\ req'[r].row.m = Id(r) /\ req'[r].row.via = "store" /\ req'[r].row.status = status
             /\ Id(r)' = Id(r)
  <2> DEFINE row == [m |-> Id(r), status |-> status, via |-> "store"]
             p == [q EXCEPT !.at = "log", !.row = row]
  <2>1. Start(r, p)
    BY <1>2 DEF ToLog
  <2>2. row \in LogRows /\ row.m = Id(r) /\ row.status = status /\ row.via = "store"
    BY <1>m DEF LogRows, Vias
  <2> HIDE DEF row
  <2>3. p \in MailCalls /\ p.op = "test" /\ p.at = "log" /\ p.via = "store" /\ p.host = q.host /\ p.row = row
    BY <1>q, <2>2 DEF MailCalls, Vias
  <2> HIDE DEF p
  <2>4. req'[r] = p /\ req' \in [Requests -> MailCalls] /\ \A s \in Requests \ {r} : req'[s] = req[s]
    BY <2>1, <2>3, MailMoves
  <2>5. Id(r)' = Id(r)
    BY <1>1, <2>3, <2>4 DEF Id
  <2> QED
    BY <2>2, <2>3, <2>4, <2>5
<1>3. q.via = "store"
  BY <1>q
<1>4. CASE Verifies(r)
  <2>1. /\ Start(r, ToLog(q, Id(r), "SENT", "store")) /\ own' = [own EXCEPT !.verified = TRUE]
        /\ doubt' = (own.pass # q.pass) /\ UNCHANGED <<orders, type, platform, plain, tested, mails, limits>>
    BY <1>3, <1>4 DEF Verifies
  <2> QED
    BY <1>1, <1>2, <1>3, <2>1 DEF mails, limits
<1>5. CASE VerifyThrows(r)
  <2>1. /\ Start(r, ToLog(q, Id(r), "FAILED", "store")) /\ late' = late \cup {<<Id(r), "store">>}
        /\ UNCHANGED <<orders, settings, box, log, asked, unlogged, old, cut>>
    BY <1>5 DEF VerifyThrows
  <2> QED
    BY <1>1, <1>2, <1>3, <2>1 DEF settings
<1> QED
  BY <1>4, <1>5

\* The row is written, or lost; then the message is over, or the platform's
\* sender takes it over from the store's.
LEMMA LogMoves ==
  ASSUME MailTypeInv, NEW r \in Requests, LogDelivery(r), req[r].op \in {"mail", "test"}
  PROVE  /\ req' \in [Requests -> MailCalls] /\ \A s \in Requests \ {r} : req'[s] = req[s]
         /\ req[r].at = "log" /\ req[r].row \in LogRows
         /\ \/ /\ \/ log' = log \cup {req[r].row} \/ log' = Kept(log) \cup {req[r].row}
               /\ unlogged' = unlogged
            \/ unlogged' = unlogged \cup {req[r].row.m} /\ log' = log
         /\ \/ /\ FallsBack(req[r]) /\ Id(r)' = Id(r)
               /\ req'[r].op = "mail" /\ req'[r].at = "platform" /\ req'[r].mails = req[r].mails
            \/ ~FallsBack(req[r]) /\ req'[r] = Over /\ (req[r].op = "mail" => Tail(req[r].mails) = <<>>)
            \/ /\ ~FallsBack(req[r]) /\ req[r].op = "mail" /\ req[r].mails = Both
               /\ req'[r] = [op |-> "mail", at |-> "resolve", mails |-> <<NewOrderToOwner>>, row |-> NoRow]
         /\ UNCHANGED <<orders, settings, box, asked, late, old, cut>>
<1> DEFINE q == req[r]
<1>q. q \in MailCalls
  BY DEF MailTypeInv
<1>1. /\ q.at = "log" /\ AfterLog(r, q) /\ UNCHANGED <<orders, settings, box, asked, late, old, cut>>
      /\ \/ /\ \/ log' = log \cup {q.row} \/ log' = Kept(log) \cup {q.row}
            /\ unlogged' = unlogged
         \/ unlogged' = unlogged \cup {q.row.m} /\ log' = log
  BY DEF LogDelivery
<1>2. q.row \in LogRows
  BY <1>q, <1>1, MailFields, TestFields
<1>3. CASE FallsBack(q)
  <2> DEFINE p == [q EXCEPT !.at = "platform", !.row = NoRow]
  <2>1. q.op = "mail" /\ Start(r, p)
    BY <1>1, <1>3 DEF FallsBack, AfterLog
  <2>2. q \in [op : {"mail"}, at : {"resolve", "store", "platform"}, mails : Lists, row : {NoRow}]
                \cup [op : {"mail"}, at : {"log"}, mails : Lists, row : LogRows]
    BY <1>q, <2>1, MailFields
  <2>3. p \in MailCalls /\ p.op = "mail" /\ p.at = "platform" /\ p.mails = q.mails
    BY <2>2 DEF MailCalls
  <2> HIDE DEF p
  <2>4. req'[r] = p /\ req' \in [Requests -> MailCalls] /\ \A s \in Requests \ {r} : req'[s] = req[s]
    BY <2>1, <2>3, MailMoves
  <2>5. Id(r)' = Id(r)
    BY <2>1, <2>3, <2>4 DEF Id
  <2> QED
    BY <1>1, <1>2, <1>3, <2>3, <2>4, <2>5
<1>4. CASE ~FallsBack(q) /\ q.op = "test"
  <2>1. Ends(r)
    BY <1>1, <1>4 DEF AfterLog
  <2> QED
    BY <1>1, <1>2, <1>4, <2>1, MailEnds, MailMoves
<1>5. CASE ~FallsBack(q) /\ q.op = "mail"
  <2>1. Mails(r, Tail(q.mails))
    BY <1>1, <1>5 DEF AfterLog
  <2>2. q.mails \in Lists
    BY <1>q, <1>5, MailFields
  <2>3. Tail(q.mails) = <<>> \/ (q.mails = Both /\ Tail(q.mails) = <<NewOrderToOwner>>)
    BY <2>2, ListFacts
  <2>4. <<NewOrderToOwner>> \in Lists /\ <<NewOrderToOwner>> # <<>>
    BY OneOfList
  <2> QED
    BY <1>1, <1>2, <1>5, <2>1, <2>3, <2>4, MailsMoves
<1> QED
  BY <1>3, <1>4, <1>5

-------------------------------------------------------------------------------
(* The mails: each arrives, once, and the log says so.                       *)

\* The events a request has still to hand to the service.
Rest(ms) == IF ms = Both THEN {"new_order_owner"} ELSE {}
ToAsk(q) ==
  IF q.op # "mail" THEN {}
  ELSE Rest(q.mails) \cup (IF q.at = "resolve" THEN {Head(q.mails).event} ELSE {})
\* A request is at work on a message.
AtWork(q) == q.op = "test" \/ (q.op = "mail" /\ q.at # "resolve")
Underway(m) == AtWork(req[m[1]]) /\ m = Id(m[1])
AskedSound(r) ==
  /\ req[r].op \in {"idle", "pays", "sets", "refunds", "save"} => \A e \in Events \cup {"test"} : <<r, e>> \notin asked
  /\ \A e \in ToAsk(req[r]) : <<r, e>> \notin asked
  /\ AtWork(req[r]) => Id(r) \in asked

Unsent(m)     == \A via \in Vias : <<m, via>> \notin box
Unrecorded(m) == \A row \in log : row.m # m
StoreTried(m) ==
  /\ <<m, "store">> \in box => <<m, "store">> \in late
  /\ \A row \in log : row.m = m => row.via = "store"
RowTrue(row)  == (<<row.m, row.via>> \in box) = (row.status = "SENT" \/ <<row.m, row.via>> \in late)
StageSound(r) ==
  LET q == req[r] IN
  /\ (q.op = "mail" /\ q.at = "store") \/ (q.op = "test" /\ q.at = "send") => Unsent(Id(r)) /\ Unrecorded(Id(r))
  /\ q.op = "mail" /\ q.at = "platform" => <<Id(r), "platform">> \notin box /\ StoreTried(Id(r))
  /\ q.op = "test" /\ q.at = "verify" =>
       <<Id(r), "store">> \in box /\ <<Id(r), "platform">> \notin box /\ Unrecorded(Id(r))
  /\ q.op \in {"mail", "test"} /\ q.at = "log" =>
       /\ q.row.m = Id(r) /\ RowTrue(q.row)
       /\ q.row.via = "store" => <<Id(r), "platform">> \notin box /\ Unrecorded(Id(r))
       /\ q.row.via # "store" => StoreTried(Id(r))

Recording(m, via) ==
  LET q == req[m[1]] IN
  Underway(m) /\ ((q.at = "log" /\ q.row.via = via) \/ (q.op = "test" /\ q.at = "verify" /\ via = "store"))
MessageSound(m) ==
  /\ ByStore(m) /\ ByPlatform(m) => <<m, "store">> \in late
  /\ m[1] \notin cut /\ Logged(m) =>
       /\ ~Underway(m) /\ ~ByStore(m) /\ ~ByPlatform(m) =>
            \E row \in log : row.m = m /\ row.status # "SENT" /\ (row.via # "store" \/ m[2] = "test")
       /\ \A via \in Vias : <<m, via>> \in box =>
            (\E row \in log : row.m = m /\ row.via = via) \/ Recording(m, via)
PlainSound(r) ==
  r \in plain =>
    /\ req[r] # Idle
    /\ r \in InFlight => /\ type = "MARKETPLACE"
                         /\ ~(req[r].op = "mail" /\ req[r].at = "store") /\ ~(req[r].op = "test" /\ req[r].via = "store")
    /\ \A e \in Events \cup {"test"} : <<<<r, e>>, "store">> \notin box
TestSound(r) ==
  req[r].op = "test" /\ req[r].via = "store" =>
    /\ req[r].host \in Hosts
    /\ req[r].at = "verify" => <<req[r].host, req[r].pass>> \in tested

\* What a request told and has still to tell is what it moved.
Tells(r, e) == <<r, e>> \in asked \/ e \in ToAsk(req[r])
TellsMoves(r) ==
  r \notin cut =>
    /\ (<<r, "paid">> \in moved) = Tells(r, "order_confirmation")
    /\ (<<r, "paid">> \in moved) = Tells(r, "new_order_owner")
    /\ r \notin met => \A s \in Statuses : StatusMail(s) # <<>> =>
         (<<r, s>> \in moved) = Tells(r, Head(StatusMail(s)).event)
WritesAlone(r) ==
  req[r].op \in Writers =>
    /\ r \notin met => /\ req[r].saw = sold.status
                       /\ \A s \in Requests \ {r} : req[s].op \notin Writers
UnmovedYet(r) == req[r].op \in {"idle"} \cup Writers => \A x \in Stages \cup {"paid"} : <<r, x>> \notin moved

\* A step of r that leaves what others sent, and their rows until they are old.
Touches(r) ==
  /\ \A s \in Requests \ {r} : req'[s] = req[s]
  /\ \A m \in Ids : m[1] # r =>
       /\ m \in asked' <=> m \in asked
       /\ \A via \in Vias : (<<m, via>> \in box' <=> <<m, via>> \in box) /\ (<<m, via>> \in late' <=> <<m, via>> \in late)
  /\ unlogged \subseteq unlogged' /\ cut \subseteq cut' /\ old' = old
  /\ \A row \in log' : row \in log \/ row.m[1] = r
  /\ \A row \in log : row \in log' \/ row.m[1] \in old

LEMMA OthersAsked ==
  ASSUME MailTypeInv, MailTypeInv', NEW r \in Requests, Touches(r), NEW s \in Requests \ {r}
  PROVE  /\ AskedSound(s) => AskedSound(s)'
         /\ StageSound(s) => StageSound(s)'
<1>1. req'[s] = req[s] /\ Id(s)' = Id(s)
  BY DEF Touches, Id
<1>2. \A e \in Events \cup {"test"} : <<s, e>> \in asked' <=> <<s, e>> \in asked
  BY DEF Touches, Ids
<1>3. AtWork(req[s]) => Id(s) \in Ids /\ Id(s)[1] = s
  BY IdIs DEF AtWork, MailTypeInv
<1>4. AtWork(req[s]) => (Id(s) \in asked' <=> Id(s) \in asked)
  BY <1>3 DEF Touches
<1>5. ToAsk(req[s]) \subseteq Events
  BY ListFacts, MailFields DEF ToAsk, Rest, Events, MailTypeInv, Messages
<1>6. AskedSound(s) => AskedSound(s)'
  BY <1>1, <1>2, <1>4, <1>5 DEF AskedSound
<1>7. ASSUME AtWork(req[s])
      PROVE  /\ \A via \in Vias : (<<Id(s), via>> \in box' <=> <<Id(s), via>> \in box)
                                  /\ (<<Id(s), via>> \in late' <=> <<Id(s), via>> \in late)
             /\ \A row \in log' : row.m = Id(s) => row \in log
  BY <1>3, <1>7 DEF Touches
<1>8. ASSUME StageSound(s) PROVE StageSound(s)'
  <2> DEFINE q == req[s]
             m == Id(s)
  <2>0. "store" \in Vias /\ "platform" \in Vias
    BY DEF Vias
  <2>1. AtWork(q) => (Unsent(m) => Unsent(m)') /\ (Unrecorded(m) => Unrecorded(m)') /\ (StoreTried(m) => StoreTried(m)')
    BY <1>1, <1>7, <2>0 DEF Unsent, Unrecorded, StoreTried
  <2>2. ASSUME AtWork(q), q.at = "log", q.row.m = m, RowTrue(q.row) PROVE RowTrue(q.row)'
    <3>1. q.row \in LogRows
      BY <2>2, MailFields, TestFields DEF AtWork, MailTypeInv
    <3>2. CASE q.row.via \in Vias
      BY <1>1, <1>7, <2>2, <3>2 DEF RowTrue
    <3>3. CASE q.row.via = "none"
      <4>1. q.row.status # "SENT"
        BY <3>1, <3>3 DEF LogRows, Vias
      <4>2. <<m, "none">> \notin box /\ <<m, "none">> \notin late
        BY DEF MailTypeInv, Vias
      <4>3. <<m, "none">> \notin box' /\ <<m, "none">> \notin late'
        BY DEF MailTypeInv, Vias
      <4> QED
        BY <1>1, <2>2, <3>3, <4>1, <4>2, <4>3 DEF RowTrue
    <3> QED
      BY <3>1, <3>2, <3>3 DEF LogRows
  <2> QED
    BY <1>1, <1>7, <1>8, <2>0, <2>1, <2>2 DEF StageSound, AtWork
<1> QED
  BY <1>6, <1>8

\* What is known of a message stays so while nothing is sent of it and no row
\* of it goes.
LEMMA MessageKept ==
  ASSUME NEW m, MessageSound(m), unlogged \subseteq unlogged', cut \subseteq cut', old \subseteq old',
         \A via \in Vias : (<<m, via>> \in box' <=> <<m, via>> \in box) /\ (<<m, via>> \in late => <<m, via>> \in late'),
         m[1] \notin old' => \A row \in log : row.m = m => row \in log',
         m[1] \notin cut' => (Underway(m) => Underway(m)') /\ \A via \in Vias : Recording(m, via) => Recording(m, via)'
  PROVE  MessageSound(m)'
<1> USE DEF MessageSound, ByStore, ByPlatform, Logged, Vias
<1>1. (ByStore(m) /\ ByPlatform(m) => <<m, "store">> \in late)'
  OBVIOUS
<1>2. ASSUME m[1] \notin cut', Logged(m)'
      PROVE  /\ ~Underway(m)' /\ ~ByStore(m)' /\ ~ByPlatform(m)' =>
                  \E row \in log' : row.m = m /\ row.status # "SENT" /\ (row.via # "store" \/ m[2] = "test")
             /\ \A via \in Vias : <<m, via>> \in box' =>
                  (\E row \in log' : row.m = m /\ row.via = via) \/ Recording(m, via)'
  <2>1. m[1] \notin cut /\ Logged(m) /\ \A row \in log : row.m = m => row \in log'
    BY <1>2
  <2> QED
    BY <1>2, <2>1
<1> QED
  BY <1>1, <1>2

LEMMA OthersMessages ==
  ASSUME MailTypeInv, NEW r \in Requests, Touches(r), NEW m \in asked, m[1] # r, MessageSound(m)
  PROVE  MessageSound(m)'
<1>1. m \in Ids /\ m[1] \in Requests \ {r}
  BY DEF MailTypeInv, Ids
<1>2. req'[m[1]] = req[m[1]] /\ Id(m[1])' = Id(m[1])
  BY <1>1 DEF Touches, Id
<1>3. (Underway(m) => Underway(m)') /\ \A via \in Vias : Recording(m, via) => Recording(m, via)'
  BY <1>2 DEF Underway, Recording
<1>4. m[1] \notin old' => \A row \in log : row.m = m => row \in log'
  BY DEF Touches
<1>5. /\ unlogged \subseteq unlogged' /\ cut \subseteq cut' /\ old \subseteq old'
      /\ \A via \in Vias : (<<m, via>> \in box' <=> <<m, via>> \in box) /\ (<<m, via>> \in late => <<m, via>> \in late')
  BY <1>1 DEF Touches
<1> QED
  BY <1>3, <1>4, <1>5, MessageKept

\* A message its request is not at work on, before or after a step.
LEMMA OwnMessages ==
  ASSUME MailTypeInv, NEW r \in Requests, NEW m \in asked, m[1] = r, MessageSound(m),
         ~Underway(m), unlogged \subseteq unlogged', cut \subseteq cut', old' = old,
         \A via \in Vias : (<<m, via>> \in box' <=> <<m, via>> \in box) /\ (<<m, via>> \in late => <<m, via>> \in late'),
         \A row \in log : row \in log' \/ row.m[1] \in old
  PROVE  MessageSound(m)'
<1>1. \A via \in Vias : ~Recording(m, via)
  BY DEF Recording
<1>2. m[1] \notin old' => \A row \in log : row.m = m => row \in log'
  OBVIOUS
<1> QED
  BY <1>1, <1>2, MessageKept

\* The invariant for the messages and rows, without the settings.
SentInv ==
  /\ MailTypeInv
  /\ \A row \in log : RowTrue(row)
  /\ \A m \in asked : MessageSound(m)
  /\ \A r \in Requests : AskedSound(r) /\ StageSound(r)
\* A step of r that keeps the others' messages, and what of it concerns r.
StepSound(r) ==
  /\ Touches(r) /\ AskedSound(r)' /\ StageSound(r)'
  /\ \A m \in asked' : m[1] = r => MessageSound(m)'
  /\ \A row \in log' : RowTrue(row)'

LEMMA StepKeeps ==
  ASSUME SentInv, MailTypeInv', NEW r \in Requests, StepSound(r)
  PROVE  SentInv'
<1>1. \A s \in Requests : AskedSound(s)' /\ StageSound(s)'
  BY OthersAsked DEF SentInv, StepSound
<1>2. ASSUME NEW m \in asked' PROVE MessageSound(m)'
  <2>1. CASE m[1] = r
    BY <1>2, <2>1 DEF StepSound
  <2>2. CASE m[1] # r
    <3>1. m \in asked
      BY <1>2, <2>2 DEF StepSound, Touches, MailTypeInv
    <3> QED
      BY <2>2, <3>1, OthersMessages DEF SentInv, StepSound
  <2> QED
    BY <2>1, <2>2
<1> QED
  BY <1>1, <1>2 DEF SentInv, StepSound

LEMMA NotUnderway ==
  ASSUME NEW r \in Requests, NEW m, m[1] = r, ~AtWork(req[r]) \/ m # Id(r)
  PROVE  ~Underway(m)
BY DEF Underway

LEMMA OverSound ==
  ASSUME NEW r \in Requests, req'[r] = Over \/ (req'[r].op \notin {"mail", "test"} \cup Early)
  PROVE  AskedSound(r)' /\ StageSound(r)'
BY DEF AskedSound, StageSound, ToAsk, AtWork, Over, Early

LEMMA QuietSound ==
  ASSUME SentInv, NEW r \in Requests, QuietStep(r)
  PROVE  StepSound(r)
<1> DEFINE q == req'[r]
<1>1. UNCHANGED <<box, log, asked, late, unlogged, old, cut>>
  BY DEF QuietStep, mails
<1>2. \A e \in Events \cup {"test"} : <<r, e>> \notin asked
  BY DEF SentInv, AskedSound, QuietStep, Early
<1>3. Touches(r)
  BY <1>1 DEF Touches, QuietStep
<1>4. AskedSound(r)' /\ StageSound(r)'
  <2>1. CASE q = Over
    BY <2>1, OverSound
  <2>2. CASE q.op \in Early \ {"idle"}
    BY <1>1, <1>2, <2>2 DEF AskedSound, StageSound, ToAsk, AtWork, Early
  <2>3. CASE q.op = "mail" /\ q.at = "resolve" /\ q.mails \in Lists
    <3>1. ToAsk(q) \subseteq Events /\ ~AtWork(q)
      BY <2>3, ListFacts DEF ToAsk, Rest, Events, AtWork, Messages
    <3> QED
      BY <1>1, <1>2, <2>3, <3>1 DEF AskedSound, StageSound
  <2> QED
    BY <2>1, <2>2, <2>3 DEF QuietStep
<1>5. ASSUME NEW m \in asked', m[1] = r PROVE FALSE
  BY <1>1, <1>2, <1>5 DEF SentInv, MailTypeInv, Ids
<1>6. \A row \in log' : RowTrue(row)'
  BY <1>1 DEF SentInv, RowTrue
<1> QED
  BY <1>3, <1>4, <1>5, <1>6 DEF StepSound

LEMMA DiesSound ==
  ASSUME SentInv, NEW r \in Requests, Dies(r)
  PROVE  StepSound(r) /\ MailTypeInv'
<1>1. UNCHANGED <<box, log, asked, late, unlogged, old, orders, settings>> /\ cut' = cut \cup {r}
  BY DEF Dies, mails
<1>2. req' \in [Requests -> MailCalls] /\ req'[r] = Over /\ \A s \in Requests \ {r} : req'[s] = req[s]
  BY MailEnds, MailMoves DEF Dies, SentInv
<1>3. Touches(r)
  BY <1>1, <1>2 DEF Touches
<1>4. ASSUME NEW m \in asked', m[1] = r PROVE MessageSound(m)'
  <2>1. MessageSound(m) /\ m[1] \in cut'
    BY <1>1, <1>4 DEF SentInv
  <2> QED
    BY <1>1, <2>1, MessageKept
<1>5. \A row \in log' : RowTrue(row)'
  BY <1>1 DEF SentInv, RowTrue
<1>6. MailTypeInv'
  BY <1>1, <1>2 DEF SentInv, MailTypeInv, orders, settings
<1> QED
  BY <1>2, <1>3, <1>4, <1>5, <1>6, OverSound DEF StepSound

\* A message that was not handed over yet has left no copy and no row.
LEMMA NewMessage ==
  ASSUME MailTypeInv, NEW m \in Ids, m \notin asked
  PROVE  Unsent(m) /\ Unrecorded(m)
BY DEF MailTypeInv, Unsent, Unrecorded

LEMMA NewMessageSound ==
  ASSUME MailTypeInv, NEW m \in Ids, m \notin asked, UNCHANGED <<box, log>>, Underway(m)'
  PROVE  MessageSound(m)'
BY NewMessage DEF MessageSound, ByStore, ByPlatform, Unsent, Vias

LEMMA ResolvesSound ==
  ASSUME SentInv, NEW r \in Requests, Resolves(r)
  PROVE  StepSound(r) /\ MailTypeInv'
<1> DEFINE q == req[r]
           m == Id(r)
<1>1. /\ req' \in [Requests -> MailCalls] /\ \A s \in Requests \ {r} : req'[s] = req[s]
      /\ q.op = "mail" /\ q.at = "resolve" /\ req'[r].op = "mail" /\ req'[r].mails = q.mails
      /\ req'[r].at \in {"platform", "store"} /\ asked' = asked \cup {m} /\ Id(r)' = m
      /\ UNCHANGED <<orders, settings, box, log, late, unlogged, old, limits>>
  BY ResolvesMoves DEF SentInv
<1>t. MailTypeInv
  BY DEF SentInv
<1>2. m \in Ids /\ m[1] = r /\ m = <<r, Head(q.mails).event>> /\ q.mails \in Lists
  BY <1>1, <1>t, IdIs, MailFields DEF MailTypeInv
<1>3. m \notin asked /\ \A e \in Rest(q.mails) : <<r, e>> \notin asked /\ e # Head(q.mails).event
  <2>1. \A e \in ToAsk(q) : <<r, e>> \notin asked
    BY DEF SentInv, AskedSound
  <2>2. \A e \in Rest(q.mails) : e # Head(q.mails).event
    BY <1>2, ListFacts DEF Rest, OrderConfirmation, Message
  <2> QED
    BY <1>1, <1>2, <2>1, <2>2 DEF ToAsk
<1>4. Touches(r)
  BY <1>1, <1>2 DEF Touches, limits
<1>5. AskedSound(r)'
  <2>1. ToAsk(req'[r]) = Rest(q.mails)
    BY <1>1 DEF ToAsk
  <2> QED
    BY <1>1, <1>2, <1>3, <2>1 DEF AskedSound
<1>6. StageSound(r)'
  BY <1>1, <1>2, <1>3, <1>t, NewMessage DEF StageSound, Unsent, Unrecorded, StoreTried, Vias
<1>7. ASSUME NEW n \in asked', n[1] = r PROVE MessageSound(n)'
  <2>1. CASE n = m
    <3>1. Underway(n)'
      BY <1>1, <1>2, <2>1 DEF Underway, AtWork
    <3> QED
      BY <1>1, <1>2, <1>3, <1>t, <2>1, <3>1, NewMessageSound
  <2>2. CASE n # m
    <3>1. n \in asked /\ MessageSound(n) /\ ~Underway(n)
      BY <1>1, <1>7, <2>2, NotUnderway DEF SentInv
    <3> QED
      BY <1>1, <1>7, <1>t, <3>1, OwnMessages DEF limits
  <2> QED
    BY <2>1, <2>2
<1>8. \A row \in log' : RowTrue(row)'
  BY <1>1 DEF SentInv, RowTrue
<1>9. MailTypeInv'
  BY <1>1, <1>2, <1>t DEF MailTypeInv, orders, settings
<1> QED
  BY <1>4, <1>5, <1>6, <1>7, <1>8, <1>9 DEF StepSound

\* A step of a sender or a test: at most one copy more, or counted as failed,
\* of the message at work, and the row or the note of it to be written.
Copies(r, via) ==
  /\ req' \in [Requests -> MailCalls] /\ \A s \in Requests \ {r} : req'[s] = req[s]
  /\ AtWork(req[r]) /\ req[r].at # "log" /\ (req[r].at = "verify" => via = "store")
  /\ Id(r)' = Id(r) /\ req'[r].op = req[r].op /\ (req[r].op = "mail" => req'[r].mails = req[r].mails)
  /\ box \subseteq box' /\ box' \subseteq box \cup {<<Id(r), via>>}
  /\ late \subseteq late' /\ late' \subseteq late \cup {<<Id(r), via>>} /\ late' \subseteq box'
  /\ via \in Vias \/ (box' = box /\ late' = late)
  /\ UNCHANGED <<log, asked, unlogged, old, cut>>
  /\ \/ req'[r].at = "log" /\ req'[r].row.m = Id(r) /\ req'[r].row.via = via /\ RowTrue(req[r].row)'
     \/ req[r].op = "test" /\ req'[r].at = "verify" /\ via = "store" /\ <<Id(r), "store">> \in box'
\* The other sender has not the message, or its copy counts as failed.
Room(m, via) ==
  IF via = "store" THEN <<m, "platform">> \notin box /\ Unrecorded(m) ELSE StoreTried(m)

LEMMA CopiesSound ==
  ASSUME SentInv, NEW r \in Requests, NEW via \in Vias \cup {"none"}, Copies(r, via), Room(Id(r), via)
  PROVE  StepSound(r)
<1> DEFINE q == req[r]
           m == Id(r)
<1>t. MailTypeInv
  BY DEF SentInv
<1>1. m \in Ids /\ m[1] = r /\ q \in MailCalls
  BY <1>t, IdIs DEF Copies, AtWork, MailTypeInv
<1>2. AtWork(req'[r]) /\ AtWork(q) /\ q.op \in {"mail", "test"}
  BY DEF Copies, AtWork
<1>3. \A n, v : <<n, v>> # <<m, via>> =>
        (<<n, v>> \in box' <=> <<n, v>> \in box) /\ (<<n, v>> \in late' <=> <<n, v>> \in late)
  BY DEF Copies
<1>4. Touches(r)
  BY <1>1, <1>3 DEF Touches, Copies
<1>5. AskedSound(r)'
  <2>1. Id(r) \in asked /\ \A e \in ToAsk(q) : <<r, e>> \notin asked
    BY <1>2 DEF SentInv, AskedSound
  <2>2. ToAsk(req'[r]) \subseteq ToAsk(q)
    BY DEF Copies, ToAsk, AtWork
  <2> QED
    BY <1>2, <2>1, <2>2 DEF AskedSound, Copies
<1>6. /\ via = "store" => <<m, "platform">> \notin box' /\ Unrecorded(m)'
      /\ via # "store" => StoreTried(m)'
  BY <1>3 DEF Room, Unrecorded, StoreTried, Copies
<1>7. StageSound(r)'
  <2>0. Id(r)' = m /\ req'[r].op \in {"mail", "test"}
    BY <1>2 DEF Copies
  <2>1. CASE req'[r].at = "log" /\ req'[r].row.m = m /\ req'[r].row.via = via /\ RowTrue(req[r].row)'
    <3> DEFINE p == req'[r]
    <3>1. p.at \notin {"store", "send", "platform", "verify"}
      BY <2>1
    <3>2. p.row.m = Id(r)' /\ RowTrue(req[r].row)'
      BY <2>0, <2>1
    <3>3. p.row.via = "store" => <<Id(r)', "platform">> \notin box' /\ Unrecorded(Id(r))'
      BY <1>6, <2>0, <2>1 DEF Unrecorded
    <3>4. p.row.via # "store" => StoreTried(Id(r))'
      BY <1>6, <2>0, <2>1 DEF StoreTried
    <3> QED
      BY <3>1, <3>2, <3>3, <3>4 DEF StageSound
  <2>2. CASE req[r].op = "test" /\ req'[r].at = "verify" /\ via = "store" /\ <<m, "store">> \in box'
    BY <1>6, <2>0, <2>2 DEF StageSound, Copies
  <2> QED
    BY <2>1, <2>2 DEF Copies
<1>8. ASSUME NEW row \in log' PROVE RowTrue(row)'
  <2>1. row \in log /\ RowTrue(row)
    BY DEF Copies, SentInv
  <2>2. row.m = m => row.via # via
    BY <2>1 DEF Room, Unrecorded, StoreTried
  <2>3. <<row.m, row.via>> # <<m, via>>
    BY <2>2
  <2> QED
    BY <1>3, <2>1, <2>3 DEF RowTrue
<1>9. ASSUME NEW n \in asked', n[1] = r PROVE MessageSound(n)'
  <2>0. n \in asked /\ MessageSound(n)
    BY <1>9 DEF SentInv, Copies
  <2>1. CASE n # m
    <3>1. ~Underway(n)
      BY <1>9, <2>1, NotUnderway
    <3>2. \A v \in Vias : (<<n, v>> \in box' <=> <<n, v>> \in box) /\ (<<n, v>> \in late => <<n, v>> \in late')
      BY <1>3, <2>1
    <3>3. unlogged \subseteq unlogged' /\ cut \subseteq cut' /\ old' = old /\ \A row \in log : row \in log' \/ row.m[1] \in old
      BY DEF Copies
    <3> QED
      BY <1>9, <1>t, <2>0, <3>1, <3>2, <3>3, OwnMessages
  <2>2. CASE n = m
    <3>1. Underway(n)'
      BY <1>1, <1>2, <2>2 DEF Underway, Copies
    <3>2. (ByStore(n) /\ ByPlatform(n) => <<n, "store">> \in late)'
      BY <1>3, <2>2 DEF ByStore, ByPlatform, Room, StoreTried, Copies
    <3>3. ASSUME n[1] \notin cut', Logged(n)', NEW v \in Vias, <<n, v>> \in box'
          PROVE  (\E row \in log' : row.m = n /\ row.via = v) \/ Recording(n, v)'
      <4>1. CASE v = via
        BY <1>1, <2>2, <3>1, <4>1 DEF Recording, Copies
      <4>2. CASE v # via
        <5>1. <<n, v>> \in box /\ n[1] \notin cut /\ Logged(n)
          BY <1>3, <2>2, <3>3, <4>2 DEF Copies, Logged
        <5>2. ~Recording(n, v)
          BY <1>1, <2>2, <4>2 DEF Recording, Copies
        <5> QED
          BY <2>0, <5>1, <5>2 DEF MessageSound, Copies
      <4> QED
        BY <4>1, <4>2
    <3> QED
      BY <3>1, <3>2, <3>3 DEF MessageSound
  <2> QED
    BY <2>1, <2>2
<1> QED
  BY <1>4, <1>5, <1>7, <1>8, <1>9 DEF StepSound

LEMMA CopiesTyped ==
  ASSUME SentInv, NEW r \in Requests, NEW via \in Vias \cup {"none"}, Copies(r, via), UNCHANGED <<sold, type>>, own' \in Senders
  PROVE  MailTypeInv'
<1>1. Id(r) \in asked /\ MailTypeInv
  BY DEF SentInv, AskedSound, Copies
<1>2. box' \subseteq asked \X Vias
  BY <1>1 DEF Copies, MailTypeInv
<1> QED
  BY <1>1, <1>2 DEF Copies, MailTypeInv

LEMMA AttemptCopies ==
  ASSUME SentInv, NEW r \in Requests, NEW via \in Vias, Attempt(r, via), <<Id(r), via>> \notin box,
         req' \in [Requests -> MailCalls], \A s \in Requests \ {r} : req'[s] = req[s],
         AtWork(req[r]), req[r].at \notin {"log", "verify"}, req'[r].at = "log",
         Id(r)' = Id(r), req'[r].op = req[r].op, req[r].op = "mail" => req'[r].mails = req[r].mails,
         UNCHANGED <<log, asked, unlogged, old, cut>>
  PROVE  Copies(r, via)
<1> DEFINE c == <<Id(r), via>>
           row == req'[r].row
<1>1. c \notin late /\ late \subseteq box
  BY DEF SentInv, MailTypeInv
<1>2. row.m = Id(r) /\ row.via = via
  BY DEF Attempt
<1>3. \/ row.status = "SENT" /\ box' = box \cup {c} /\ late' = late
      \/ row.status = "FAILED" /\ box' = box /\ late' = late
      \/ row.status = "FAILED" /\ box' = box \cup {c} /\ late' = late \cup {c}
  BY DEF Attempt
<1>4. (c \in box') = (row.status = "SENT" \/ c \in late')
  BY <1>1, <1>3
<1>5. RowTrue(req[r].row)'
  BY <1>2, <1>4 DEF RowTrue
<1>6. box \subseteq box' /\ box' \subseteq box \cup {c} /\ late \subseteq late' /\ late' \subseteq late \cup {c} /\ late' \subseteq box'
  BY <1>1, <1>3
<1> QED
  BY <1>2, <1>5, <1>6 DEF Copies

LEMMA TryRoom ==
  ASSUME SentInv, NEW r \in Requests, NEW via \in Vias,
         \/ req[r].op = "mail" /\ req[r].at = via
         \/ req[r].op = "test" /\ req[r].at = "send" /\ via = req[r].via
  PROVE  Room(Id(r), via) /\ <<Id(r), via>> \notin box /\ AtWork(req[r])
BY DEF SentInv, StageSound, Room, StoreTried, Unsent, Unrecorded, AtWork, Vias

\* The store's sender, then the platform's.
LEMMA SendsSound ==
  ASSUME SentInv, NEW r \in Requests, NEW via \in Vias, TrySend(r, via), req[r].op = "mail", req[r].at = via
  PROVE  StepSound(r) /\ MailTypeInv'
<1>0. MailTypeInv /\ via \in {"store", "platform"}
  BY DEF SentInv, Vias
<1>1. /\ req' \in [Requests -> MailCalls] /\ \A s \in Requests \ {r} : req'[s] = req[s]
      /\ req'[r].op = "mail" /\ req'[r].at = "log" /\ req'[r].mails = req[r].mails
      /\ Attempt(r, via) /\ Id(r)' = Id(r)
      /\ UNCHANGED <<orders, settings, log, asked, unlogged, old, cut>>
  BY <1>0, TrySendMoves
<1>2. Room(Id(r), via) /\ <<Id(r), via>> \notin box /\ AtWork(req[r])
  BY TryRoom
<1>3. Copies(r, via)
  BY <1>0, <1>1, <1>2, AttemptCopies
<1>4. UNCHANGED <<sold, type>> /\ own' \in Senders
  BY <1>0, <1>1 DEF orders, settings, MailTypeInv
<1> QED
  BY <1>2, <1>3, <1>4, CopiesSound, CopiesTyped

LEMMA SkipsSound ==
  ASSUME SentInv, NEW r \in Requests, Skips(r), req[r].op = "mail", req[r].at = "platform"
  PROVE  StepSound(r) /\ MailTypeInv'
<1>1. AtWork(req[r]) /\ StoreTried(Id(r)) /\ MailTypeInv
  BY DEF AtWork, SentInv, StageSound
<1>2. <<Id(r), "none">> \notin box /\ late \subseteq box
  BY <1>1 DEF MailTypeInv, Vias
<1>3. UNCHANGED <<box, log, asked, late, unlogged, old, cut, sold, type, own>>
  BY DEF Skips, mails, limits, orders, settings
<1>4. req'[r].row.m = Id(r) /\ req'[r].row.via = "none" /\ req'[r].row.status = "SKIPPED"
  BY DEF Skips
<1>5. RowTrue(req[r].row)'
  BY <1>2, <1>3, <1>4 DEF RowTrue
<1>6. Copies(r, "none") /\ Room(Id(r), "none")
  BY <1>1, <1>2, <1>3, <1>4, <1>5 DEF Copies, Skips, Room
<1> QED
  BY <1>1, <1>3, <1>6, CopiesSound, CopiesTyped DEF MailTypeInv

LEMMA TestSendsSound ==
  ASSUME SentInv, NEW r \in Requests, SendsTest(r)
  PROVE  StepSound(r) /\ MailTypeInv'
<1> DEFINE q == req[r]
<1>0. MailTypeInv /\ q.op = "test" /\ q.at = "send" /\ q.via \in Vias
  <2>1. MailTypeInv
    BY DEF SentInv
  <2>2. q.op = "test" /\ q.at = "send"
    BY <2>1, SendsTestMoves
  <2> QED
    BY <2>1, <2>2, TestFields DEF MailTypeInv
<1>1. /\ req' \in [Requests -> MailCalls] /\ \A s \in Requests \ {r} : req'[s] = req[s]
      /\ Id(r)' = Id(r) /\ req'[r].op = "test"
      /\ \/ req'[r].at = "verify" /\ q.via = "store" /\ box' = box \cup {<<Id(r), "store">>} /\ late' = late
         \/ req'[r].at = "log" /\ Attempt(r, q.via)
      /\ UNCHANGED <<orders, type, own, platform, plain, doubt, log, asked, unlogged, old, cut>>
  BY <1>0, SendsTestMoves
<1>2. Room(Id(r), q.via) /\ <<Id(r), q.via>> \notin box /\ AtWork(q)
  BY <1>0, TryRoom
<1>3. Copies(r, q.via)
  <2>1. CASE req'[r].at = "log" /\ Attempt(r, q.via)
    BY <1>0, <1>1, <1>2, <2>1, AttemptCopies
  <2>2. CASE req'[r].at = "verify" /\ q.via = "store" /\ box' = box \cup {<<Id(r), "store">>} /\ late' = late
    <3>1. late \subseteq box
      BY <1>0 DEF MailTypeInv
    <3> QED
      BY <1>0, <1>1, <1>2, <2>2, <3>1 DEF Copies
  <2> QED
    BY <1>1, <2>1, <2>2
<1>4. UNCHANGED <<sold, type>> /\ own' \in Senders
  BY <1>0, <1>1 DEF orders, MailTypeInv
<1> QED
  BY <1>0, <1>2, <1>3, <1>4, CopiesSound, CopiesTyped

LEMMA VerifiesSound ==
  ASSUME SentInv, NEW r \in Requests, Verifies(r) \/ VerifyThrows(r)
  PROVE  StepSound(r) /\ MailTypeInv'
<1> DEFINE c == <<Id(r), "store">>
<1>0. MailTypeInv
  BY DEF SentInv
<1>1. /\ req' \in [Requests -> MailCalls] /\ \A s \in Requests \ {r} : req'[s] = req[s]
      /\ req[r].op = "test" /\ req[r].at = "verify" /\ Id(r)' = Id(r) /\ req'[r].op = "test" /\ req'[r].at = "log"
      /\ req'[r].row.m = Id(r) /\ req'[r].row.via = "store"
      /\ \/ req'[r].row.status = "SENT" /\ late' = late
         \/ req'[r].row.status = "FAILED" /\ late' = late \cup {c}
      /\ own' = own \/ own' = [own EXCEPT !.verified = TRUE]
      /\ UNCHANGED <<orders, type, box, log, asked, unlogged, old, cut>>
  BY <1>0, VerifyMoves
<1>2. c \in box /\ <<Id(r), "platform">> \notin box /\ Unrecorded(Id(r)) /\ late \subseteq box
  BY <1>0, <1>1 DEF SentInv, StageSound, MailTypeInv
<1>3. (c \in box') = (req'[r].row.status = "SENT" \/ c \in late')
  BY <1>1, <1>2
<1>4. RowTrue(req[r].row)'
  BY <1>1, <1>3 DEF RowTrue
<1>5. Copies(r, "store") /\ Room(Id(r), "store")
  BY <1>1, <1>2, <1>4 DEF Copies, Room, AtWork, Vias
<1>6. own' \in Senders /\ UNCHANGED <<sold, type>>
  BY <1>0, <1>1 DEF MailTypeInv, Senders, orders
<1> QED
  BY <1>5, <1>6, CopiesSound, CopiesTyped DEF Vias

LEMMA LogsMail ==
  ASSUME MailTypeInv, NEW r \in Requests, req[r].at = "log", r \in InFlight
  PROVE  req[r].op \in {"mail", "test"}
BY DEF MailTypeInv, MailCalls, InFlight

LEMMA LogsSound ==
  ASSUME SentInv, NEW r \in Requests, LogDelivery(r)
  PROVE  StepSound(r) /\ MailTypeInv'
<1> DEFINE q == req[r]
           m == Id(r)
           row == q.row
<1>0. MailTypeInv
  BY DEF SentInv
<1>1. q.op \in {"mail", "test"} /\ q \in MailCalls
  BY <1>0, LogsMail DEF LogDelivery, MailTypeInv
<1>2. /\ req' \in [Requests -> MailCalls] /\ \A s \in Requests \ {r} : req'[s] = req[s]
      /\ q.at = "log" /\ row \in LogRows
      /\ \/ (log' = log \cup {row} \/ log' = Kept(log) \cup {row}) /\ unlogged' = unlogged
         \/ unlogged' = unlogged \cup {row.m} /\ log' = log
      /\ \/ /\ FallsBack(q) /\ Id(r)' = m
            /\ req'[r].op = "mail" /\ req'[r].at = "platform" /\ req'[r].mails = q.mails
         \/ ~FallsBack(q) /\ req'[r] = Over
         \/ /\ ~FallsBack(q) /\ q.op = "mail" /\ q.mails = Both
            /\ req'[r] = [op |-> "mail", at |-> "resolve", mails |-> <<NewOrderToOwner>>, row |-> NoRow]
      /\ UNCHANGED <<orders, settings, box, asked, late, old, cut>>
  BY <1>0, <1>1, LogMoves
<1>3. m \in Ids /\ m[1] = r /\ (q.op = "test" => m[2] = "test") /\ m \in asked
  BY <1>1, <1>2, IdIs DEF SentInv, AskedSound, AtWork
<1>4. /\ row.m = m /\ RowTrue(row)
      /\ row.via = "store" => <<m, "platform">> \notin box /\ Unrecorded(m)
      /\ row.via # "store" => StoreTried(m)
  BY <1>1, <1>2 DEF SentInv, StageSound
<1>5. Kept(log) \subseteq log /\ \A k \in log : k \in Kept(log) \/ k.m[1] \in old
  BY DEF Kept
<1>6. /\ log' \subseteq log \cup {row} /\ unlogged \subseteq unlogged'
      /\ \A k \in log : k \in log' \/ k.m[1] \in old
      /\ m \notin unlogged' => row \in log'
  BY <1>2, <1>4, <1>5
<1>7. Touches(r)
  BY <1>2, <1>3, <1>4, <1>6 DEF Touches
<1>8. \A k \in log' : RowTrue(k)'
  BY <1>2, <1>4, <1>6 DEF SentInv, RowTrue
<1>9. AskedSound(r)' /\ StageSound(r)'
  <2>1. CASE FallsBack(q) /\ Id(r)' = m /\ req'[r].op = "mail" /\ req'[r].at = "platform" /\ req'[r].mails = q.mails
    <3>1. q.op = "mail" /\ row.status = "FAILED" /\ row.via = "store"
      BY <2>1 DEF FallsBack
    <3>2. ToAsk(req'[r]) = ToAsk(q)
      BY <1>2, <2>1, <3>1 DEF ToAsk
    <3>3. AskedSound(r)'
      BY <1>2, <1>3, <2>1, <3>2 DEF SentInv, AskedSound, AtWork
    <3>4. <<m, "store">> \in box => <<m, "store">> \in late
      BY <1>4, <3>1 DEF RowTrue
    <3>5. \A k \in log' : k.m = m => k.via = "store"
      BY <1>4, <1>6, <3>1 DEF Unrecorded
    <3>6. StageSound(r)'
      BY <1>2, <1>4, <2>1, <3>1, <3>4, <3>5 DEF StageSound, StoreTried
    <3> QED
      BY <3>3, <3>6
  <2>2. CASE req'[r] = Over
    BY <2>2, OverSound
  <2>3. CASE q.op = "mail" /\ q.mails = Both
             /\ req'[r] = [op |-> "mail", at |-> "resolve", mails |-> <<NewOrderToOwner>>, row |-> NoRow]
    <3>1. <<NewOrderToOwner>> # Both /\ Head(<<NewOrderToOwner>>).event = "new_order_owner"
      BY DEF Both, NewOrderToOwner, Message
    <3>2. ToAsk(req'[r]) = {"new_order_owner"} /\ "new_order_owner" \in ToAsk(q)
      BY <2>3, <3>1 DEF ToAsk, Rest
    <3>3. AskedSound(r)'
      BY <1>2, <2>3, <3>2 DEF SentInv, AskedSound, AtWork
    <3>4. StageSound(r)'
      BY <2>3 DEF StageSound
    <3> QED
      BY <3>3, <3>4
  <2> QED
    BY <1>2, <2>1, <2>2, <2>3
<1>10. ASSUME NEW n \in asked', n[1] = r PROVE MessageSound(n)'
  <2>0. n \in asked /\ MessageSound(n)
    BY <1>2, <1>10 DEF SentInv
  <2>1. CASE n # m
    <3>1. ~Underway(n)
      BY <1>10, <2>1, NotUnderway
    <3> QED
      BY <1>0, <1>2, <1>6, <1>10, <2>0, <3>1, OwnMessages
  <2>2. CASE n = m
    <3>1. (ByStore(n) /\ ByPlatform(n) => <<n, "store">> \in late)'
      BY <1>2, <2>0 DEF MessageSound, ByStore, ByPlatform
    <3>2. ASSUME n[1] \notin cut', Logged(n)'
          PROVE  n[1] \notin cut /\ Logged(n) /\ row \in log' /\ n[1] \notin old
      BY <1>2, <1>6, <2>2, <3>2 DEF Logged
    <3>3. ASSUME n[1] \notin cut', Logged(n)', ~Underway(n)', ~ByStore(n)', ~ByPlatform(n)'
          PROVE  row.m = n /\ row.status # "SENT" /\ (row.via # "store" \/ n[2] = "test")
      <4>1. ~FallsBack(q)
        BY <1>2, <1>3, <2>2, <3>3 DEF Underway, AtWork
      <4>2. <<row.m, row.via>> \notin box
        BY <1>0, <1>2, <1>4, <2>2, <3>3 DEF ByStore, ByPlatform, MailTypeInv, Vias
      <4>3. row.status # "SENT"
        BY <1>4, <4>2 DEF RowTrue
      <4>4. row.via = "store" => row.status = "FAILED"
        BY <1>2, <4>3 DEF LogRows
      <4> QED
        BY <1>1, <1>3, <1>4, <2>2, <4>1, <4>3, <4>4 DEF FallsBack
    <3>4. ASSUME n[1] \notin cut', Logged(n)', NEW v \in Vias, <<n, v>> \in box'
          PROVE  \E k \in log' : k.m = n /\ k.via = v
      <4>1. (\E k \in log : k.m = n /\ k.via = v) \/ Recording(n, v)
        BY <1>2, <2>0, <3>2, <3>4 DEF MessageSound
      <4>2. Recording(n, v) => row.via = v
        BY <1>2, <1>3, <2>2 DEF Recording
      <4> QED
        BY <1>4, <1>6, <2>2, <3>2, <3>4, <4>1, <4>2
    <3> QED
      BY <3>1, <3>2, <3>3, <3>4 DEF MessageSound
  <2> QED
    BY <2>1, <2>2
<1>11. MailTypeInv'
  BY <1>0, <1>2, <1>3, <1>4, <1>6 DEF MailTypeInv, orders, settings
<1> QED
  BY <1>7, <1>8, <1>9, <1>10, <1>11 DEF StepSound

LEMMA TestStarts ==
  ASSUME SentInv, NEW r \in Requests, TestsSender(r) \/ TestsPlatform(r)
  PROVE  StepSound(r) /\ MailTypeInv'
<1> DEFINE m == <<r, "test">>
<1>0. MailTypeInv
  BY DEF SentInv
<1>1. /\ req' \in [Requests -> MailCalls] /\ \A s \in Requests \ {r} : req'[s] = req[s]
      /\ req[r] = Idle /\ UNCHANGED <<orders, type, own, tested, doubt, box, log, late, unlogged, old, cut>>
      /\ \/ req'[r] = Over /\ asked' = asked
         \/ req'[r].op = "test" /\ req'[r].at = "send" /\ asked' = asked \cup {m}
  BY <1>0, TestMoves
<1>2. \A e \in Events \cup {"test"} : <<r, e>> \notin asked
  BY <1>1 DEF SentInv, AskedSound, Idle
<1>3. m \in Ids /\ m \notin asked
  BY <1>2 DEF Ids
<1>4. \A row \in log' : RowTrue(row)'
  BY <1>1 DEF SentInv, RowTrue
<1>5. MailTypeInv'
  BY <1>0, <1>1, <1>3 DEF MailTypeInv, orders
<1>6. Touches(r)
  BY <1>1 DEF Touches
<1>7. CASE req'[r] = Over /\ asked' = asked
  <2>1. \A n \in asked' : n[1] # r
    BY <1>0, <1>2, <1>7 DEF MailTypeInv, Ids
  <2> QED
    BY <1>4, <1>5, <1>6, <1>7, <2>1, OverSound DEF StepSound
<1>8. CASE req'[r].op = "test" /\ req'[r].at = "send" /\ asked' = asked \cup {m}
  <2>1. Id(r)' = m
    BY <1>8 DEF Id
  <2>2. Unsent(m)' /\ Unrecorded(m)'
    BY <1>0, <1>1, <1>3, NewMessage DEF Unsent, Unrecorded
  <2>3. AskedSound(r)'
    BY <1>8, <2>1 DEF AskedSound, ToAsk
  <2>4. StageSound(r)'
    BY <1>8, <2>1, <2>2 DEF StageSound, Unsent, Unrecorded
  <2>5. ASSUME NEW n \in asked', n[1] = r PROVE MessageSound(n)'
    <3>1. n = m
      BY <1>0, <1>2, <1>8, <2>5 DEF MailTypeInv, Ids
    <3>2. Underway(n)'
      BY <1>8, <2>1, <3>1 DEF Underway, AtWork
    <3> QED
      BY <1>0, <1>1, <1>3, <3>1, <3>2, NewMessageSound
  <2> QED
    BY <1>4, <1>5, <1>6, <2>3, <2>4, <2>5 DEF StepSound
<1> QED
  BY <1>1, <1>7, <1>8

LEMMA QuietTyped ==
  ASSUME MailTypeInv, NEW r \in Requests, QuietStep(r), own' \in Senders,
         sold' \in [status : Stages, payment : {"unpaid", "paid", "refunded"}]
  PROVE  MailTypeInv'
BY DEF QuietStep, MailTypeInv, mails

\* Every step of a request but those of its messages.
Quiet(r) ==
  \/ PaysOff(r) \/ MovesOrder(r) \/ RefundFlips(r) \/ StoresSender(r)
  \/ \E m \in Alone : Writes(r, m)
  \/ \E db \in BOOLEAN : SavesPlatform(r, db)
  \/ \E host \in Hosts, pass \in Passwords \cup {0}, on \in BOOLEAN : SavesSender(r, host, pass, on)
  \/ \E to \in Statuses : AsksOrder(r, to)

LEMMA QuietTyping ==
  ASSUME MailTypeInv, NEW r \in Requests, Quiet(r)
  PROVE  QuietStep(r) /\ MailTypeInv'
<1> DEFINE Sold == [status : Stages, payment : {"unpaid", "paid", "refunded"}]
<1>0. sold \in Sold /\ own \in Senders /\ req[r] \in MailCalls
  BY DEF MailTypeInv
<1>1. CASE PaysOff(r)
  <2>1. QuietStep(r) /\ req[r].op = "pays" /\ own' = own
    BY <1>1, PaysOffMoves DEF settings
  <2>2. "CONFIRMED" \in Stages /\ req[r].saw \in Stages
    BY <1>0, <2>1, WriterFields DEF Stages
  <2>3. sold' = sold \/ \E to \in {"CONFIRMED", req[r].saw} : sold' = [payment |-> "paid", status |-> to]
    BY <1>1, PaysOffMoves
  <2>4. sold' \in Sold
    BY <1>0, <2>2, <2>3
  <2> QED
    BY <1>0, <2>1, <2>4, QuietTyped
<1>2. CASE MovesOrder(r)
  <2>1. QuietStep(r) /\ own' = own /\ req[r].to \in Statuses /\ sold' = [sold EXCEPT !.status = req[r].to]
    BY <1>2, MovesOrderMoves DEF settings, Moves
  <2>2. sold' \in Sold
    BY <1>0, <2>1 DEF Stages
  <2> QED
    BY <1>0, <2>1, <2>2, QuietTyped
<1>3. CASE RefundFlips(r)
  <2>1. QuietStep(r) /\ own' = own /\ (sold' = sold \/ sold' = [payment |-> "refunded", status |-> "REFUNDED"])
    BY <1>3, RefundFlipsMoves DEF settings
  <2>2. sold' \in Sold
    BY <1>0, <2>1 DEF Stages
  <2> QED
    BY <1>0, <2>1, <2>2, QuietTyped
<1>4. CASE StoresSender(r)
  <2>1. QuietStep(r) /\ own' \in Senders /\ sold' = sold
    BY <1>4, StoresSenderMoves DEF orders
  <2> QED
    BY <1>0, <2>1, QuietTyped
<1>5. ASSUME NEW m \in Alone, Writes(r, m) PROVE QuietStep(r) /\ MailTypeInv'
  <2>1. QuietStep(r) /\ own' = own /\ sold' = sold
    BY <1>5, WritesMoves DEF orders
  <2> QED
    BY <1>0, <2>1, QuietTyped
<1>6. ASSUME NEW db \in BOOLEAN, SavesPlatform(r, db) PROVE QuietStep(r) /\ MailTypeInv'
  <2>1. QuietStep(r) /\ own' = own /\ sold' = sold
    BY <1>6, SavesPlatformMoves DEF orders
  <2> QED
    BY <1>0, <2>1, QuietTyped
<1>7. ASSUME NEW host \in Hosts, NEW pass \in Passwords \cup {0}, NEW on \in BOOLEAN, SavesSender(r, host, pass, on)
      PROVE  QuietStep(r) /\ MailTypeInv'
  <2>1. QuietStep(r) /\ own' = own /\ sold' = sold
    BY <1>7, SavesSenderMoves DEF orders
  <2> QED
    BY <1>0, <2>1, QuietTyped
<1>8. ASSUME NEW to \in Statuses, AsksOrder(r, to) PROVE QuietStep(r) /\ MailTypeInv'
  <2>1. QuietStep(r) /\ own' = own /\ sold' = sold
    BY <1>8, OrderAsksMoves
  <2> QED
    BY <1>0, <2>1, QuietTyped
<1> QED
  BY <1>1, <1>2, <1>3, <1>4, <1>5, <1>6, <1>7, <1>8 DEF Quiet

LEMMA MailNextIs ==
  ASSUME MailNext
  PROVE  \/ \E r \in Requests :
              \/ Quiet(r) \/ Resolves(r) \/ SendsByStore(r) \/ SendsByPlatform(r) \/ LogDelivery(r)
              \/ SendsTest(r) \/ Verifies(r) \/ VerifyThrows(r) \/ Dies(r) \/ TestsSender(r) \/ TestsPlatform(r)
         \/ SwitchesType \/ Ages
<1>1. ASSUME NEW r \in Requests, Goes(r) \/ AsksMail(r) \/ \E to \in Statuses : AsksOrder(r, to)
      PROVE  \/ Quiet(r) \/ Resolves(r) \/ SendsByStore(r) \/ SendsByPlatform(r) \/ LogDelivery(r)
             \/ SendsTest(r) \/ Verifies(r) \/ VerifyThrows(r) \/ Dies(r) \/ TestsSender(r) \/ TestsPlatform(r)
  BY <1>1 DEF Goes, AsksMail, Quiet, Alone
<1> QED
  BY <1>1 DEF MailNext

\* Nobody's step: the type changes, months pass, or nothing happens.
LEMMA SentStays ==
  ASSUME SentInv, UNCHANGED <<req, own, sold, box, log, asked, late, unlogged, cut>>, old \subseteq old',
         type' \in {"INDEPENDENT", "MARKETPLACE"}
  PROVE  SentInv'
<1>1. MailTypeInv'
  BY DEF SentInv, MailTypeInv
<1>2. \A row \in log' : RowTrue(row)'
  BY DEF SentInv, RowTrue
<1>3. \A r \in Requests : Id(r)' = Id(r)
  BY DEF Id
<1>4. ASSUME NEW m \in asked' PROVE MessageSound(m)'
  <2>1. MessageSound(m)
    BY DEF SentInv
  <2>2. m[1] \in Requests
    BY DEF SentInv, MailTypeInv, Ids
  <2>3. (Underway(m) => Underway(m)') /\ \A via \in Vias : Recording(m, via) => Recording(m, via)'
    BY <1>3, <2>2 DEF Underway, Recording
  <2> QED
    BY <2>1, <2>3, MessageKept
<1>5. ASSUME NEW r \in Requests PROVE AskedSound(r)' /\ StageSound(r)'
  <2>1. AskedSound(r) /\ StageSound(r)
    BY DEF SentInv
  <2>2. AskedSound(r)'
    BY <1>3, <2>1 DEF AskedSound
  <2>3. /\ Unsent(Id(r))' = Unsent(Id(r)) /\ Unrecorded(Id(r))' = Unrecorded(Id(r)) /\ StoreTried(Id(r))' = StoreTried(Id(r))
        /\ RowTrue(req[r].row)' = RowTrue(req[r].row)
    BY <1>3 DEF Unsent, Unrecorded, StoreTried, RowTrue
  <2>4. StageSound(r)'
    BY <1>3, <2>1, <2>3 DEF StageSound
  <2> QED
    BY <2>2, <2>4
<1> QED
  BY <1>1, <1>2, <1>4, <1>5 DEF SentInv

LEMMA SentNext ==
  ASSUME SentInv, [MailNext]_<<req, varsM>>
  PROVE  SentInv'
<1>0. MailTypeInv
  BY DEF SentInv
<1>1. ASSUME NEW r \in Requests, Quiet(r) PROVE SentInv'
  BY <1>0, <1>1, QuietTyping, QuietSound, StepKeeps
<1>2. ASSUME NEW r \in Requests, Resolves(r) \/ LogDelivery(r) \/ Dies(r) PROVE SentInv'
  BY <1>2, ResolvesSound, LogsSound, DiesSound, StepKeeps
<1>3. ASSUME NEW r \in Requests, SendsByStore(r) PROVE SentInv'
  <2>1. req[r].op = "mail" /\ req[r].at = "store" /\ TrySend(r, "store")
    BY <1>3 DEF SendsByStore, At
  <2> QED
    BY <2>1, SendsSound, StepKeeps DEF Vias
<1>4. ASSUME NEW r \in Requests, SendsByPlatform(r) PROVE SentInv'
  <2>1. req[r].op = "mail" /\ req[r].at = "platform" /\ (TrySend(r, "platform") \/ Skips(r))
    BY <1>0, <1>4, PlatformMoves
  <2> QED
    BY <2>1, SendsSound, SkipsSound, StepKeeps DEF Vias
<1>5. ASSUME NEW r \in Requests, SendsTest(r) \/ Verifies(r) \/ VerifyThrows(r) PROVE SentInv'
  BY <1>5, TestSendsSound, VerifiesSound, StepKeeps
<1>6. ASSUME NEW r \in Requests, TestsSender(r) \/ TestsPlatform(r) PROVE SentInv'
  BY <1>6, TestStarts, StepKeeps
<1>7. CASE SwitchesType
  <2>1. /\ UNCHANGED <<req, own, sold, box, log, asked, late, unlogged, cut, old>>
        /\ type' \in {"INDEPENDENT", "MARKETPLACE"}
    BY <1>7 DEF SwitchesType, orders, mails, limits
  <2> QED
    BY <2>1, SentStays
<1>8. CASE Ages
  <2>1. /\ UNCHANGED <<req, own, sold, box, log, asked, late, unlogged, cut, type>> /\ old \subseteq old'
    BY <1>8 DEF Ages, orders, settings, limits
  <2> QED
    BY <1>0, <2>1, SentStays DEF MailTypeInv
<1>9. CASE UNCHANGED <<req, varsM>>
  <2>1. UNCHANGED <<req, own, sold, box, log, asked, late, unlogged, cut, type, old>>
    BY <1>9 DEF varsM, orders, settings, mails, limits
  <2> QED
    BY <1>0, <2>1, SentStays DEF MailTypeInv
<1> QED
  BY <1>1, <1>2, <1>3, <1>4, <1>5, <1>6, <1>7, <1>8, <1>9, MailNextIs

-------------------------------------------------------------------------------
(* The mails: the settings, and the store met as a marketplace store.        *)

SettingsInv == VerifiedPassword /\ \A r \in Requests : PlainSound(r) /\ TestSound(r)
\* A step of r that leaves what others have seen of the type.
OwnStep(r) ==
  /\ Touches(r) /\ type' = type /\ tested \subseteq tested'
  /\ \A s \in plain' : s = r \/ s \in plain
  /\ PlainSound(r)' /\ TestSound(r)' /\ VerifiedPassword'

LEMMA OwnKeeps ==
  ASSUME SettingsInv, MailTypeInv, MailTypeInv', NEW r \in Requests, OwnStep(r)
  PROVE  SettingsInv'
<1>1. ASSUME NEW s \in Requests \ {r} PROVE PlainSound(s)' /\ TestSound(s)'
  <2>1. req'[s] = req[s] /\ PlainSound(s) /\ TestSound(s) /\ type' = type /\ tested \subseteq tested'
    BY DEF OwnStep, Touches, SettingsInv
  <2>2. \A e \in Events \cup {"test"} : <<<<s, e>>, "store">> \in box' => <<<<s, e>>, "store">> \in box
    BY DEF OwnStep, Touches, Ids, Vias
  <2>3. s \in plain' => s \in plain
    BY DEF OwnStep
  <2>4. PlainSound(s)'
    BY <2>1, <2>2, <2>3 DEF PlainSound, InFlight
  <2> QED
    BY <2>1, <2>4 DEF TestSound
<1> QED
  BY <1>1 DEF SettingsInv, OwnStep

\* A request that arrives, and has met the store as it is.
LEMMA ArrivesOwn ==
  ASSUME SentInv, SettingsInv, NEW r \in Requests, Touches(r), req[r] = Idle, Arrived(r),
         UNCHANGED <<type, own, tested, doubt, box>>, req'[r].op # "idle",
         req'[r].op = "mail" => req'[r].at = "resolve",
         req'[r].op = "test" /\ req'[r].via = "store" =>
           type = "INDEPENDENT" /\ req'[r].at = "send" /\ req'[r].host \in Hosts
  PROVE  OwnStep(r)
<1>1. \A e \in Events \cup {"test"} : <<<<r, e>>, "store">> \notin box
  <2>1. \A e \in Events \cup {"test"} : <<r, e>> \notin asked
    BY DEF SentInv, AskedSound, Idle
  <2> QED
    BY <2>1 DEF SentInv, MailTypeInv
<1>2. r \notin plain
  BY DEF SettingsInv, PlainSound
<1>3. r \in plain' => type = "MARKETPLACE"
  BY <1>2 DEF Arrived
<1>4. PlainSound(r)'
  BY <1>1, <1>3 DEF PlainSound, Idle
<1>5. TestSound(r)' /\ VerifiedPassword'
  BY DEF TestSound, SettingsInv, VerifiedPassword
<1> QED
  BY <1>4, <1>5 DEF OwnStep, Arrived

\* A request that goes on; one that met a marketplace store stays with it.
LEMMA GoesOwn ==
  ASSUME SentInv, SettingsInv, NEW r \in Requests, Touches(r), req[r] \notin {Idle, Over},
         UNCHANGED <<type, plain>>, tested \subseteq tested', req'[r].op # "idle",
         req'[r].op = "mail" /\ req'[r].at = "store" => HasSender,
         req'[r].op = "test" => req[r].op = "test" /\ req'[r].via = req[r].via /\ req'[r].host = req[r].host,
         box' = box \/ \E via \in Vias : /\ box' \subseteq box \cup {<<Id(r), via>>}
                                         /\ \/ req[r].op = "mail" /\ req[r].at = via
                                            \/ req[r].op = "test" /\ req[r].via = via,
         req'[r].op = "test" /\ req'[r].at = "verify" => <<req[r].host, req'[r].pass>> \in tested',
         VerifiedPassword'
  PROVE  OwnStep(r)
<1>1. TestSound(r)'
  BY DEF SettingsInv, TestSound
<1>2. PlainSound(r) /\ (r \in plain' => r \in plain) /\ r \in InFlight
  BY DEF SettingsInv, InFlight
<1>3. ASSUME r \in plain
      PROVE  /\ req'[r] # Idle /\ type' = "MARKETPLACE"
             /\ ~(req'[r].op = "mail" /\ req'[r].at = "store") /\ ~(req'[r].op = "test" /\ req'[r].via = "store")
             /\ \A e \in Events \cup {"test"} : <<<<r, e>>, "store">> \notin box'
  <2>1. /\ type = "MARKETPLACE" /\ ~(req[r].op = "mail" /\ req[r].at = "store") /\ ~(req[r].op = "test" /\ req[r].via = "store")
        /\ \A e \in Events \cup {"test"} : <<<<r, e>>, "store">> \notin box
    BY <1>2, <1>3 DEF PlainSound
  <2>2. ~HasSender
    BY <2>1 DEF HasSender
  <2>3. \A e \in Events \cup {"test"} : <<<<r, e>>, "store">> \notin box'
    BY <2>1
  <2> QED
    BY <2>1, <2>2, <2>3 DEF Idle
<1>4. PlainSound(r)'
  BY <1>2, <1>3 DEF PlainSound
<1> QED
  BY <1>1, <1>4 DEF OwnStep

LEMMA QuietOwn ==
  ASSUME SentInv, SettingsInv, NEW r \in Requests, Quiet(r)
  PROVE  OwnStep(r)
<1>0. MailTypeInv
  BY DEF SentInv
<1>1. QuietStep(r) /\ Touches(r) /\ type' = type /\ box' = box
  BY <1>0, QuietTyping, QuietSound DEF StepSound, QuietStep, mails
<1>2. /\ req'[r].op # "idle" /\ req'[r].op # "test"
      /\ req'[r].op = "mail" => req'[r].at = "resolve"
  BY <1>1 DEF QuietStep, Early, Over
<1>3. ASSUME req[r] = Idle, Arrived(r), UNCHANGED <<own, tested, doubt>> PROVE OwnStep(r)
  BY <1>1, <1>2, <1>3, ArrivesOwn
<1>4. ASSUME req[r].op \in {"pays", "sets", "refunds", "save"}, UNCHANGED <<plain, tested>>, VerifiedPassword'
      PROVE  OwnStep(r)
  <2>1. req[r] \notin {Idle, Over}
    BY <1>4 DEF Idle, Over
  <2> QED
    BY <1>1, <1>2, <1>4, <2>1, GoesOwn
<1>5. CASE PaysOff(r) \/ MovesOrder(r) \/ RefundFlips(r)
  <2>1. req[r].op \in {"pays", "sets", "refunds"} /\ UNCHANGED settings
    BY <1>0, <1>5, PaysOffMoves, MovesOrderMoves, RefundFlipsMoves
  <2>2. VerifiedPassword'
    BY <2>1 DEF settings, SettingsInv, VerifiedPassword
  <2> QED
    BY <1>4, <2>1, <2>2 DEF settings
<1>6. CASE StoresSender(r)
  <2>1. /\ req[r].op = "save" /\ UNCHANGED <<plain, tested>>
        /\ own'.verified => own.verified /\ own'.pass = own.pass /\ doubt' = doubt
    BY <1>0, <1>6, StoresSenderMoves
  <2>2. VerifiedPassword'
    BY <2>1 DEF SettingsInv, VerifiedPassword
  <2> QED
    BY <1>4, <2>1, <2>2
<1>7. ASSUME NEW m \in Alone, Writes(r, m) PROVE OwnStep(r)
  BY <1>0, <1>3, <1>7, WritesMoves
<1>8. ASSUME NEW db \in BOOLEAN, SavesPlatform(r, db) PROVE OwnStep(r)
  BY <1>0, <1>3, <1>8, SavesPlatformMoves
<1>9. ASSUME NEW host \in Hosts, NEW pass \in Passwords \cup {0}, NEW on \in BOOLEAN, SavesSender(r, host, pass, on)
      PROVE  OwnStep(r)
  BY <1>0, <1>3, <1>9, SavesSenderMoves
<1>10. ASSUME NEW to \in Statuses, AsksOrder(r, to) PROVE OwnStep(r)
  BY <1>0, <1>3, <1>10, OrderAsksMoves
<1> QED
  BY <1>5, <1>6, <1>7, <1>8, <1>9, <1>10 DEF Quiet

LEMMA TestStartsOwn ==
  ASSUME SentInv, SettingsInv, NEW r \in Requests, TestsSender(r) \/ TestsPlatform(r)
  PROVE  OwnStep(r)
<1>0. MailTypeInv
  BY DEF SentInv
<1>1. /\ req[r] = Idle /\ Arrived(r) /\ UNCHANGED <<type, own, tested, doubt, box>>
      /\ \/ req'[r] = Over
         \/ /\ req'[r].op = "test" /\ req'[r].at = "send"
            /\ req'[r].via = "store" => type = "INDEPENDENT" /\ req'[r].host \in Hosts
  BY <1>0, TestMoves
<1>2. Touches(r)
  BY TestStarts DEF StepSound
<1> QED
  BY <1>1, <1>2, ArrivesOwn DEF Over

\* A mail goes on; the settings stand.
LEMMA MailGoesOwn ==
  ASSUME SentInv, SettingsInv, NEW r \in Requests,
         Resolves(r) \/ SendsByStore(r) \/ SendsByPlatform(r) \/ LogDelivery(r) \/ Dies(r)
  PROVE  OwnStep(r)
<1>0. MailTypeInv
  BY DEF SentInv
<1>1. ASSUME UNCHANGED settings, Touches(r), req[r] \notin {Idle, Over},
             req'[r] = Over \/ req'[r].op = "mail", req'[r].op = "mail" /\ req'[r].at = "store" => HasSender,
             box' = box \/ \E via \in Vias : /\ box' \subseteq box \cup {<<Id(r), via>>}
                                             /\ req[r].op = "mail" /\ req[r].at = via
      PROVE  OwnStep(r)
  <2>1. UNCHANGED <<type, own, plain, tested, doubt>>
    BY <1>1 DEF settings
  <2>2. VerifiedPassword'
    BY <2>1 DEF SettingsInv, VerifiedPassword
  <2>3. req'[r].op \notin {"idle", "test"}
    BY <1>1 DEF Over
  <2> QED
    BY <1>1, <2>1, <2>2, <2>3, GoesOwn
<1>2. CASE Resolves(r)
  <2>1. Touches(r)
    BY <1>2, ResolvesSound DEF StepSound
  <2> QED
    BY <1>0, <1>1, <1>2, <2>1, ResolvesMoves DEF Idle, Over
<1>3. ASSUME NEW via \in Vias, TrySend(r, via), req[r].op = "mail", req[r].at = via PROVE OwnStep(r)
  <2>1. Touches(r)
    BY <1>3, SendsSound DEF StepSound
  <2>2. req[r].at \in {"store", "platform"}
    BY <1>3 DEF Vias
  <2>3. req'[r].op = "mail" /\ req'[r].at = "log" /\ Attempt(r, via) /\ UNCHANGED settings
    BY <1>0, <1>3, <2>2, TrySendMoves
  <2>4. box' = box \/ box' \subseteq box \cup {<<Id(r), via>>}
    BY <2>3 DEF Attempt
  <2> QED
    BY <1>1, <1>3, <2>1, <2>3, <2>4 DEF Idle, Over
<1>4. CASE SendsByStore(r)
  BY <1>3, <1>4 DEF SendsByStore, At, Vias
<1>5. CASE SendsByPlatform(r)
  <2>1. req[r].op = "mail" /\ req[r].at = "platform" /\ (TrySend(r, "platform") \/ Skips(r))
    BY <1>0, <1>5, PlatformMoves
  <2>2. ASSUME Skips(r) PROVE OwnStep(r)
    <3>1. Touches(r)
      BY <2>1, <2>2, SkipsSound DEF StepSound
    <3>2. req'[r].op = "mail" /\ req'[r].at = "log" /\ UNCHANGED settings /\ box' = box
      BY <2>2 DEF Skips, mails
    <3> QED
      BY <1>1, <2>1, <3>1, <3>2 DEF Idle, Over
  <2> QED
    BY <1>3, <2>1, <2>2 DEF Vias
<1>6. CASE LogDelivery(r)
  <2>1. Touches(r)
    BY <1>6, LogsSound DEF StepSound
  <2>2. req[r].op \in {"mail", "test"}
    BY <1>0, <1>6, LogsMail DEF LogDelivery
  <2>3. /\ UNCHANGED settings /\ box' = box
        /\ req'[r] = Over \/ (req'[r].op = "mail" /\ req'[r].at \in {"platform", "resolve"})
    BY <1>0, <1>6, <2>2, LogMoves
  <2> QED
    BY <1>1, <2>1, <2>2, <2>3 DEF Idle, Over
<1>7. CASE Dies(r)
  <2>1. Touches(r)
    BY <1>7, DiesSound DEF StepSound
  <2>2. req[r] \notin {Idle, Over} /\ UNCHANGED settings /\ box' = box /\ Ends(r)
    BY <1>7 DEF Dies, InFlight, mails
  <2>3. req'[r] = Over
    BY <1>0, <2>2, MailEnds, MailMoves
  <2> QED
    BY <1>1, <2>1, <2>2, <2>3 DEF Over
<1> QED
  BY <1>2, <1>4, <1>5, <1>6, <1>7

\* A test sends, and is noted: verified says that this password was tried.
LEMMA TestGoesOwn ==
  ASSUME SentInv, SettingsInv, NEW r \in Requests, SendsTest(r) \/ Verifies(r) \/ VerifyThrows(r)
  PROVE  OwnStep(r)
<1>0. MailTypeInv
  BY DEF SentInv
<1>1. CASE SendsTest(r)
  <2>1. Touches(r)
    BY <1>1, TestSendsSound DEF StepSound
  <2>2. /\ req[r].op = "test" /\ req'[r].op = "test" /\ req'[r].via = req[r].via
        /\ req'[r].host = req[r].host /\ req'[r].pass = req[r].pass
        /\ \/ /\ req'[r].at = "verify" /\ req[r].via = "store" /\ tested' = tested \cup {<<req[r].host, req[r].pass>>}
              /\ box' = box \cup {<<Id(r), "store">>}
           \/ req'[r].at = "log" /\ Attempt(r, req[r].via) /\ tested' = tested
        /\ UNCHANGED <<type, own, plain, doubt>>
    BY <1>0, <1>1, SendsTestMoves
  <2>3. req[r].via \in Vias
    BY <1>0, <2>2, TestFields DEF MailTypeInv
  <2>4. box' \subseteq box \cup {<<Id(r), req[r].via>>}
    BY <2>2 DEF Attempt
  <2>5. tested \subseteq tested' /\ (req'[r].at = "verify" => <<req[r].host, req'[r].pass>> \in tested')
    BY <2>2
  <2>6. VerifiedPassword'
    BY <2>2, <2>5 DEF SettingsInv, VerifiedPassword
  <2> QED
    BY <2>1, <2>2, <2>3, <2>4, <2>5, <2>6, GoesOwn DEF Idle, Over
<1>2. CASE Verifies(r) \/ VerifyThrows(r)
  <2>1. Touches(r)
    BY <1>2, VerifiesSound DEF StepSound
  <2>2. /\ req[r].op = "test" /\ req[r].at = "verify" /\ req[r].via = "store"
        /\ req'[r].op = "test" /\ req'[r].at = "log" /\ req'[r].via = "store" /\ req'[r].host = req[r].host
        /\ \/ own' = [own EXCEPT !.verified = TRUE] /\ doubt' = (own.pass # req[r].pass)
           \/ own' = own /\ doubt' = doubt
        /\ UNCHANGED <<type, plain, tested, box>>
    BY <1>0, <1>2, VerifyMoves
  <2>3. req[r].host \in Hosts /\ <<req[r].host, req[r].pass>> \in tested
    BY <2>2 DEF SettingsInv, TestSound
  <2>4. own'.pass = own.pass
    BY <1>0, <2>2 DEF MailTypeInv, Senders
  <2>5. VerifiedPassword'
    BY <2>2, <2>3, <2>4 DEF SettingsInv, VerifiedPassword
  <2>6. /\ req[r] \notin {Idle, Over} /\ UNCHANGED <<type, plain, box>> /\ tested \subseteq tested'
        /\ req'[r].op = "test" /\ req'[r].at = "log" /\ req[r].op = "test"
        /\ req'[r].via = req[r].via /\ req'[r].host = req[r].host
    BY <2>2 DEF Idle, Over
  <2> QED
    BY <2>1, <2>5, <2>6, GoesOwn
<1> QED
  BY <1>1, <1>2

LEMMA SettingsNext ==
  ASSUME SentInv, SettingsInv, [MailNext]_<<req, varsM>>
  PROVE  SettingsInv'
<1>0. MailTypeInv /\ MailTypeInv'
  BY SentNext DEF SentInv
<1>1. ASSUME NEW r \in Requests, OwnStep(r) PROVE SettingsInv'
  BY <1>0, <1>1, OwnKeeps
<1>2. ASSUME UNCHANGED <<req, box, tested>>, own' = own, doubt' = doubt,
             \A r \in plain' : r \in plain /\ (r \in InFlight => type' = type)
      PROVE  SettingsInv'
  <2>1. ASSUME NEW r \in Requests PROVE PlainSound(r)' /\ TestSound(r)'
    BY <1>2 DEF SettingsInv, PlainSound, TestSound, InFlight
  <2> QED
    BY <1>2, <2>1 DEF SettingsInv, VerifiedPassword
<1>3. CASE SwitchesType
  <2>1. UNCHANGED <<req, box, tested, own, doubt>>
    BY <1>3 DEF SwitchesType, mails
  <2>2. ASSUME NEW r \in plain', r \in InFlight PROVE type = "MARKETPLACE" /\ type' # "INDEPENDENT"
    <3>1. r \in plain /\ (type' = "INDEPENDENT" => r \notin InFlight)
      BY <1>3 DEF SwitchesType
    <3>2. type = "MARKETPLACE"
      BY <2>2, <3>1 DEF SettingsInv, PlainSound, InFlight
    <3> QED
      BY <2>2, <3>1, <3>2
  <2>3. \A r \in plain' : r \in plain /\ r \notin InFlight
    BY <1>3, <2>2 DEF SwitchesType
  <2> QED
    BY <1>2, <2>1, <2>3
<1>4. CASE Ages \/ UNCHANGED <<req, varsM>>
  <2>1. UNCHANGED <<req, box, tested, own, doubt, plain, type>>
    BY <1>4 DEF Ages, varsM, settings, mails
  <2> QED
    BY <1>2, <2>1
<1>5. ASSUME NEW r \in Requests,
             \/ Quiet(r) \/ Resolves(r) \/ SendsByStore(r) \/ SendsByPlatform(r) \/ LogDelivery(r)
             \/ SendsTest(r) \/ Verifies(r) \/ VerifyThrows(r) \/ Dies(r) \/ TestsSender(r) \/ TestsPlatform(r)
      PROVE  SettingsInv'
  BY <1>1, <1>5, QuietOwn, MailGoesOwn, TestGoesOwn, TestStartsOwn
<1> QED
  BY <1>3, <1>4, <1>5, MailNextIs

MailInv == SentInv /\ SettingsInv

LEMMA MailInitInv == NoRequests /\ MailInit => MailInv
<1> SUFFICES ASSUME NoRequests, MailInit PROVE MailInv
  OBVIOUS
<1>1. \A r \in Requests : req[r] = Idle
  BY DEF NoRequests
<1>2. /\ box = {} /\ log = {} /\ asked = {} /\ late = {} /\ unlogged = {} /\ old = {} /\ plain = {}
      /\ type \in {"INDEPENDENT", "MARKETPLACE"} /\ own \in Senders
      /\ sold \in [status : Statuses, payment : {"unpaid", "paid", "refunded"}]
      /\ tested = IF own.verified THEN {<<own.host, own.pass>>} ELSE {}
      /\ own.verified => own.host \in Hosts
  BY DEF MailInit
<1>3. MailTypeInv
  <2>1. req \in [Requests -> MailCalls]
    BY MailEnds DEF NoRequests
  <2>2. sold \in [status : Stages, payment : {"unpaid", "paid", "refunded"}]
    BY <1>2 DEF Stages
  <2> QED
    BY <1>2, <2>1, <2>2 DEF MailTypeInv
<1>4. \A r \in Requests : AskedSound(r) /\ StageSound(r) /\ PlainSound(r) /\ TestSound(r)
  BY <1>1, <1>2 DEF AskedSound, StageSound, PlainSound, TestSound, ToAsk, AtWork, Idle
<1>5. VerifiedPassword
  BY <1>2 DEF VerifiedPassword
<1> QED
  BY <1>2, <1>3, <1>4, <1>5 DEF MailInv, SentInv, SettingsInv

LEMMA MailNextInv == MailInv /\ [MailNext]_<<req, varsM>> => MailInv'
BY SentNext, SettingsNext DEF MailInv

\* The state of the mails, their settings, senders and log has its types.
THEOREM MailTyped == MailSpec => []MailTypeInv
<1>1. MailInv => MailTypeInv
  BY DEF MailInv, SentInv
<1> QED
  BY <1>1, MailInitInv, MailNextInv, PTL DEF MailSpec

LEMMA MailEnough == MailInv => MailArrives
<1> SUFFICES ASSUME MailInv PROVE MailArrives
  OBVIOUS
<1>0. MailTypeInv
  BY DEF MailInv, SentInv
<1>1. ASSUME NEW m \in asked, Ended(m[1]) PROVE m[1] \notin cut /\ ~Underway(m) /\ \A via \in Vias : ~Recording(m, via)
  BY <1>1 DEF Ended, Over, Underway, AtWork, Recording
<1>2. ASSUME NEW m \in asked
      PROVE  /\ ByStore(m) /\ ByPlatform(m) => <<m, "store">> \in late
             /\ Ended(m[1]) /\ Logged(m) /\ ~ByStore(m) /\ ~ByPlatform(m) =>
                  \E row \in Rows(m) : row.status # "SENT" /\ (row.via # "store" \/ m[2] = "test")
  BY <1>1 DEF MailInv, SentInv, MessageSound, Rows
<1>3. ASSUME NEW copy \in box, Ended(copy[1][1]), Logged(copy[1]) PROVE \E row \in Rows(copy[1]) : row.via = copy[2]
  <2>1. copy[1] \in asked /\ copy[2] \in Vias /\ <<copy[1], copy[2]>> \in box
    BY <1>0 DEF MailTypeInv
  <2>2. MessageSound(copy[1])
    BY <2>1 DEF MailInv, SentInv
  <2>3. copy[1][1] \notin cut /\ ~Recording(copy[1], copy[2])
    BY <1>1, <1>3, <2>1
  <2>4. \E row \in log : row.m = copy[1] /\ row.via = copy[2]
    BY <1>3, <2>1, <2>2, <2>3 DEF MessageSound
  <2> QED
    BY <2>4 DEF Rows
<1>4. ArrivesOnce
  BY <1>2 DEF ArrivesOnce
<1>5. LogIsTrue
  BY <1>3 DEF LogIsTrue, MailInv, SentInv, RowTrue
<1>6. ASSUME NEW r \in plain, NEW m \in asked, m[1] = r PROVE ~ByStore(m)
  <2>1. r \in Requests /\ m = <<r, m[2]>> /\ m[2] \in Events \cup {"test"}
    BY <1>0, <1>6 DEF MailTypeInv, Ids
  <2> QED
    BY <2>1 DEF MailInv, SettingsInv, PlainSound, ByStore
<1>7. MarketplaceUsesPlatform
  BY <1>6 DEF MarketplaceUsesPlatform
<1> QED
  BY <1>4, <1>5, <1>7 DEF MailArrives, MailInv, SettingsInv

\* Whatever the servers answer, whoever dies and whenever the store changes its
\* type or its sender: what is handed to the service arrives, once unless an
\* answer was late, or the log says why not; the log is true; a marketplace
\* store sends under the platform's address; verified means tested.
THEOREM MailsArrive == MailSpec => []MailArrives
<1>1. NoRequests /\ MailInit => MailInv
  BY MailInitInv
<1> QED
  BY <1>1, MailNextInv, MailEnough, PTL DEF MailSpec

-------------------------------------------------------------------------------
(* The mails: who moves the order tells of it.                               *)

ToldInv == \A r \in Requests : TellsMoves(r) /\ WritesAlone(r) /\ UnmovedYet(r)

\* Each status has a message of its own, which is not a payment's.
LEMMA StatusEvents ==
  /\ \A s : StatusMail(s) # <<>> =>
       Head(StatusMail(s)).event \in {"order_shipped", "order_delivered", "order_cancelled", "order_refunded"}
  /\ \A s, u : StatusMail(s) # <<>> /\ StatusMail(u) # <<>> /\ Head(StatusMail(s)).event = Head(StatusMail(u)).event => s = u
  /\ StatusMail("CONFIRMED") = <<>> /\ StatusMail("REFUNDED") = <<OrderRefunded>>
BY StatusMailIs DEF OrderShipped, OrderDelivered, OrderCancelled, OrderRefunded, Message

LEMMA OneToAsk ==
  ASSUME NEW m \in Messages, NEW q, q = [op |-> "mail", at |-> "resolve", mails |-> <<m>>, row |-> NoRow]
  PROVE  ToAsk(q) = {m.event}
<1>1. <<m>> # Both /\ Head(<<m>>) = m
  BY DEF Both
<1> QED
  BY <1>1 DEF ToAsk, Rest

LEMMA BothToAsk ==
  ASSUME NEW q, q = [op |-> "mail", at |-> "resolve", mails |-> Both, row |-> NoRow]
  PROVE  ToAsk(q) = {"order_confirmation", "new_order_owner"}
<1>1. Head(Both).event = "order_confirmation"
  BY DEF Both, OrderConfirmation, Message
<1> QED
  BY <1>1 DEF ToAsk, Rest

\* A step of r that moves the order for nobody else.
ToldStep(r) ==
  /\ Touches(r) /\ met \subseteq met'
  /\ \A s \in Requests \ {r} : \A x : <<s, x>> \in moved' <=> <<s, x>> \in moved
  /\ TellsMoves(r)' /\ UnmovedYet(r)' /\ \A s \in Requests : WritesAlone(s)'

LEMMA ToldKeeps ==
  ASSUME ToldInv, NEW r \in Requests, ToldStep(r)
  PROVE  ToldInv'
<1>1. ASSUME NEW s \in Requests \ {r} PROVE TellsMoves(s)' /\ UnmovedYet(s)'
  <2>1. /\ req'[s] = req[s] /\ met \subseteq met' /\ cut \subseteq cut'
        /\ \A x : <<s, x>> \in moved' <=> <<s, x>> \in moved
        /\ TellsMoves(s) /\ UnmovedYet(s)
    BY DEF ToldStep, Touches, ToldInv
  <2>2. \A e \in Events : Tells(s, e)' = Tells(s, e)
    <3>1. \A e \in Events : <<s, e>> \in asked' <=> <<s, e>> \in asked
      BY DEF ToldStep, Touches, Ids
    <3> QED
      BY <2>1, <3>1 DEF Tells
  <2>3. /\ "order_confirmation" \in Events /\ "new_order_owner" \in Events
        /\ \A u : StatusMail(u) # <<>> => Head(StatusMail(u)).event \in Events
    BY StatusEvents DEF Events
  <2>4. TellsMoves(s)'
    BY <2>1, <2>2, <2>3 DEF TellsMoves
  <2> QED
    BY <2>1, <2>4 DEF UnmovedYet
<1> QED
  BY <1>1 DEF ToldInv, ToldStep

\* The order stays as it is, and so does what the request has told and will tell.
LEMMA UnmovedTold ==
  ASSUME ToldInv, NEW r \in Requests, Touches(r), UNCHANGED <<sold, moved, met>>,
         req'[r].op \notin {"idle"} \cup Writers,
         r \in cut' \/ (\A e \in Events : Tells(r, e)' = Tells(r, e)) \/
           (req[r] = Idle /\ \A e \in Events \ {"password_reset", "welcome", "template_test"} : ~Tells(r, e)')
  PROVE  ToldStep(r)
<1>1. /\ "order_confirmation" \in Events /\ "new_order_owner" \in Events
      /\ \A u : StatusMail(u) # <<>> => Head(StatusMail(u)).event \in Events \ {"password_reset", "welcome", "template_test"}
  BY StatusEvents DEF Events
<1>2. TellsMoves(r) /\ UnmovedYet(r) /\ cut \subseteq cut'
  BY DEF ToldInv, Touches
<1>3. ASSUME r \in cut' PROVE TellsMoves(r)'
  BY <1>3 DEF TellsMoves
<1>4. ASSUME \A e \in Events : Tells(r, e)' = Tells(r, e) PROVE TellsMoves(r)'
  BY <1>1, <1>2, <1>4 DEF TellsMoves
<1>5. ASSUME req[r] = Idle, \A e \in Events \ {"password_reset", "welcome", "template_test"} : ~Tells(r, e)'
      PROVE  TellsMoves(r)'
  <2>1. \A x \in Statuses \cup {"paid"} : <<r, x>> \notin moved'
    BY <1>2, <1>5 DEF UnmovedYet, Idle, Stages
  <2>2. ~Tells(r, "order_confirmation")' /\ ~Tells(r, "new_order_owner")'
    BY <1>1, <1>5
  <2>3. \A u : StatusMail(u) # <<>> => ~Tells(r, Head(StatusMail(u)).event)'
    BY <1>1, <1>5
  <2> QED
    BY <2>1, <2>2, <2>3 DEF TellsMoves, Tells
<1>6. TellsMoves(r)'
  BY <1>3, <1>4, <1>5
<1>7. ASSUME NEW s \in Requests PROVE WritesAlone(s)'
  <2>1. \A u \in Requests : req'[u].op \in Writers => u # r /\ req'[u] = req[u]
    BY DEF Touches
  <2>2. WritesAlone(s)
    BY DEF ToldInv
  <2> QED
    BY <2>1, <2>2 DEF WritesAlone
<1> QED
  BY <1>6, <1>7 DEF ToldStep, UnmovedYet

\* A request for the order: nothing is moved or told; who finds the order
\* about to be written is known, and so is who is found.
LEMMA OrderAsksTold ==
  ASSUME SentInv, ToldInv, NEW r \in Requests, NEW to \in Statuses, AsksOrder(r, to)
  PROVE  ToldStep(r)
<1>0. MailTypeInv
  BY DEF SentInv
<1>1. QuietStep(r) /\ req[r] = Idle /\ UNCHANGED <<sold, moved>>
  BY <1>0, OrderAsksMoves
<1>2. Touches(r)
  BY <1>1, QuietSound DEF StepSound
<1>3. \A e \in Events : <<r, e>> \notin asked'
  BY <1>1 DEF SentInv, AskedSound, Idle, QuietStep, mails
<1>4. CASE req'[r] = Over /\ met' = met
  <2>1. \A e \in Events : ~Tells(r, e)'
    BY <1>3, <1>4 DEF Tells, ToAsk, Over
  <2>2. req'[r].op \notin {"idle"} \cup Writers
    BY <1>4 DEF Over, Writers
  <2> QED
    BY <1>1, <1>2, <1>4, <2>1, <2>2, UnmovedTold
<1>5. ASSUME NEW q \in MailCalls, q.op \in Writers, q.saw = sold.status, req'[r] = q, Reads(r, q)
      PROVE  ToldStep(r)
  <2> DEFINE others == {o \in InFlight : req[o].op \in Writers}
  <2>1. met' = IF others = {} THEN met ELSE met \cup others \cup {r}
    BY <1>5 DEF Reads
  <2>2. \A s \in Requests : req[s].op \in Writers => s \in others
    BY DEF InFlight, Idle, Over, Writers
  <2> HIDE DEF others
  <2>4. \A e \in Events : ~Tells(r, e)'
    BY <1>3, <1>5 DEF Tells, ToAsk, Writers
  <2>5. UnmovedYet(r)' /\ \A x \in Stages \cup {"paid"} : <<r, x>> \notin moved'
    BY <1>1 DEF ToldInv, UnmovedYet, Idle
  <2>6. "order_confirmation" \in Events /\ "new_order_owner" \in Events
    BY DEF Events
  <2>7. \A u : StatusMail(u) # <<>> => Head(StatusMail(u)).event \in Events
    BY StatusEvents DEF Events
  <2>8. TellsMoves(r)'
    BY <2>4, <2>5, <2>6, <2>7 DEF TellsMoves, Tells, Stages
  <2>9. ASSUME NEW s \in Requests PROVE WritesAlone(s)'
    <3>1. CASE s = r
      <4>1. r \notin met' => others = {}
        BY <2>1
      <4>2. others = {} => \A u \in Requests \ {r} : req'[u].op \notin Writers
        BY <1>2, <2>2 DEF Touches
      <4> QED
        BY <1>1, <1>5, <3>1, <4>1, <4>2 DEF WritesAlone
    <3>2. CASE s # r
      <4>1. req'[s] = req[s]
        BY <1>2, <3>2 DEF Touches
      <4>2. req[s].op \in Writers => s \in met'
        BY <2>1, <2>2
      <4> QED
        BY <4>1, <4>2 DEF WritesAlone
    <3> QED
      BY <3>1, <3>2
  <2>10. met \subseteq met'
    BY <2>1
  <2> QED
    BY <1>1, <1>2, <2>5, <2>8, <2>9, <2>10 DEF ToldStep
<1> QED
  BY <1>0, <1>4, <1>5, OrderAsksMoves

\* The write of the order, told of as it is: by a payment to both, and by the
\* message of the status the order was moved to.
LEMMA WriteTold ==
  ASSUME SentInv, ToldInv, NEW r \in Requests, QuietStep(r), req[r].op \in Writers, met' = met,
         req'[r] = Over \/ req'[r].op = "mail",
         \A s \in Requests \ {r} : \A x : <<s, x>> \in moved' <=> <<s, x>> \in moved,
         (<<r, "paid">> \in moved') = ("order_confirmation" \in ToAsk(req'[r])),
         (<<r, "paid">> \in moved') = ("new_order_owner" \in ToAsk(req'[r])),
         req[r].saw = sold.status => \A s \in Statuses : StatusMail(s) # <<>> =>
           (<<r, s>> \in moved') = (Head(StatusMail(s)).event \in ToAsk(req'[r]))
  PROVE  ToldStep(r)
<1>1. Touches(r)
  BY QuietSound DEF StepSound
<1>2. \A e \in Events : <<r, e>> \notin asked'
  BY DEF SentInv, AskedSound, Writers, QuietStep, mails
<1>3. /\ "order_confirmation" \in Events /\ "new_order_owner" \in Events
      /\ \A u : StatusMail(u) # <<>> => Head(StatusMail(u)).event \in Events
  BY StatusEvents DEF Events
<1>4. r \notin met' => req[r].saw = sold.status
  BY DEF ToldInv, WritesAlone
<1>5. TellsMoves(r)'
  <2>1. /\ (<<r, "paid">> \in moved') = Tells(r, "order_confirmation")'
        /\ (<<r, "paid">> \in moved') = Tells(r, "new_order_owner")'
    BY <1>2, <1>3 DEF Tells
  <2>2. r \notin met' => \A s \in Statuses : StatusMail(s) # <<>> =>
          (<<r, s>> \in moved') = Tells(r, Head(StatusMail(s)).event)'
    BY <1>2, <1>3, <1>4 DEF Tells
  <2> QED
    BY <2>1, <2>2 DEF TellsMoves
<1>6. req'[r].op \notin {"idle"} \cup Writers
  BY DEF Over, Writers
<1>7. ASSUME NEW s \in Requests PROVE WritesAlone(s)'
  <2>1. req'[s].op \in Writers => s # r /\ req'[s] = req[s]
    BY <1>1, <1>6 DEF Touches
  <2>2. s # r /\ req[s].op \in Writers => s \in met
    BY DEF ToldInv, WritesAlone
  <2> QED
    BY <2>1, <2>2 DEF WritesAlone
<1> QED
  BY <1>1, <1>5, <1>6, <1>7 DEF ToldStep, UnmovedYet

LEMMA PaysTold ==
  ASSUME SentInv, ToldInv, NEW r \in Requests, PaysOff(r)
  PROVE  ToldStep(r)
<1>0. MailTypeInv
  BY DEF SentInv
<1>1. QuietStep(r) /\ req[r].op = "pays" /\ met' = met
  BY <1>0, PaysOffMoves
<1>2. req[r].op \in Writers /\ \A x \in Stages \cup {"paid"} : <<r, x>> \notin moved
  BY <1>1 DEF ToldInv, UnmovedYet, Writers
<1>3. CASE req'[r] = Over /\ UNCHANGED <<sold, moved>>
  <2>1. \A e : e \notin ToAsk(req'[r])
    BY <1>3 DEF ToAsk, Over
  <2>2. \A x \in Statuses \cup {"paid"} : <<r, x>> \notin moved'
    BY <1>2, <1>3 DEF Stages
  <2>3. /\ (<<r, "paid">> \in moved') = ("order_confirmation" \in ToAsk(req'[r]))
        /\ (<<r, "paid">> \in moved') = ("new_order_owner" \in ToAsk(req'[r]))
        /\ \A s \in Statuses : (<<r, s>> \in moved') = (Head(StatusMail(s)).event \in ToAsk(req'[r]))
    BY <2>1, <2>2
  <2>4. \A s \in Requests \ {r} : \A x : <<s, x>> \in moved' <=> <<s, x>> \in moved
    BY <1>3
  <2> QED
    BY <1>1, <1>2, <1>3, <2>3, <2>4, WriteTold
<1>4. ASSUME NEW to \in {"CONFIRMED", req[r].saw},
             req'[r] = [op |-> "mail", at |-> "resolve", mails |-> Both, row |-> NoRow],
             moved' = moved \cup {<<r, "paid">>} \cup (IF to # sold.status THEN {<<r, to>>} ELSE {})
      PROVE  ToldStep(r)
  <2>1. ToAsk(req'[r]) = {"order_confirmation", "new_order_owner"} /\ req'[r].op = "mail"
    BY <1>4, BothToAsk
  <2>2. ASSUME NEW s \in Requests \ {r} PROVE \A x : <<s, x>> \in moved' <=> <<s, x>> \in moved
    BY <1>4
  <2>3. <<r, "paid">> \in moved'
    BY <1>4
  <2>4. ASSUME req[r].saw = sold.status, NEW s \in Statuses, StatusMail(s) # <<>>
        PROVE  <<r, s>> \notin moved' /\ Head(StatusMail(s)).event \notin ToAsk(req'[r])
    <3>1. s # "paid" /\ s # "CONFIRMED"
      BY <2>4, RankOK, StatusEvents DEF Statuses
    <3>2. to # sold.status => to = "CONFIRMED"
      BY <2>4
    <3>3. <<r, s>> \notin moved
      BY <1>2 DEF Stages
    <3>4. <<r, s>> \notin moved'
      BY <1>4, <3>1, <3>2, <3>3
    <3> QED
      BY <2>1, <2>4, <3>4, StatusEvents
  <2> QED
    BY <1>1, <1>2, <2>1, <2>2, <2>3, <2>4, WriteTold
<1> QED
  BY <1>0, <1>3, <1>4, PaysOffMoves

LEMMA MovesTold ==
  ASSUME SentInv, ToldInv, NEW r \in Requests, MovesOrder(r)
  PROVE  ToldStep(r)
<1> DEFINE to == req[r].to
           ms == StatusMails(req[r].saw, to)
<1>0. MailTypeInv
  BY DEF SentInv
<1>1. /\ QuietStep(r) /\ req[r].op = "sets" /\ met' = met /\ to \in Statuses
      /\ moved' = IF to # sold.status THEN moved \cup {<<r, to>>} ELSE moved
      /\ IF ms = <<>> THEN req'[r] = Over
         ELSE req'[r] = [op |-> "mail", at |-> "resolve", mails |-> ms, row |-> NoRow]
  BY <1>0, MovesOrderMoves DEF Moves
<1>2. req[r].op \in Writers /\ \A x \in Stages \cup {"paid"} : <<r, x>> \notin moved
  BY <1>1 DEF ToldInv, UnmovedYet, Writers
<1>3. IF ms = <<>> THEN ToAsk(req'[r]) = {} ELSE ToAsk(req'[r]) = {Head(ms).event}
  <2>1. CASE ms = <<>>
    BY <1>1, <2>1 DEF ToAsk, Over
  <2>2. CASE ms # <<>>
    <3>1. PICK m \in Messages : ms = <<m>>
      BY <2>2, StatusMailIs, StatusMessages DEF StatusMails
    <3> QED
      BY <1>1, <2>2, <3>1, OneToAsk
  <2> QED
    BY <2>1, <2>2
<1>4. /\ req[r].saw = to => ms = <<>>
      /\ req[r].saw # to => ms = StatusMail(to)
  BY DEF StatusMails
<1>5. /\ "order_confirmation" \notin ToAsk(req'[r]) /\ "new_order_owner" \notin ToAsk(req'[r])
      /\ <<r, "paid">> \notin moved'
  <2>1. ms # <<>> => Head(ms).event \notin {"order_confirmation", "new_order_owner"}
    BY <1>4, StatusEvents
  <2>2. to # "paid"
    BY <1>1, RankOK DEF Statuses
  <2> QED
    BY <1>1, <1>2, <1>3, <2>1, <2>2
<1>6. ASSUME req[r].saw = sold.status, NEW s \in Statuses, StatusMail(s) # <<>>
      PROVE  (<<r, s>> \in moved') = (Head(StatusMail(s)).event \in ToAsk(req'[r]))
  <2>1. <<r, s>> \notin moved
    BY <1>2 DEF Stages
  <2>2. (<<r, s>> \in moved') = (s = to /\ to # sold.status)
    BY <1>1, <2>1
  <2>3. CASE to = sold.status
    BY <1>3, <1>4, <1>6, <2>2, <2>3
  <2>4. CASE to # sold.status
    <3>1. ms = StatusMail(to)
      BY <1>4, <1>6, <2>4
    <3>2. (s = to) = (Head(StatusMail(s)).event \in ToAsk(req'[r]))
      BY <1>3, <1>6, <3>1, StatusEvents
    <3> QED
      BY <2>2, <2>4, <3>2
  <2> QED
    BY <2>3, <2>4
<1>7. req'[r] = Over \/ req'[r].op = "mail"
  BY <1>1
<1>8. \A s \in Requests \ {r} : \A x : <<s, x>> \in moved' <=> <<s, x>> \in moved
  BY <1>1
<1> HIDE DEF to, ms
<1> QED
  BY <1>1, <1>2, <1>5, <1>6, <1>7, <1>8, WriteTold

LEMMA RefundTold ==
  ASSUME SentInv, ToldInv, NEW r \in Requests, RefundFlips(r)
  PROVE  ToldStep(r)
<1>0. MailTypeInv
  BY DEF SentInv
<1>1. QuietStep(r) /\ req[r].op = "refunds" /\ met' = met
  BY <1>0, RefundFlipsMoves
<1>2. req[r].op \in Writers /\ \A x \in Stages \cup {"paid"} : <<r, x>> \notin moved
  BY <1>1 DEF ToldInv, UnmovedYet, Writers
<1>3. CASE req'[r] = Over /\ UNCHANGED <<sold, moved>>
  <2>1. \A e : e \notin ToAsk(req'[r])
    BY <1>3 DEF ToAsk, Over
  <2>2. \A x \in Statuses \cup {"paid"} : <<r, x>> \notin moved'
    BY <1>2, <1>3 DEF Stages
  <2>3. /\ (<<r, "paid">> \in moved') = ("order_confirmation" \in ToAsk(req'[r]))
        /\ (<<r, "paid">> \in moved') = ("new_order_owner" \in ToAsk(req'[r]))
        /\ \A s \in Statuses : (<<r, s>> \in moved') = (Head(StatusMail(s)).event \in ToAsk(req'[r]))
    BY <2>1, <2>2
  <2>4. \A s \in Requests \ {r} : \A x : <<s, x>> \in moved' <=> <<s, x>> \in moved
    BY <1>3
  <2> QED
    BY <1>1, <1>2, <1>3, <2>3, <2>4, WriteTold
<1>4. ASSUME moved' = IF sold.status # "REFUNDED" THEN moved \cup {<<r, "REFUNDED">>} ELSE moved,
             IF req[r].saw = "REFUNDED" THEN req'[r] = Over
             ELSE req'[r] = [op |-> "mail", at |-> "resolve", mails |-> <<OrderRefunded>>, row |-> NoRow]
      PROVE  ToldStep(r)
  <2>1. IF req[r].saw = "REFUNDED" THEN ToAsk(req'[r]) = {} ELSE ToAsk(req'[r]) = {"order_refunded"}
    <3>1. CASE req[r].saw = "REFUNDED"
      BY <1>4, <3>1 DEF ToAsk, Over
    <3>2. CASE req[r].saw # "REFUNDED"
      <4>1. OrderRefunded \in Messages /\ OrderRefunded.event = "order_refunded"
        BY StatusMessages DEF OrderRefunded, Message
      <4> QED
        BY <1>4, <3>2, <4>1, OneToAsk
    <3> QED
      BY <3>1, <3>2
  <2>2. req'[r] = Over \/ req'[r].op = "mail"
    BY <1>4
  <2>3. ASSUME NEW s \in Requests \ {r} PROVE \A x : <<s, x>> \in moved' <=> <<s, x>> \in moved
    BY <1>4
  <2>4. /\ "order_confirmation" \notin ToAsk(req'[r]) /\ "new_order_owner" \notin ToAsk(req'[r])
        /\ <<r, "paid">> \notin moved'
    BY <1>2, <1>4, <2>1
  <2>5. ASSUME req[r].saw = sold.status, NEW s \in Statuses, StatusMail(s) # <<>>
        PROVE  (<<r, s>> \in moved') = (Head(StatusMail(s)).event \in ToAsk(req'[r]))
    <3>1. <<r, s>> \notin moved
      BY <1>2 DEF Stages
    <3>2. (<<r, s>> \in moved') = (s = "REFUNDED" /\ sold.status # "REFUNDED")
      BY <1>4, <3>1
    <3>3. (s = "REFUNDED") = (Head(StatusMail(s)).event = "order_refunded")
      <4>1. Head(StatusMail("REFUNDED")).event = "order_refunded" /\ StatusMail("REFUNDED") # <<>>
        BY StatusEvents DEF OrderRefunded, Message
      <4> QED
        BY <2>5, <4>1, StatusEvents
    <3> QED
      BY <2>1, <2>5, <3>2, <3>3
  <2> QED
    BY <1>1, <1>2, <2>2, <2>3, <2>4, <2>5, WriteTold
<1> QED
  BY <1>0, <1>3, <1>4, RefundFlipsMoves

\* Accounts, settings and templates move no order, and tell of none.
LEMMA OtherQuietTold ==
  ASSUME SentInv, ToldInv, NEW r \in Requests, Quiet(r), UNCHANGED orders,
         \/ req'[r].op \notin {"idle", "mail"} \cup Writers
         \/ req[r] = Idle /\ \E m \in Alone : req'[r] = [op |-> "mail", at |-> "resolve", mails |-> <<m>>, row |-> NoRow]
  PROVE  ToldStep(r)
<1>0. MailTypeInv
  BY DEF SentInv
<1>1. QuietStep(r) /\ Touches(r) /\ asked' = asked /\ req[r].op \in Early
  BY <1>0, QuietTyping, QuietSound DEF StepSound, QuietStep, mails
<1>2. UNCHANGED <<sold, moved, met>>
  BY DEF orders
<1>3. \A e \in Events : <<r, e>> \notin asked /\ <<r, e>> \notin asked'
  BY <1>1 DEF SentInv, AskedSound, Early
<1>4. CASE req'[r].op \notin {"idle", "mail"} \cup Writers
  <2>1. ToAsk(req'[r]) = {} /\ ToAsk(req[r]) = {}
    BY <1>1, <1>4 DEF ToAsk, Early
  <2>2. \A e \in Events : Tells(r, e)' = Tells(r, e)
    BY <1>3, <2>1 DEF Tells
  <2> QED
    BY <1>1, <1>2, <1>4, <2>2, UnmovedTold
<1>5. ASSUME req[r] = Idle, NEW m \in Alone,
             req'[r] = [op |-> "mail", at |-> "resolve", mails |-> <<m>>, row |-> NoRow]
      PROVE  ToldStep(r)
  <2>1. m \in Messages /\ m.event \in {"password_reset", "welcome", "template_test"}
    <3>1. m \in Messages
      BY StatusMessages DEF Alone
    <3>2. m.event \in {"password_reset", "welcome", "template_test"}
      BY DEF Alone, PasswordReset, Welcome, TemplateTest, Message
    <3> QED
      BY <3>1, <3>2
  <2>2. ToAsk(req'[r]) = {m.event}
    BY <1>5, <2>1, OneToAsk
  <2>3. \A e \in Events \ {"password_reset", "welcome", "template_test"} : ~Tells(r, e)'
    BY <1>3, <2>1, <2>2 DEF Tells
  <2>4. req'[r].op \notin {"idle"} \cup Writers
    BY <1>5 DEF Writers
  <2> QED
    BY <1>1, <1>2, <1>5, <2>3, <2>4, UnmovedTold
<1> QED
  BY <1>4, <1>5

LEMMA QuietTold ==
  ASSUME SentInv, ToldInv, NEW r \in Requests, Quiet(r)
  PROVE  ToldStep(r)
<1>0. MailTypeInv
  BY DEF SentInv
<1>1. CASE PaysOff(r) \/ MovesOrder(r) \/ RefundFlips(r)
  BY <1>1, PaysTold, MovesTold, RefundTold
<1>2. CASE StoresSender(r)
  <2>1. UNCHANGED orders /\ req'[r].op \notin {"idle", "mail"} \cup Writers
    BY <1>0, <1>2, StoresSenderMoves DEF Over, Writers
  <2> QED
    BY <2>1, OtherQuietTold
<1>3. ASSUME NEW m \in Alone, Writes(r, m) PROVE ToldStep(r)
  <2>1. /\ UNCHANGED orders /\ req[r] = Idle
        /\ req'[r] = Over \/ req'[r] = [op |-> "mail", at |-> "resolve", mails |-> <<m>>, row |-> NoRow]
    BY <1>0, <1>3, WritesMoves
  <2>2. req'[r] = Over => req'[r].op \notin {"idle", "mail"} \cup Writers
    BY DEF Over, Writers
  <2> QED
    BY <2>1, <2>2, OtherQuietTold
<1>4. ASSUME NEW db \in BOOLEAN, SavesPlatform(r, db) PROVE ToldStep(r)
  <2>1. UNCHANGED orders /\ req'[r].op \notin {"idle", "mail"} \cup Writers
    BY <1>0, <1>4, SavesPlatformMoves DEF Over, Writers
  <2> QED
    BY <2>1, OtherQuietTold
<1>5. ASSUME NEW host \in Hosts, NEW pass \in Passwords \cup {0}, NEW on \in BOOLEAN, SavesSender(r, host, pass, on)
      PROVE  ToldStep(r)
  <2>1. UNCHANGED orders /\ req'[r].op \notin {"idle", "mail"} \cup Writers
    BY <1>0, <1>5, SavesSenderMoves DEF Over, Writers
  <2> QED
    BY <2>1, OtherQuietTold
<1>6. ASSUME NEW to \in Statuses, AsksOrder(r, to) PROVE ToldStep(r)
  BY <1>6, OrderAsksTold
<1> QED
  BY <1>1, <1>2, <1>3, <1>4, <1>5, <1>6 DEF Quiet

\* A mail that goes on has told what it was to tell.
LEMMA MailGoesTold ==
  ASSUME SentInv, ToldInv, NEW r \in Requests,
         Resolves(r) \/ SendsByStore(r) \/ SendsByPlatform(r) \/ LogDelivery(r) \/ Dies(r)
  PROVE  ToldStep(r)
<1>0. MailTypeInv
  BY DEF SentInv
<1>1. ASSUME UNCHANGED orders, Touches(r), req'[r] = Over \/ req'[r].op \in {"mail", "test"},
             r \in cut' \/ \A e \in Events : Tells(r, e)' = Tells(r, e)
      PROVE  ToldStep(r)
  <2>1. UNCHANGED <<sold, moved, met>> /\ req'[r].op \notin {"idle"} \cup Writers
    BY <1>1 DEF orders, Over, Writers
  <2> QED
    BY <1>1, <2>1, UnmovedTold
<1>2. CASE Resolves(r)
  <2>1. Touches(r)
    BY <1>2, ResolvesSound DEF StepSound
  <2>2. /\ req[r].op = "mail" /\ req[r].at = "resolve" /\ req'[r].op = "mail" /\ req'[r].mails = req[r].mails
        /\ req'[r].at # "resolve" /\ asked' = asked \cup {Id(r)} /\ UNCHANGED orders
    BY <1>0, <1>2, ResolvesMoves
  <2>3. Id(r) = <<r, Head(req[r].mails).event>>
    BY <2>2 DEF Id
  <2>4. \A e : Tells(r, e)' = Tells(r, e)
    BY <2>2, <2>3 DEF Tells, ToAsk
  <2> QED
    BY <1>1, <2>1, <2>2, <2>4
<1>3. ASSUME NEW via \in Vias, TrySend(r, via), req[r].op = "mail", req[r].at = via PROVE ToldStep(r)
  <2>1. Touches(r) /\ req[r].at \in {"store", "platform"}
    BY <1>3, SendsSound DEF StepSound, Vias
  <2>2. req'[r].op = "mail" /\ req'[r].at = "log" /\ req'[r].mails = req[r].mails /\ asked' = asked /\ UNCHANGED orders
    BY <1>0, <1>3, <2>1, TrySendMoves
  <2>3. \A e : Tells(r, e)' = Tells(r, e)
    BY <1>3, <2>1, <2>2 DEF Tells, ToAsk
  <2> QED
    BY <1>1, <2>1, <2>2, <2>3
<1>4. CASE SendsByStore(r)
  BY <1>3, <1>4 DEF SendsByStore, At, Vias
<1>5. CASE SendsByPlatform(r)
  <2>1. req[r].op = "mail" /\ req[r].at = "platform" /\ (TrySend(r, "platform") \/ Skips(r))
    BY <1>0, <1>5, PlatformMoves
  <2>2. ASSUME Skips(r) PROVE ToldStep(r)
    <3>1. Touches(r)
      BY <2>1, <2>2, SkipsSound DEF StepSound
    <3>2. req'[r].op = "mail" /\ req'[r].at = "log" /\ req'[r].mails = req[r].mails /\ asked' = asked /\ UNCHANGED orders
      BY <2>2 DEF Skips, mails
    <3>3. \A e : Tells(r, e)' = Tells(r, e)
      BY <2>1, <3>2 DEF Tells, ToAsk
    <3> QED
      BY <1>1, <3>1, <3>2, <3>3
  <2> QED
    BY <1>3, <2>1, <2>2 DEF Vias
<1>6. CASE LogDelivery(r)
  <2>1. Touches(r)
    BY <1>6, LogsSound DEF StepSound
  <2>2. req[r].op \in {"mail", "test"}
    BY <1>0, <1>6, LogsMail DEF LogDelivery
  <2>3. /\ req[r].at = "log" /\ asked' = asked /\ UNCHANGED orders
        /\ \/ /\ req[r].op = "mail"
              /\ req'[r].op = "mail" /\ req'[r].at = "platform" /\ req'[r].mails = req[r].mails
           \/ req'[r] = Over /\ (req[r].op = "mail" => Tail(req[r].mails) = <<>>)
           \/ /\ req[r].op = "mail" /\ req[r].mails = Both
              /\ req'[r] = [op |-> "mail", at |-> "resolve", mails |-> <<NewOrderToOwner>>, row |-> NoRow]
    BY <1>0, <1>6, <2>2, LogMoves DEF FallsBack
  <2>4. ToAsk(req'[r]) = ToAsk(req[r])
    <3>1. CASE req[r].op = "mail" /\ req'[r].op = "mail" /\ req'[r].at = "platform" /\ req'[r].mails = req[r].mails
      BY <2>3, <3>1 DEF ToAsk
    <3>2. CASE req'[r] = Over /\ (req[r].op = "mail" => Tail(req[r].mails) = <<>>)
      <4>1. req[r].op = "mail" => req[r].mails # Both
        BY <3>2, OneOfList, ListFacts
      <4> QED
        BY <2>3, <3>2, <4>1 DEF ToAsk, Rest, Over
    <3>3. CASE /\ req[r].op = "mail" /\ req[r].mails = Both
               /\ req'[r] = [op |-> "mail", at |-> "resolve", mails |-> <<NewOrderToOwner>>, row |-> NoRow]
      <4>1. NewOrderToOwner \in Messages /\ NewOrderToOwner.event = "new_order_owner"
        BY OneOfList DEF NewOrderToOwner, Message
      <4>2. ToAsk(req'[r]) = {"new_order_owner"}
        BY <3>3, <4>1, OneToAsk
      <4> QED
        BY <2>3, <3>3, <4>2 DEF ToAsk, Rest
    <3> QED
      BY <2>3, <3>1, <3>2, <3>3
  <2>5. \A e : Tells(r, e)' = Tells(r, e)
    BY <2>3, <2>4 DEF Tells
  <2>6. req'[r] = Over \/ req'[r].op = "mail"
    BY <2>3
  <2> QED
    BY <1>1, <2>1, <2>3, <2>5, <2>6
<1>7. CASE Dies(r)
  <2>1. Touches(r)
    BY <1>7, DiesSound DEF StepSound
  <2>2. r \in cut' /\ UNCHANGED orders /\ Ends(r)
    BY <1>7 DEF Dies
  <2>3. req'[r] = Over
    BY <1>0, <2>2, MailEnds, MailMoves
  <2> QED
    BY <1>1, <2>1, <2>2, <2>3
<1> QED
  BY <1>2, <1>4, <1>5, <1>6, <1>7

LEMMA TestTold ==
  ASSUME SentInv, ToldInv, NEW r \in Requests,
         SendsTest(r) \/ Verifies(r) \/ VerifyThrows(r) \/ TestsSender(r) \/ TestsPlatform(r)
  PROVE  ToldStep(r)
<1>0. MailTypeInv
  BY DEF SentInv
<1>1. Touches(r)
  BY TestSendsSound, VerifiesSound, TestStarts DEF StepSound
<1>2. /\ UNCHANGED orders /\ req[r].op \in {"idle", "test"} /\ (req'[r] = Over \/ req'[r].op = "test")
      /\ asked' = asked \/ asked' = asked \cup {<<r, "test">>}
  <2>1. CASE SendsTest(r)
    BY <1>0, <2>1, SendsTestMoves
  <2>2. CASE Verifies(r) \/ VerifyThrows(r)
    BY <1>0, <2>2, VerifyMoves
  <2>3. CASE TestsSender(r) \/ TestsPlatform(r)
    BY <1>0, <2>3, TestMoves DEF Idle
  <2> QED
    BY <2>1, <2>2, <2>3
<1>3. ToAsk(req[r]) = {} /\ ToAsk(req'[r]) = {} /\ req'[r].op \notin {"idle"} \cup Writers
  BY <1>2 DEF ToAsk, Over, Writers
<1>4. \A e \in Events : Tells(r, e)' = Tells(r, e)
  BY <1>2, <1>3 DEF Tells, Events
<1>5. UNCHANGED <<sold, moved, met>>
  BY <1>2 DEF orders
<1> QED
  BY <1>1, <1>3, <1>4, <1>5, UnmovedTold

LEMMA ToldNext ==
  ASSUME SentInv, ToldInv, [MailNext]_<<req, varsM>>
  PROVE  ToldInv'
<1>1. ASSUME NEW r \in Requests,
             \/ Quiet(r) \/ Resolves(r) \/ SendsByStore(r) \/ SendsByPlatform(r) \/ LogDelivery(r)
             \/ SendsTest(r) \/ Verifies(r) \/ VerifyThrows(r) \/ Dies(r) \/ TestsSender(r) \/ TestsPlatform(r)
      PROVE  ToldInv'
  BY <1>1, QuietTold, MailGoesTold, TestTold, ToldKeeps
<1>2. CASE SwitchesType \/ Ages \/ UNCHANGED <<req, varsM>>
  <2>1. UNCHANGED <<req, sold, moved, met, asked, cut>>
    BY <1>2 DEF SwitchesType, Ages, varsM, orders, mails, limits
  <2> QED
    BY <2>1 DEF ToldInv, TellsMoves, WritesAlone, UnmovedYet, Tells
<1> QED
  BY <1>1, <1>2, MailNextIs

LEMMA ToldInit == NoRequests /\ MailInit => ToldInv
BY DEF NoRequests, MailInit, ToldInv, TellsMoves, WritesAlone, UnmovedYet, Tells, ToAsk, Idle, Writers

LEMMA ToldEnough == MailTypeInv /\ ToldInv => MovesAreTold
<1> SUFFICES ASSUME MailTypeInv, ToldInv, NEW r \in Requests, Ended(r)
             PROVE  /\ (<<r, "paid">> \in moved) = (<<r, OrderConfirmation.event>> \in asked)
                    /\ (<<r, "paid">> \in moved) = (<<r, NewOrderToOwner.event>> \in asked)
                    /\ r \notin met => \A s \in Statuses : StatusMail(s) # <<>> =>
                         (<<r, s>> \in moved) = (<<r, Head(StatusMail(s)).event>> \in asked)
  BY DEF MovesAreTold
<1>1. TellsMoves(r) /\ r \notin cut
  BY DEF ToldInv, Ended
<1>2. \A e : Tells(r, e) = (<<r, e>> \in asked)
  BY DEF Ended, Tells, ToAsk, Over
<1>3. OrderConfirmation.event = "order_confirmation" /\ NewOrderToOwner.event = "new_order_owner"
  BY DEF OrderConfirmation, NewOrderToOwner, Message
<1> QED
  BY <1>1, <1>2, <1>3 DEF TellsMoves

\* However payments, administrators, fulfillers and refunds interleave, each
\* payment and each step of an order is told of by the request that made it,
\* and by no other, unless two of them held the order at a time.
THEOREM MovesAreAlwaysTold == MailSpec => []MovesAreTold
<1> DEFINE Inv == MailInv /\ ToldInv
<1>1. NoRequests /\ MailInit => Inv
  BY MailInitInv, ToldInit
<1>2. Inv /\ [MailNext]_<<req, varsM>> => Inv'
  BY MailNextInv, ToldNext DEF MailInv
<1>3. Inv => MovesAreTold
  BY ToldEnough DEF MailInv, SentInv
<1> QED
  BY <1>1, <1>2, <1>3, PTL DEF MailSpec

-------------------------------------------------------------------------------
(* Backups: typing.                                                          *)

\* A request whose row is PENDING or RUNNING.
InRun(t) == t.pc \in {"start", "dump", "finish", "fail"}

Sound(t) ==
  /\ t \in Tasks
  /\ InRun(t) => t.mine \in BackupIds
  /\ InRun(t) \/ t.pc \in {"count", "insert"} => t.op \in {"create", "tick", "restore"}
  /\ t.pc \in {"due", "mark", "retain"} => t.op = "tick"
  /\ t.pc \in {"find", "rcount", "tools", "snapshot", "replay", "resync", "end"} => t.op = "restore"
  /\ t.op = "restore" => t.src \in BackupIds
  /\ t.pc \in {"unlink", "drop"} => t.todo # {} /\ t.op # "restore"

TypeInv == TypeOK /\ \A p \in Procs : Sound(task[p])

LEMMA Bounds ==
  /\ 0 \in 0..MaxBackups /\ 0 \in 0..MaxSlots /\ BackupIds \subseteq 0..MaxBackups
  /\ MaxBackups \in Nat /\ BackupIds = 1..MaxBackups
BY BoundsNat DEF BackupIds

LEMMA IdleSound ==
  Sound(NoTask) /\ NoTask \in Tasks /\ NoTask.pc = "idle" /\ NoTask.op = "none" /\ NoTask.todo = {}
BY BoundsNat DEF Sound, NoTask, Tasks, InRun, Empty, NoBackup, Tables, BackupRows, BackupIds

LEMMA BecomeSound ==
  ASSUME TypeInv, NEW p \in Procs, NEW t, Sound(t), Become(p, t)
  PROVE  /\ task' \in [Procs -> Tasks] /\ \A q \in Procs : Sound(task'[q])
         /\ task'[p] = t /\ \A q \in Procs \ {p} : task'[q] = task[q]
BY DEF TypeInv, TypeOK, Become, Sound

LEMMA RefusedSound ==
  ASSUME NEW t, t \in Tasks, t.op = "restore" => t.src \in BackupIds
  PROVE  /\ Sound(Refused(t)) /\ ~InRun(Refused(t))
         /\ Refused(t).pc \in {"idle", "end"}
         /\ t.op = "restore" => Refused(t).op = "restore" /\ Refused(t).pc = "end"
         /\ t.op # "restore" => Refused(t) = NoTask
<1>1. CASE t.op = "restore"
  <2> DEFINE u == [t EXCEPT !.pc = "end", !.mine = 0]
  <2>1. u \in Tasks /\ u.op = t.op /\ u.pc = "end" /\ u.src = t.src
    BY Bounds DEF Tasks
  <2>2. Refused(t) = u
    BY <1>1 DEF Refused
  <2> HIDE DEF u
  <2> QED
    BY <1>1, <2>1, <2>2 DEF Sound, InRun
<1>2. CASE t.op # "restore"
  BY <1>2, IdleSound DEF Refused, InRun
<1> QED
  BY <1>1, <1>2

LEMMA EnterStartSound ==
  ASSUME NEW t, t \in Tasks, t.op \in {"create", "tick", "restore"},
         t.op = "restore" => t.src \in BackupIds
  PROVE  /\ Sound(EnterStart(t))
         /\ EnterStart(t).pc \in {"idle", "end", "count"}
         /\ t.op = "restore" => EnterStart(t).op = "restore" /\ EnterStart(t).pc # "idle"
BY RefusedSound, IdleSound DEF EnterStart, Sound, Tasks, InRun

LEMMA AfterRunSound ==
  ASSUME NEW t, t \in Tasks, t.op \in {"create", "tick", "restore"},
         t.op = "restore" => t.src \in BackupIds, NEW completed \in BOOLEAN
  PROVE  /\ Sound(AfterRun(t, completed))
         /\ AfterRun(t, completed).pc \in {"idle", "retain", "snapshot", "end"}
         /\ t.op = "restore" => /\ AfterRun(t, completed).op = "restore"
                                /\ AfterRun(t, completed).pc \in {"snapshot", "end"}
<1>1. CASE t.op = "create"
  BY <1>1, IdleSound DEF AfterRun
<1>2. CASE t.op = "tick"
  <2> DEFINE u == [t EXCEPT !.pc = "retain", !.mine = 0]
  <2>1. u \in Tasks /\ u.op = t.op /\ u.pc = "retain" /\ u.src = t.src
    BY Bounds DEF Tasks
  <2>2. AfterRun(t, completed) = u
    BY <1>2 DEF AfterRun
  <2> HIDE DEF u
  <2> QED
    BY <1>2, <2>1, <2>2 DEF Sound, InRun
<1>3. CASE t.op = "restore"
  <2> DEFINE pc == IF completed THEN "snapshot" ELSE "end"
             u == [t EXCEPT !.pc = pc, !.mine = 0]
  <2>1. u \in Tasks /\ u.op = t.op /\ u.pc = pc /\ u.src = t.src
    BY Bounds DEF Tasks
  <2>2. AfterRun(t, completed) = u
    BY <1>3 DEF AfterRun
  <2> HIDE DEF u
  <2> QED
    BY <1>3, <2>1, <2>2 DEF Sound, InRun
<1> QED
  BY <1>1, <1>2, <1>3

\* A request moves on by its program counter alone.
LEMMA GotoSound ==
  ASSUME TypeInv, NEW p \in Procs,
         NEW pc \in {"idle", "mark", "insert", "dump", "finish", "fail", "drop", "rcount",
                     "tools", "resync"},
         pc \in {"dump", "finish", "fail"} => InRun(task[p]),
         pc = "insert" => Stands(p, "count"), pc = "drop" => Stands(p, "unlink"),
         pc = "mark" => Stands(p, "due"), pc = "rcount" => Stands(p, "find"),
         pc = "tools" => Stands(p, "rcount"), pc = "resync" => Stands(p, "replay")
  PROVE  Sound([task[p] EXCEPT !.pc = pc])
BY DEF TypeInv, TypeOK, Sound, Tasks, InRun, Stands

LEMMA InitTyping == ASSUME Init PROVE TypeInv
<1>1. rows \in Tables /\ dumps \in [BackupIds -> [rows : Tables, lastRun : 0..MaxSlots]]
  BY BoundsNat DEF Init, Empty, NoBackup, Tables, BackupRows
<1>2. task \in [Procs -> Tasks] /\ \A p \in Procs : Sound(task[p])
  BY IdleSound DEF Init
<1>3. /\ files \subseteq BackupIds /\ lastRun \in 0..MaxSlots /\ slot \in 0..MaxSlots
      /\ calls \in 0..MaxCalls /\ begun \in 0..MaxBackups /\ failures \in 0..MaxFailures
      /\ scheduled \in Nat
  BY BoundsNat DEF Init
<1>4. running \in BOOLEAN /\ restoring \in BOOLEAN /\ restored \in BOOLEAN /\ parted \in BOOLEAN
  BY DEF Init
<1> QED
  BY <1>1, <1>2, <1>3, <1>4 DEF TypeInv, TypeOK

\* A step of one request that leaves database, files, flags and history alone.
LEMMA CalmTyping ==
  ASSUME TypeInv, NEW p \in Procs, NEW t, Sound(t), Become(p, t),
         UNCHANGED <<tables, files, dumps, slot, begun, failures, history>>,
         calls' \in 0..MaxCalls, running' \in BOOLEAN, restoring' \in BOOLEAN
  PROVE  TypeInv'
<1>1. task' \in [Procs -> Tasks] /\ \A q \in Procs : Sound(task'[q])
  BY BecomeSound
<1> QED
  BY <1>1 DEF TypeInv, TypeOK, tables, history

LEMMA AskTyping ==
  ASSUME TypeInv, NEW p \in Handlers, Request(p)
  PROVE  TypeInv'
<1>1. ASSUME NEW t, Sound(t), Requested(p, t) PROVE TypeInv'
  <2>1. calls' \in 0..MaxCalls
    BY <1>1, BoundsNat DEF Requested, TypeInv, TypeOK
  <2> QED
    BY <1>1, <2>1, CalmTyping DEF Requested, flags, Procs, TypeInv, TypeOK
<1>2. CASE CreateRequest(p)
  <2> DEFINE t == [NoTask EXCEPT !.op = "create"]
  <2>1. t \in Tasks /\ t.op = "create"
    BY IdleSound DEF Tasks
  <2>2. Requested(p, EnterStart(t))
    BY <1>2 DEF CreateRequest
  <2> HIDE DEF t
  <2> QED
    BY <1>1, <2>1, <2>2, EnterStartSound
<1>3. ASSUME NEW b \in BackupIds, RestoreRequest(p, b) PROVE TypeInv'
  <2> DEFINE t == [NoTask EXCEPT !.op = "restore", !.src = b, !.pc = "find"]
  <2>1. Sound(t)
    BY IdleSound, Bounds DEF Sound, Tasks, InRun
  <2>2. Requested(p, t)
    BY <1>3 DEF RestoreRequest
  <2> HIDE DEF t
  <2> QED
    BY <1>1, <2>1, <2>2
<1>4. ASSUME NEW b \in BackupIds, DeleteRequest(p, b) PROVE TypeInv'
  <2> DEFINE t == [NoTask EXCEPT !.op = "delete", !.todo = {b}, !.snap = rows, !.pc = "unlink"]
  <2>1. Sound(t)
    BY IdleSound, ZenonT(40) DEF Sound, Tasks, InRun, BackupIds, TypeInv, TypeOK
  <2>2. Requested(p, t)
    BY <1>4 DEF DeleteRequest
  <2> HIDE DEF t
  <2> QED
    BY <1>1, <2>1, <2>2
<1> QED
  BY <1>2, <1>3, <1>4 DEF Request

LEMMA TickTyping ==
  ASSUME TypeInv, Tick \/ TickStep
  PROVE  TypeInv'
<1> DEFINE s == Scheduler
<1>1. s \in Procs /\ task[s] \in Tasks /\ Sound(task[s])
  BY DEF Procs, TypeInv, TypeOK
<1>2. CASE Tick
  <2> DEFINE t == [NoTask EXCEPT !.op = "tick", !.slot = slot, !.pc = "due"]
  <2>1. Sound(t)
    BY IdleSound DEF Sound, Tasks, InRun, TypeInv, TypeOK
  <2>2. Become(s, t)
    BY <1>2 DEF Tick
  <2> HIDE DEF t
  <2> QED
    BY <1>1, <1>2, <2>1, <2>2, CalmTyping DEF Tick, bounds, flags, TypeInv, TypeOK
<1>3. CASE TickCount
  <2>1. \E t : Sound(t) /\ Become(s, t)
    BY <1>1, <1>3, IdleSound, GotoSound DEF TickCount, Goto
  <2> QED
    BY <1>1, <1>3, <2>1, CalmTyping DEF TickCount, bounds, flags, TypeInv, TypeOK
<1>4. CASE Mark
  <2> DEFINE u == [task[s] EXCEPT !.slot = 0]
  <2>1. u \in Tasks /\ u.op = task[s].op /\ u.src = task[s].src
    BY <1>1, BoundsNat DEF Tasks
  <2>2. Become(s, EnterStart(u)) /\ lastRun' = task[s].slot
    BY <1>4 DEF Mark
  <2> HIDE DEF u
  <2>3. u.op \in {"create", "tick", "restore"}
    BY <1>1, <1>4, <2>1 DEF Mark, Stands, Sound
  <2>4. Sound(EnterStart(u))
    BY <1>1, <2>1, <2>3, EnterStartSound DEF Sound
  <2>5. task' \in [Procs -> Tasks] /\ \A q \in Procs : Sound(task'[q])
    BY <1>1, <2>2, <2>4, BecomeSound
  <2>6. lastRun' \in 0..MaxSlots
    BY <1>1, <2>2 DEF Tasks
  <2> QED
    BY <1>4, <2>5, <2>6 DEF Mark, flags, bounds, history, TypeInv, TypeOK
<1>5. CASE Retain
  <2> DEFINE prior == {b \in BackupIds : /\ Present(b) /\ rows[b].kind = "SCHEDULED"
                                 /\ b \notin ActiveRows /\ Cardinality(Newer(b)) >= Keep}
             t == [task[s] EXCEPT !.pc = "unlink", !.todo = prior, !.snap = rows]
  <2>1. Become(s, NoTask) \/ (prior # {} /\ Become(s, t))
    BY <1>5 DEF Retain
  <2>2. prior \subseteq BackupIds
    OBVIOUS
  <2> HIDE DEF prior
  <2>3. prior # {} => Sound(t)
    BY <1>1, <1>5, <2>2 DEF Retain, Stands, Sound, Tasks, InRun, TypeInv, TypeOK
  <2> HIDE DEF t
  <2> QED
    BY <1>1, <1>5, <2>1, <2>3, IdleSound, CalmTyping DEF Retain, bounds, flags, TypeInv, TypeOK
<1> QED
  BY <1>2, <1>3, <1>4, <1>5 DEF TickStep

\* The database, the files or the flags change with a step of one request.
LEMMA StepTyping ==
  ASSUME TypeInv, NEW p \in Procs, NEW t, Sound(t), Become(p, t),
         rows' \in Tables, lastRun' \in 0..MaxSlots, files' \subseteq BackupIds,
         dumps' \in [BackupIds -> [rows : Tables, lastRun : 0..MaxSlots]],
         running' \in BOOLEAN, restoring' \in BOOLEAN, restored' \in BOOLEAN,
         begun' \in 0..MaxBackups, failures' \in 0..MaxFailures, scheduled' \in Nat,
         UNCHANGED <<slot, calls, parted>>
  PROVE  TypeInv'
<1>1. task' \in [Procs -> Tasks] /\ \A q \in Procs : Sound(task'[q])
  BY BecomeSound
<1> QED
  BY <1>1 DEF TypeInv, TypeOK

LEMMA FailTyping ==
  ASSUME TypeInv, CanFail \/ UNCHANGED failures
  PROVE  failures' \in 0..MaxFailures
BY BoundsNat DEF TypeInv, TypeOK, CanFail

LEMMA SetRowTyping ==
  ASSUME TypeInv, NEW b, NEW x \in BackupRows, SetRow(b, x)
  PROVE  rows' \in Tables
BY DEF TypeInv, TypeOK, SetRow, Tables

LEMMA RemoveFileTyping ==
  ASSUME TypeInv, NEW b, RemoveFile(b)
  PROVE  files' \subseteq BackupIds /\ dumps' \in [BackupIds -> [rows : Tables, lastRun : 0..MaxSlots]]
<1>1. NoDump \in [rows : Tables, lastRun : 0..MaxSlots]
  BY Bounds DEF NoDump, Empty, NoBackup, Tables, BackupRows
<1> QED
  BY <1>1 DEF RemoveFile, TypeInv, TypeOK

LEMMA CountTyping ==
  ASSUME TypeInv, NEW p \in Procs, Count(p)
  PROVE  TypeInv'
<1>1. task[p] \in Tasks /\ Sound(task[p])
  BY DEF TypeInv, TypeOK
<1>2. \E t : Sound(t) /\ Become(p, t)
  BY <1>1, GotoSound, RefusedSound DEF Count, Goto, Sound
<1> QED
  BY <1>2, CalmTyping DEF Count, bounds, flags, TypeInv, TypeOK

LEMMA InsertTyping ==
  ASSUME TypeInv, NEW p \in Procs, Insert(p)
  PROVE  TypeInv'
<1>1. /\ task[p] \in Tasks /\ Sound(task[p])
      /\ task[p].op \in {"create", "tick", "restore"}
  BY DEF Insert, Stands, TypeInv, TypeOK, Sound
<1>2. CASE begun = MaxBackups
  BY <1>1, <1>2, RefusedSound, StepTyping DEF Insert, Sound, TypeInv, TypeOK
<1>3. CASE begun # MaxBackups
  <2> DEFINE b == begun + 1
             t == [task[p] EXCEPT !.pc = "start", !.mine = b]
             row == [status |-> "PENDING", kind |-> KindOf(task[p]), file |-> FALSE]
  <2>1. b \in BackupIds /\ b \in 0..MaxBackups
    BY <1>3, Bounds DEF TypeInv, TypeOK
  <2>2. row \in BackupRows
    BY <1>1 DEF KindOf, BackupRows
  <2>3. SetRow(b, row) /\ Become(p, t) /\ begun' = b /\ running' = TRUE
    BY <1>3 DEF Insert
  <2> HIDE DEF b, row
  <2>4. Sound(t)
    BY <1>1, <2>1 DEF Sound, Tasks, InRun
  <2> HIDE DEF t
  <2>5. rows' \in Tables
    BY <2>2, <2>3, SetRowTyping
  <2>6. scheduled' \in Nat
    BY <1>3 DEF Insert, TypeInv, TypeOK
  <2>7. UNCHANGED <<files, dumps, lastRun, slot, restoring, calls, failures, restored, parted>>
    BY DEF Insert
  <2> QED
    BY <2>1, <2>3, <2>4, <2>5, <2>6, <2>7, StepTyping DEF TypeInv, TypeOK
<1> QED
  BY <1>2, <1>3

LEMMA StartRunTyping ==
  ASSUME TypeInv, NEW p \in Procs, StartRun(p)
  PROVE  TypeInv'
<1> DEFINE b == task[p].mine
<1>1. b \in BackupIds /\ rows[b] \in BackupRows /\ InRun(task[p])
  BY DEF StartRun, Stands, TypeInv, TypeOK, Sound, InRun, Tables
<1>2. [rows[b] EXCEPT !.status = "RUNNING"] \in BackupRows
  BY <1>1 DEF BackupRows
<1>3. rows' \in Tables
  BY <1>2, SetRowTyping DEF StartRun, TypeInv, TypeOK
<1>4. PICK pc \in {"dump", "fail"} : Goto(p, pc)
  BY DEF StartRun
<1>5. Sound([task[p] EXCEPT !.pc = pc])
  BY <1>1, GotoSound
<1>6. UNCHANGED <<files, dumps, lastRun, slot, flags, bounds, history>>
  BY DEF StartRun
<1> QED
  BY <1>3, <1>4, <1>5, <1>6, StepTyping DEF Goto, flags, bounds, history, TypeInv, TypeOK

LEMMA DumpTyping ==
  ASSUME TypeInv, NEW p \in Procs, Dump(p)
  PROVE  TypeInv'
<1> DEFINE b == task[p].mine
<1>1. b \in BackupIds /\ InRun(task[p])
  BY DEF Dump, Stands, TypeInv, TypeOK, Sound, InRun
<1>2. PICK pc \in {"finish", "fail"} : Goto(p, pc)
  BY DEF Dump
<1>3. Sound([task[p] EXCEPT !.pc = pc])
  BY <1>1, GotoSound
<1>4. /\ files' \subseteq BackupIds
      /\ dumps' \in [BackupIds -> [rows : Tables, lastRun : 0..MaxSlots]]
  BY <1>1 DEF Dump, TypeInv, TypeOK
<1>5. failures' \in 0..MaxFailures
  BY FailTyping DEF Dump
<1>6. UNCHANGED <<tables, slot, flags, calls, begun, history>>
  BY DEF Dump
<1> QED
  BY <1>2, <1>3, <1>4, <1>5, <1>6, StepTyping DEF Goto, tables, flags, history, TypeInv, TypeOK

LEMMA FinishTyping ==
  ASSUME TypeInv, NEW p \in Procs, Finish(p)
  PROVE  TypeInv'
<1> DEFINE b == task[p].mine
<1>1. /\ b \in BackupIds /\ rows[b] \in BackupRows /\ InRun(task[p])
      /\ task[p] \in Tasks /\ Sound(task[p])
  BY DEF Finish, Stands, TypeInv, TypeOK, Sound, InRun, Tables
<1>2. [rows[b] EXCEPT !.status = "COMPLETED", !.file = TRUE] \in BackupRows
  BY <1>1 DEF BackupRows
<1>3. rows' \in Tables
  BY <1>2, SetRowTyping DEF Finish, TypeInv, TypeOK
<1>4. \E t : Sound(t) /\ Become(p, t)
  BY <1>1, GotoSound, AfterRunSound DEF Finish, Goto, Sound
<1>5. UNCHANGED <<files, dumps, lastRun, slot, restoring, bounds, history>> /\ running' \in BOOLEAN
  BY DEF Finish, TypeInv, TypeOK
<1> QED
  BY <1>3, <1>4, <1>5, StepTyping DEF bounds, history, TypeInv, TypeOK

LEMMA FailedTyping ==
  ASSUME TypeInv, NEW p \in Procs, Fail(p)
  PROVE  TypeInv'
<1> DEFINE b == task[p].mine
<1>1. /\ b \in BackupIds /\ rows[b] \in BackupRows /\ InRun(task[p])
      /\ task[p] \in Tasks /\ Sound(task[p])
  BY DEF Fail, Stands, TypeInv, TypeOK, Sound, InRun, Tables
<1>2. [rows[b] EXCEPT !.status = "FAILED"] \in BackupRows
  BY <1>1 DEF BackupRows
<1>3. rows' \in Tables
  BY <1>2, SetRowTyping DEF Fail, TypeInv, TypeOK
<1>4. \E t : Sound(t) /\ Become(p, t)
  BY <1>1, RefusedSound, AfterRunSound DEF Fail, Sound
<1>5. UNCHANGED <<lastRun, slot, restoring, bounds, history>> /\ running' \in BOOLEAN
  BY DEF Fail
<1>6. files' \subseteq BackupIds /\ dumps' \in [BackupIds -> [rows : Tables, lastRun : 0..MaxSlots]]
  BY RemoveFileTyping DEF Fail
<1> QED
  BY <1>3, <1>4, <1>5, <1>6, StepTyping DEF bounds, history, TypeInv, TypeOK

LEMMA DeleteTyping ==
  ASSUME TypeInv, NEW p \in Procs, Unlink(p) \/ Drop(p)
  PROVE  TypeInv'
<1> DEFINE b == Target(task[p])
<1>1. task[p] \in Tasks /\ Sound(task[p])
  BY DEF TypeInv, TypeOK
<1>2. CASE Unlink(p)
  <2>1. \E t : Sound(t) /\ Become(p, t)
    BY <1>2, GotoSound DEF Unlink, Goto
  <2>2. files' \subseteq BackupIds /\ dumps' \in [BackupIds -> [rows : Tables, lastRun : 0..MaxSlots]]
    BY <1>2, RemoveFileTyping DEF Unlink, TypeInv, TypeOK
  <2>3. UNCHANGED <<tables, slot, flags, bounds, history>>
    BY <1>2 DEF Unlink
  <2> QED
    BY <2>1, <2>2, <2>3, StepTyping DEF tables, flags, bounds, history, TypeInv, TypeOK
<1>3. CASE Drop(p)
  <2> DEFINE t == [task[p] EXCEPT !.pc = "unlink", !.todo = @ \ {b}]
  <2>1. Become(p, NoTask) \/ (task[p].todo # {b} /\ Become(p, t))
    BY <1>3 DEF Drop
  <2>2. task[p].todo # {} /\ task[p].op # "restore"
    BY <1>1, <1>3 DEF Drop, Stands, Sound
  <2> HIDE DEF b
  <2>3. task[p].todo # {b} => Sound(t)
    <3>1. t \in Tasks /\ t.pc = "unlink" /\ t.op = task[p].op /\ t.src = task[p].src
      BY <1>1 DEF Tasks
    <3>2. t.todo = task[p].todo \ {b}
      BY <1>1 DEF Tasks
    <3> HIDE DEF t
    <3> QED
      BY <1>1, <2>2, <3>1, <3>2 DEF Sound, InRun
  <2>4. NoBackup \in BackupRows
    BY DEF NoBackup, BackupRows
  <2>5. rows' \in Tables
    BY <1>3, <2>4, SetRowTyping DEF Drop
  <2>6. UNCHANGED <<files, dumps, lastRun, slot, flags, bounds, history>>
    BY <1>3 DEF Drop
  <2> HIDE DEF t
  <2> QED
    BY <2>1, <2>3, <2>5, <2>6, IdleSound, StepTyping DEF flags, bounds, history, TypeInv, TypeOK
<1> QED
  BY <1>2, <1>3

LEMMA RestoreTyping ==
  ASSUME TypeInv, NEW p \in Procs,
         \/ FindFile(p) \/ RestoreCount(p) \/ RaiseFlag(p) \/ Snapshot(p) \/ Replay(p)
         \/ Resync(p) \/ LowerFlag(p)
  PROVE  TypeInv'
<1>1. task[p] \in Tasks /\ Sound(task[p])
  BY DEF TypeInv, TypeOK
<1>2. CASE FindFile(p) \/ RestoreCount(p) \/ LowerFlag(p)
  <2>1. \E t : Sound(t) /\ Become(p, t)
    BY <1>2, IdleSound, GotoSound DEF FindFile, RestoreCount, LowerFlag, Goto
  <2>2. UNCHANGED <<tables, files, dumps, slot, running, bounds, history>> /\ restoring' \in BOOLEAN
    BY <1>2 DEF FindFile, RestoreCount, LowerFlag, flags, TypeInv, TypeOK
  <2> QED
    BY <2>1, <2>2, CalmTyping DEF bounds, TypeInv, TypeOK
<1>3. CASE RaiseFlag(p)
  <2>1. Sound(EnterStart(task[p])) /\ Become(p, EnterStart(task[p]))
    BY <1>1, <1>3, EnterStartSound DEF RaiseFlag, Stands, Sound
  <2> QED
    BY <1>3, <2>1, CalmTyping DEF RaiseFlag, bounds, TypeInv, TypeOK
<1>4. CASE Snapshot(p)
  <2> DEFINE t == [task[p] EXCEPT !.pc = "replay", !.snap = rows]
  <2>1. Sound(t)
    BY <1>1, <1>4 DEF Snapshot, Stands, Sound, Tasks, InRun, TypeInv, TypeOK
  <2>2. Become(p, t)
    BY <1>4 DEF Snapshot
  <2> HIDE DEF t
  <2> QED
    BY <1>4, <2>1, <2>2, CalmTyping DEF Snapshot, flags, bounds, TypeInv, TypeOK
<1>5. CASE Replay(p)
  <2>1. \E t : Sound(t) /\ Become(p, t)
    BY <1>5, GotoSound DEF Replay, Goto, Stands
  <2>2. task[p].src \in BackupIds
    BY <1>1, <1>5 DEF Replay, Stands, Sound
  <2>3. dumps[task[p].src] \in [rows : Tables, lastRun : 0..MaxSlots]
    BY <2>2 DEF TypeInv, TypeOK
  <2>4. rows' \in Tables /\ lastRun' \in 0..MaxSlots
    BY <1>5, <2>3 DEF Replay, tables, TypeInv, TypeOK
  <2>5. failures' \in 0..MaxFailures
    BY <1>5, FailTyping DEF Replay
  <2>6. UNCHANGED <<files, dumps, slot, flags, calls, begun, scheduled, parted>> /\ restored' \in BOOLEAN
    BY <1>5 DEF Replay
  <2> QED
    BY <2>1, <2>4, <2>5, <2>6, StepTyping DEF flags, TypeInv, TypeOK
<1>6. CASE Resync(p)
  <2> DEFINE t == [task[p] EXCEPT !.pc = "end", !.snap = Empty]
  <2>1. Empty \in Tables
    BY DEF Empty, NoBackup, Tables, BackupRows
  <2>2. Sound(t)
    BY <1>1, <1>6, <2>1 DEF Resync, Stands, Sound, Tasks, InRun
  <2>3. Become(p, t)
    BY <1>6 DEF Resync
  <2> HIDE DEF t
  <2>4. task[p].snap \in Tables
    BY <1>1 DEF Tasks
  <2>5. rows' \in Tables
    BY <1>6, <2>4 DEF Resync, Tables, TypeInv, TypeOK
  <2>6. failures' \in 0..MaxFailures
    BY <1>6, FailTyping DEF Resync
  <2>7. UNCHANGED <<files, dumps, lastRun, slot, flags, calls, begun, history>>
    BY <1>6 DEF Resync
  <2> QED
    BY <2>2, <2>3, <2>5, <2>6, <2>7, StepTyping DEF flags, history, TypeInv, TypeOK
<1> QED
  BY <1>2, <1>3, <1>4, <1>5, <1>6

LEMMA CrashTyping ==
  ASSUME TypeInv, Crash
  PROVE  TypeInv'
<1>1. task' \in [Procs -> Tasks] /\ \A p \in Procs : Sound(task'[p])
  BY IdleSound DEF Crash, Restarted
<1>2. rows' \in Tables
  <2>1. \A b \in BackupIds : rows[b] \in BackupRows /\ [rows[b] EXCEPT !.status = "FAILED"] \in BackupRows
    BY ZenonT(40) DEF TypeInv, TypeOK, Tables, BackupRows
  <2> QED
    BY <2>1 DEF Crash, Tables
<1>3. failures' \in 0..MaxFailures
  BY FailTyping DEF Crash, Restarted
<1>4. /\ UNCHANGED <<files, dumps, lastRun, slot, calls, begun, scheduled, restored>>
      /\ running' \in BOOLEAN /\ restoring' \in BOOLEAN /\ parted' \in BOOLEAN
  BY DEF Crash, Restarted, Torn, TypeInv, TypeOK
<1> QED
  BY <1>1, <1>2, <1>3, <1>4 DEF TypeInv, TypeOK

LEMMA NextTyping == TypeInv /\ [Next]_vars => TypeInv'
<1> SUFFICES ASSUME TypeInv, [Next]_vars PROVE TypeInv'
  OBVIOUS
<1>1. CASE NextSlot
  BY <1>1, BoundsNat DEF NextSlot, tables, flags, bounds, history, TypeInv, TypeOK
<1>2. ASSUME NEW p \in Procs, Step(p) PROVE TypeInv'
  BY <1>2, CountTyping, InsertTyping, StartRunTyping, DumpTyping, FinishTyping, FailedTyping,
     DeleteTyping, RestoreTyping DEF Step, Run
<1>3. CASE UNCHANGED vars
  BY <1>3 DEF vars, TypeInv, TypeOK
<1> QED
  BY <1>1, <1>2, <1>3, TickTyping, CrashTyping, AskTyping DEF Next

\* Every reachable state is well typed, and so is what a request has in hand.
THEOREM Typed == Spec => []TypeInv
BY InitTyping, NextTyping, PTL DEF Spec

-------------------------------------------------------------------------------
(* Nothing blocks the next backup.                                           *)

\* A restore that has raised its flag.
Holds(t) == t.op = "restore" /\ t.pc \notin {"idle", "find", "rcount", "tools"}

\* Until a restore brings rows back, whoever raised a flag or made an active
\* row is still at it.
HeldInv == ~restored =>
  /\ running => \E p \in Procs : InRun(task[p])
  /\ restoring => \E p \in Procs : Holds(task[p])
  /\ \A b \in ActiveRows : \E p \in Procs : InRun(task[p]) /\ task[p].mine = b
  /\ \A p \in Procs : ~Stands(p, "resync")

\* A step of p keeps what p holds, or takes it down with it.
LEMMA HeldStep ==
  ASSUME TypeInv, HeldInv, NEW p \in Procs, NEW t, Become(p, t), restored => restored',
         ~restored' =>
           /\ t.pc # "resync"
           /\ \/ ~InRun(task[p])
              \/ InRun(t) /\ t.mine = task[p].mine
              \/ ~running' /\ task[p].mine \notin ActiveRows'
           /\ \A b \in ActiveRows' : b \in ActiveRows \/ (InRun(t) /\ t.mine = b)
           /\ running' => running \/ InRun(t)
           /\ restoring' => (restoring /\ ~Holds(task[p])) \/ Holds(t)
  PROVE  HeldInv'
<1>1. task'[p] = t /\ \A q \in Procs \ {p} : task'[q] = task[q]
  BY DEF TypeInv, TypeOK, Become
<1> SUFFICES ASSUME ~restored' PROVE
      /\ running' => \E q \in Procs : InRun(task'[q])
      /\ restoring' => \E q \in Procs : Holds(task'[q])
      /\ \A b \in ActiveRows' : \E q \in Procs : InRun(task'[q]) /\ task'[q].mine = b
      /\ \A q \in Procs : task'[q].pc # "resync"
  BY DEF HeldInv, Stands
<1>2. /\ running => \E q \in Procs : InRun(task[q])
      /\ restoring => \E q \in Procs : Holds(task[q])
      /\ \A b \in ActiveRows : \E q \in Procs : InRun(task[q]) /\ task[q].mine = b
      /\ \A q \in Procs : task[q].pc # "resync"
  BY DEF HeldInv, Stands
<1>3. running' => \E q \in Procs : InRun(task'[q])
  BY <1>1, <1>2
<1>4. restoring' => \E q \in Procs : Holds(task'[q])
  BY <1>1, <1>2
<1>5. ASSUME NEW b \in ActiveRows' PROVE \E q \in Procs : InRun(task'[q]) /\ task'[q].mine = b
  BY <1>1, <1>2, <1>5
<1> QED
  BY <1>1, <1>2, <1>3, <1>4, <1>5

\* A step outside the runs that touches neither rows nor flags.
LEMMA QuietHeld ==
  ASSUME TypeInv, HeldInv, NEW p \in Procs, NEW t, Become(p, t), t.pc # "resync",
         ~InRun(task[p]), Holds(task[p]) => Holds(t),
         UNCHANGED <<rows, flags, restored>>
  PROVE  HeldInv'
<1>1. ActiveRows' = ActiveRows
  BY DEF ActiveRows
<1> QED
  BY <1>1, HeldStep DEF flags

LEMMA AskHeld ==
  ASSUME TypeInv, HeldInv, NEW p \in Handlers, Request(p)
  PROVE  HeldInv'
<1>1. ASSUME NEW t, Requested(p, t), t.pc # "resync" PROVE HeldInv'
  <2>1. ~InRun(task[p]) /\ ~Holds(task[p])
    BY <1>1 DEF Requested, Stands, InRun, Holds
  <2> QED
    BY <1>1, <2>1, QuietHeld DEF Requested, tables, history, Procs
<1>2. CASE CreateRequest(p)
  <2> DEFINE t == [NoTask EXCEPT !.op = "create"]
  <2>1. t \in Tasks /\ t.op = "create"
    BY IdleSound DEF Tasks
  <2>2. Requested(p, EnterStart(t))
    BY <1>2 DEF CreateRequest
  <2> HIDE DEF t
  <2>3. EnterStart(t).pc # "resync"
    BY <2>1, EnterStartSound
  <2> QED
    BY <1>1, <2>2, <2>3
<1>3. ASSUME NEW b \in BackupIds, RestoreRequest(p, b) PROVE HeldInv'
  <2> DEFINE t == [NoTask EXCEPT !.op = "restore", !.src = b, !.pc = "find"]
  <2>1. Requested(p, t)
    BY <1>3 DEF RestoreRequest
  <2>2. t.pc # "resync"
    BY IdleSound DEF Tasks
  <2> HIDE DEF t
  <2> QED
    BY <1>1, <2>1, <2>2
<1>4. ASSUME NEW b \in BackupIds, DeleteRequest(p, b) PROVE HeldInv'
  <2> DEFINE t == [NoTask EXCEPT !.op = "delete", !.todo = {b}, !.snap = rows, !.pc = "unlink"]
  <2>1. Requested(p, t)
    BY <1>4 DEF DeleteRequest
  <2>2. t.pc # "resync"
    BY IdleSound DEF Tasks
  <2> HIDE DEF t
  <2> QED
    BY <1>1, <2>1, <2>2
<1> QED
  BY <1>2, <1>3, <1>4 DEF Request

LEMMA TickHeld ==
  ASSUME TypeInv, HeldInv, Tick \/ TickStep
  PROVE  HeldInv'
<1> DEFINE s == Scheduler
<1>1. s \in Procs /\ task[s] \in Tasks /\ Sound(task[s])
  BY DEF Procs, TypeInv, TypeOK
<1>2. ~InRun(task[s]) /\ ~Holds(task[s]) /\ UNCHANGED <<rows, flags, restored>>
  BY <1>1 DEF Tick, TickStep, TickCount, Mark, Retain, Stands, InRun, Holds, Sound, tables, flags, history
<1>3. \E t : Become(s, t) /\ t.pc # "resync"
  <2>1. CASE Tick
    <3> DEFINE t == [NoTask EXCEPT !.op = "tick", !.slot = slot, !.pc = "due"]
    <3>1. t.pc = "due"
      BY IdleSound DEF Tasks
    <3>2. Become(s, t)
      BY <2>1 DEF Tick
    <3> HIDE DEF t
    <3> QED
      BY <3>1, <3>2
  <2>2. CASE TickCount
    BY <1>1, <2>2, IdleSound DEF TickCount, Goto, Tasks
  <2>3. CASE Mark
    <3> DEFINE u == [task[s] EXCEPT !.slot = 0]
    <3>1. u \in Tasks /\ u.op = "tick"
      BY <1>1, <2>3, Bounds DEF Mark, Stands, Sound, Tasks
    <3>2. Become(s, EnterStart(u))
      BY <2>3 DEF Mark
    <3> HIDE DEF u
    <3> QED
      BY <3>1, <3>2, EnterStartSound
  <2>4. CASE Retain
    <3>1. \/ Become(s, NoTask)
          \/ \E prior : Become(s, [task[s] EXCEPT !.pc = "unlink", !.todo = prior, !.snap = rows])
      BY <2>4 DEF Retain
    <3>2. \A prior : [task[s] EXCEPT !.pc = "unlink", !.todo = prior, !.snap = rows].pc = "unlink"
      BY <1>1 DEF Tasks
    <3> QED
      BY <3>1, <3>2, IdleSound
  <2> QED
    BY <2>1, <2>2, <2>3, <2>4 DEF TickStep
<1> QED
  BY <1>1, <1>2, <1>3, QuietHeld

\* A row once absent, active or done: what a run does to its own.
LEMMA RunHeld ==
  ASSUME TypeInv, HeldInv, NEW p \in Procs, Run(p)
  PROVE  HeldInv'
<1>1. task[p] \in Tasks /\ Sound(task[p]) /\ rows \in Tables
  BY DEF TypeInv, TypeOK
<1> DEFINE b == task[p].mine
<1>2. UNCHANGED <<restoring, restored>>
  BY DEF Run, Count, Insert, StartRun, Dump, Finish, Fail, flags, history
<1>3. ASSUME NEW pc \in {"dump", "finish", "fail"}, Goto(p, pc), InRun(task[p]),
             ActiveRows' \subseteq ActiveRows \cup {b}, UNCHANGED running
      PROVE  HeldInv'
  <2> DEFINE t == [task[p] EXCEPT !.pc = pc]
  <2>1. InRun(t) /\ t.mine = b /\ t.pc # "resync" /\ t.op = task[p].op
    BY <1>1 DEF Tasks, InRun
  <2>2. Holds(task[p]) => Holds(t)
    BY <1>1, <2>1 DEF Holds, InRun
  <2>3. Become(p, t)
    BY <1>3 DEF Goto
  <2> HIDE DEF t
  <2> QED
    BY <1>2, <1>3, <2>1, <2>2, <2>3, HeldStep
<1>4. ASSUME NEW t, Become(p, t), t.pc # "resync", InRun(task[p]), ~running',
             ActiveRows' \subseteq ActiveRows \ {b}, Holds(task[p]) => Holds(t)
      PROVE  HeldInv'
  BY <1>2, <1>4, HeldStep
<1>5. CASE Count(p)
  <2>1. ~InRun(task[p]) /\ UNCHANGED <<rows, flags, restored>>
    BY <1>5 DEF Count, Stands, InRun, tables, history
  <2>2. task[p].op \in {"create", "tick", "restore"} /\ (task[p].op = "restore" => task[p].src \in BackupIds)
    BY <1>1, <1>5 DEF Count, Stands, Sound
  <2>3. \E t : Become(p, t) /\ t.pc # "resync" /\ (Holds(task[p]) => Holds(t))
    <3>1. CASE Become(p, Refused(task[p]))
      BY <1>1, <2>2, <3>1, RefusedSound DEF Holds
    <3>2. CASE Goto(p, "insert")
      <4> DEFINE t == [task[p] EXCEPT !.pc = "insert"]
      <4>1. t.pc = "insert" /\ t.op = task[p].op
        BY <1>1 DEF Tasks
      <4>2. Become(p, t)
        BY <3>2 DEF Goto
      <4> HIDE DEF t
      <4> QED
        BY <4>1, <4>2 DEF Holds
    <3> QED
      BY <1>5, <3>1, <3>2 DEF Count
  <2> QED
    BY <2>1, <2>3, QuietHeld
<1>6. CASE Insert(p)
  <2>1. ~InRun(task[p]) /\ task[p].op \in {"create", "tick", "restore"}
        /\ (task[p].op = "restore" => task[p].src \in BackupIds)
    BY <1>1, <1>6 DEF Insert, Stands, Sound, InRun
  <2>2. CASE begun = MaxBackups
    <3>1. Become(p, Refused(task[p])) /\ UNCHANGED <<rows, running>>
      BY <1>6, <2>2 DEF Insert
    <3>2. Refused(task[p]).pc # "resync" /\ (Holds(task[p]) => Holds(Refused(task[p])))
      BY <1>1, <2>1, RefusedSound DEF Holds
    <3> QED
      BY <1>2, <2>1, <3>1, <3>2, QuietHeld DEF flags
  <2>3. CASE begun # MaxBackups
    <3> DEFINE c == begun + 1
               t == [task[p] EXCEPT !.pc = "start", !.mine = c]
    <3>1. SetRow(c, [status |-> "PENDING", kind |-> KindOf(task[p]), file |-> FALSE]) /\ Become(p, t)
      BY <1>6, <2>3 DEF Insert
    <3>2. ActiveRows' \subseteq ActiveRows \cup {c}
      BY <1>1, <3>1 DEF ActiveRows, SetRow, Tables
    <3> HIDE DEF c
    <3>3. InRun(t) /\ t.mine = c /\ t.pc # "resync" /\ t.op = task[p].op /\ t.pc = "start"
      BY <1>1 DEF Tasks, InRun
    <3> HIDE DEF t
    <3> QED
      BY <1>2, <2>1, <3>1, <3>2, <3>3, HeldStep DEF Holds
  <2> QED
    BY <2>2, <2>3
<1>7. CASE StartRun(p)
  <2>1. ActiveRows' \subseteq ActiveRows \cup {b}
    BY <1>1, <1>7 DEF StartRun, ActiveRows, SetRow, Tables
  <2> QED
    BY <1>3, <1>7, <2>1 DEF StartRun, Stands, InRun, flags
<1>8. CASE Dump(p)
  <2>1. ActiveRows' = ActiveRows
    BY <1>8 DEF Dump, tables, ActiveRows
  <2> QED
    BY <1>3, <1>8, <2>1 DEF Dump, Stands, InRun, flags
<1>9. CASE Finish(p)
  <2>1. InRun(task[p]) /\ b \in BackupIds /\ task[p].op \in {"create", "tick", "restore"}
        /\ (task[p].op = "restore" => task[p].src \in BackupIds)
    BY <1>1, <1>9 DEF Finish, Stands, Sound, InRun
  <2>2. CASE Present(b)
    <3>1. ActiveRows' \subseteq ActiveRows \ {b}
      BY <1>1, <1>9, <2>1, <2>2, ZenonT(40) DEF Finish, ActiveRows, SetRow, Tables, BackupRows, Active
    <3>2. AfterRun(task[p], TRUE).pc # "resync"
          /\ (Holds(task[p]) => Holds(AfterRun(task[p], TRUE)))
      BY <1>1, <2>1, AfterRunSound DEF Holds
    <3> QED
      BY <1>4, <1>9, <2>1, <2>2, <3>1, <3>2 DEF Finish
  <2>3. CASE ~Present(b)
    <3>1. Goto(p, "fail") /\ UNCHANGED <<rows, running>>
      BY <1>9, <2>3 DEF Finish
    <3>2. ActiveRows' = ActiveRows
      BY <3>1 DEF ActiveRows
    <3> QED
      BY <1>3, <2>1, <3>1, <3>2
  <2> QED
    BY <2>2, <2>3
<1>10. CASE Fail(p)
  <2>1. InRun(task[p]) /\ b \in BackupIds /\ task[p].op \in {"create", "tick", "restore"}
        /\ (task[p].op = "restore" => task[p].src \in BackupIds) /\ ~running'
    BY <1>1, <1>10 DEF Fail, Stands, Sound, InRun
  <2>2. ActiveRows' \subseteq ActiveRows \ {b}
    BY <1>1, <1>10, <2>1, ZenonT(40) DEF Fail, ActiveRows, SetRow, Present, Tables, BackupRows, Active
  <2>3. \E t : Become(p, t) /\ t.pc # "resync" /\ (Holds(task[p]) => Holds(t))
    BY <1>1, <1>10, <2>1, AfterRunSound, RefusedSound DEF Fail, Holds
  <2> QED
    BY <1>4, <2>1, <2>2, <2>3
<1> QED
  BY <1>5, <1>6, <1>7, <1>8, <1>9, <1>10 DEF Run

LEMMA DeleteHeld ==
  ASSUME TypeInv, HeldInv, NEW p \in Procs, Unlink(p) \/ Drop(p)
  PROVE  HeldInv'
<1> DEFINE b == Target(task[p])
<1>1. task[p] \in Tasks /\ Sound(task[p]) /\ rows \in Tables
  BY DEF TypeInv, TypeOK
<1>2. ~InRun(task[p]) /\ UNCHANGED <<flags, restored>>
  BY DEF Unlink, Drop, Stands, InRun, history
<1>3. ActiveRows' \subseteq ActiveRows
  BY <1>1 DEF Unlink, Drop, SetRow, NoBackup, ActiveRows, Active, Tables, tables
<1>4. \E t : Become(p, t) /\ t.pc # "resync" /\ (Holds(task[p]) => Holds(t))
  <2>1. CASE Unlink(p)
    <3> DEFINE t == [task[p] EXCEPT !.pc = "drop"]
    <3>1. t.pc = "drop" /\ t.op = task[p].op
      BY <1>1 DEF Tasks
    <3>2. Become(p, t)
      BY <2>1 DEF Unlink, Goto
    <3> HIDE DEF t
    <3> QED
      BY <3>1, <3>2 DEF Holds
  <2>2. CASE Drop(p)
    <3>1. ~Holds(task[p])
      BY <1>1, <2>2 DEF Drop, Stands, Sound, Holds
    <3> DEFINE t == [task[p] EXCEPT !.pc = "unlink", !.todo = @ \ {b}]
    <3>2. t.pc = "unlink"
      BY <1>1 DEF Tasks
    <3>3. Become(p, NoTask) \/ Become(p, t)
      BY <2>2 DEF Drop
    <3> HIDE DEF t
    <3> QED
      BY <3>1, <3>2, <3>3, IdleSound
  <2> QED
    BY <2>1, <2>2
<1> QED
  BY <1>2, <1>3, <1>4, HeldStep DEF flags

LEMMA RestoreHeld ==
  ASSUME TypeInv, HeldInv, NEW p \in Procs,
         \/ FindFile(p) \/ RestoreCount(p) \/ RaiseFlag(p) \/ Snapshot(p) \/ Replay(p)
         \/ Resync(p) \/ LowerFlag(p)
  PROVE  HeldInv'
<1>1. /\ task[p] \in Tasks /\ Sound(task[p]) /\ ~InRun(task[p])
      /\ task[p].op = "restore" /\ task[p].src \in BackupIds
  BY DEF TypeInv, TypeOK, FindFile, RestoreCount, RaiseFlag, Snapshot, Replay, Resync,
     LowerFlag, Stands, Sound, InRun
<1>2. CASE FindFile(p)
  <2>1. ~Holds(task[p]) /\ UNCHANGED <<rows, flags, restored>>
    BY <1>2 DEF FindFile, Stands, Holds, tables, history
  <2>2. \E t : Become(p, t) /\ t.pc # "resync"
    <3>1. [task[p] EXCEPT !.pc = "rcount"].pc = "rcount"
      BY <1>1 DEF Tasks
    <3>2. Become(p, NoTask) \/ Become(p, [task[p] EXCEPT !.pc = "rcount"])
      BY <1>2 DEF FindFile
    <3> QED
      BY <3>1, <3>2, IdleSound
  <2> QED
    BY <1>1, <2>1, <2>2, QuietHeld
<1>3. CASE RestoreCount(p)
  <2>1. ~Holds(task[p]) /\ UNCHANGED <<rows, flags, restored>>
    BY <1>3 DEF RestoreCount, Stands, Holds, tables, history
  <2>2. \E t : Become(p, t) /\ t.pc # "resync"
    <3>1. [task[p] EXCEPT !.pc = "tools"].pc = "tools"
      BY <1>1 DEF Tasks
    <3>2. Become(p, NoTask) \/ Become(p, [task[p] EXCEPT !.pc = "tools"])
      BY <1>3 DEF RestoreCount, Goto
    <3> QED
      BY <3>1, <3>2, IdleSound
  <2> QED
    BY <1>1, <2>1, <2>2, QuietHeld
<1>4. CASE RaiseFlag(p)
  <2>1. Become(p, EnterStart(task[p])) /\ UNCHANGED <<rows, running, restored>>
    BY <1>4 DEF RaiseFlag, tables, history
  <2>2. Holds(EnterStart(task[p])) /\ EnterStart(task[p]).pc # "resync"
    BY <1>1, EnterStartSound DEF Holds
  <2>3. ActiveRows' = ActiveRows
    BY <2>1 DEF ActiveRows
  <2> QED
    BY <1>1, <2>1, <2>2, <2>3, HeldStep
<1>5. CASE Snapshot(p)
  <2> DEFINE t == [task[p] EXCEPT !.pc = "replay", !.snap = rows]
  <2>1. t.pc = "replay" /\ t.op = "restore"
    BY <1>1 DEF Tasks
  <2>2. Become(p, t) /\ UNCHANGED <<rows, flags, restored>>
    BY <1>5 DEF Snapshot, tables, history
  <2> HIDE DEF t
  <2> QED
    BY <1>1, <2>1, <2>2, QuietHeld DEF Holds
<1>6. CASE Replay(p)
  BY <1>6 DEF Replay, HeldInv
<1>7. CASE Resync(p)
  <2>1. restored /\ restored' = restored
    BY <1>7 DEF Resync, HeldInv, history
  <2> QED
    BY <2>1 DEF HeldInv
<1>8. CASE LowerFlag(p)
  <2>1. Become(p, NoTask) /\ ~restoring' /\ UNCHANGED <<rows, running, restored>>
    BY <1>8 DEF LowerFlag, tables, history
  <2>2. ActiveRows' = ActiveRows
    BY <2>1 DEF ActiveRows
  <2> QED
    BY <1>1, <2>1, <2>2, IdleSound, HeldStep
<1> QED
  BY <1>2, <1>3, <1>4, <1>5, <1>6, <1>7, <1>8

LEMMA CrashHeld == ASSUME TypeInv, Crash PROVE HeldInv'
<1>1. ~running' /\ ~restoring' /\ \A p \in Procs : task'[p].pc = "idle"
  BY IdleSound DEF Crash, Restarted
<1>2. ActiveRows' = {}
  <2>1. \A b \in BackupIds : rows'[b].status \notin Active
    BY DEF Crash, ActiveRows, Active, TypeInv, TypeOK, Tables, BackupRows
  <2> QED
    BY <2>1 DEF ActiveRows
<1> QED
  BY <1>1, <1>2 DEF HeldInv, Stands

LEMMA NextHeld == TypeInv /\ HeldInv /\ [Next]_vars => HeldInv'
<1> SUFFICES ASSUME TypeInv, HeldInv, [Next]_vars PROVE HeldInv'
  OBVIOUS
<1>1. ASSUME NEW p \in Procs, Step(p) PROVE HeldInv'
  BY <1>1, RunHeld, DeleteHeld, RestoreHeld DEF Step
<1>2. CASE NextSlot \/ UNCHANGED vars
  BY <1>2 DEF NextSlot, vars, tables, flags, history, HeldInv, ActiveRows, Stands
<1> QED
  BY <1>1, <1>2, TickHeld, CrashHeld, AskHeld DEF Next

\* Once nothing is in flight nothing blocks the next backup.
THEOREM NothingIsWedged == Spec => []NeverWedged
<1>1. Init => HeldInv
  BY DEF Init, HeldInv, ActiveRows, Active, Empty, NoBackup, Stands, NoTask
<1>2. HeldInv => NeverWedged
  BY DEF HeldInv, NeverWedged, Quiescent, Stands, InRun, Holds
<1> QED
  BY <1>1, <1>2, InitTyping, NextTyping, NextHeld, PTL DEF Spec

-------------------------------------------------------------------------------
(* One backup per slot.                                                      *)

\* A slot is claimed before its backup is counted, and only a later one is due.
SlotInv == ~restored =>
  /\ scheduled + (IF task[Scheduler].pc \in {"count", "insert"} THEN 1 ELSE 0) <= lastRun
  /\ lastRun <= slot
  /\ task[Scheduler].pc \in {"due", "mark"} =>
       lastRun < task[Scheduler].slot /\ task[Scheduler].slot <= slot
  /\ task[Scheduler].op \in {"none", "tick"}
  /\ \A p \in Handlers : task[p].op # "tick"

\* A step of a request does not change what the request is about.
LEMMA SameOp ==
  ASSUME TypeInv, NEW p \in Procs, Step(p)
  PROVE  /\ task'[p].op \in {task[p].op, "none"}
         /\ \A q \in Procs \ {p} : task'[q] = task[q]
         /\ task'[p].pc \in {"due", "mark", "count"} => task[p].op = "restore"
         /\ task'[p].pc = "insert" => Stands(p, "count")
<1>1. task[p] \in Tasks /\ Sound(task[p]) /\ task \in [Procs -> Tasks]
  BY DEF TypeInv, TypeOK
<1>2. ASSUME NEW t, Become(p, t), t.op \in {task[p].op, "none"},
             t.pc \in {"due", "mark", "count"} => task[p].op = "restore",
             t.pc = "insert" => Stands(p, "count")
      PROVE  /\ task'[p].op \in {task[p].op, "none"}
             /\ \A q \in Procs \ {p} : task'[q] = task[q]
             /\ task'[p].pc \in {"due", "mark", "count"} => task[p].op = "restore"
             /\ task'[p].pc = "insert" => Stands(p, "count")
  BY <1>1, <1>2 DEF Become
<1> DEFINE Goal == /\ task'[p].op \in {task[p].op, "none"}
                   /\ \A q \in Procs \ {p} : task'[q] = task[q]
                   /\ task'[p].pc \in {"due", "mark", "count"} => task[p].op = "restore"
                   /\ task'[p].pc = "insert" => Stands(p, "count")
<1>3. ASSUME Become(p, NoTask) PROVE Goal
  BY <1>2, <1>3, IdleSound
<1>4. ASSUME NEW pc, Goto(p, pc), pc \notin {"due", "mark", "count"}, pc = "insert" => Stands(p, "count")
      PROVE  Goal
  <2>1. [task[p] EXCEPT !.pc = pc].pc = pc /\ [task[p] EXCEPT !.pc = pc].op = task[p].op
    BY <1>1 DEF Tasks
  <2> QED
    BY <1>2, <1>4, <2>1 DEF Goto
<1>5. ASSUME Become(p, Refused(task[p])), task[p].op = "restore" => task[p].src \in BackupIds
      PROVE  Goal
  <2>1. Refused(task[p]).op \in {task[p].op, "none"} /\ Refused(task[p]).pc \in {"idle", "end"}
    BY <1>1, <1>5, RefusedSound, IdleSound
  <2> QED
    BY <1>2, <1>5, <2>1
<1>6. ASSUME NEW done \in BOOLEAN, Become(p, AfterRun(task[p], done)), InRun(task[p])
      PROVE  Goal
  <2>1. task[p].op \in {"create", "tick", "restore"} /\ (task[p].op = "restore" => task[p].src \in BackupIds)
    BY <1>1, <1>6 DEF Sound
  <2>2. AfterRun(task[p], done).op \in {task[p].op, "none"}
    BY <1>1, <2>1, IdleSound DEF AfterRun, Tasks
  <2>3. AfterRun(task[p], done).pc \in {"idle", "retain", "snapshot", "end"}
    BY <1>1, <2>1, AfterRunSound
  <2> QED
    BY <1>2, <1>6, <2>2, <2>3
<1>7. CASE Count(p) \/ (Insert(p) /\ begun = MaxBackups) \/ Finish(p) \/ Fail(p)
  BY <1>1, <1>3, <1>4, <1>5, <1>6, <1>7 DEF Count, Insert, Finish, Fail, Stands, Sound, InRun
<1>8. CASE Insert(p) /\ begun # MaxBackups
  <2> DEFINE t == [task[p] EXCEPT !.pc = "start", !.mine = begun + 1]
  <2>1. t.pc = "start" /\ t.op = task[p].op
    BY <1>1 DEF Tasks
  <2>2. Become(p, t)
    BY <1>8 DEF Insert
  <2> HIDE DEF t
  <2> QED
    BY <1>2, <2>1, <2>2
<1>9. CASE \/ StartRun(p) \/ Dump(p) \/ Unlink(p) \/ FindFile(p) \/ RestoreCount(p)
           \/ Replay(p) \/ LowerFlag(p)
  <2>1. \/ Become(p, NoTask)
        \/ \E pc \in {"dump", "fail", "finish", "drop", "rcount", "tools", "resync"} : Goto(p, pc)
    BY <1>9 DEF StartRun, Dump, Unlink, FindFile, RestoreCount, Replay, LowerFlag, Goto
  <2> QED
    BY <1>3, <1>4, <2>1
<1>10. CASE Drop(p)
  <2> DEFINE t == [task[p] EXCEPT !.pc = "unlink", !.todo = @ \ {Target(task[p])}]
  <2>1. t.pc = "unlink" /\ t.op = task[p].op
    BY <1>1 DEF Tasks
  <2>2. Become(p, t) \/ Become(p, NoTask)
    BY <1>10 DEF Drop
  <2> HIDE DEF t
  <2> QED
    BY <1>2, <1>3, <2>1, <2>2
<1>11. CASE RaiseFlag(p)
  <2>1. task[p].op = "restore" /\ task[p].src \in BackupIds /\ Become(p, EnterStart(task[p]))
    BY <1>1, <1>11 DEF RaiseFlag, Stands, Sound
  <2>2. EnterStart(task[p]).op = "restore" /\ EnterStart(task[p]).pc # "insert"
    BY <1>1, <2>1, EnterStartSound
  <2> QED
    BY <1>2, <2>1, <2>2
<1>12. CASE Snapshot(p)
  <2> DEFINE t == [task[p] EXCEPT !.pc = "replay", !.snap = rows]
  <2>1. t.pc = "replay" /\ t.op = task[p].op
    BY <1>1 DEF Tasks
  <2>2. Become(p, t)
    BY <1>12 DEF Snapshot
  <2> HIDE DEF t
  <2> QED
    BY <1>2, <2>1, <2>2
<1>13. CASE Resync(p)
  <2> DEFINE t == [task[p] EXCEPT !.pc = "end", !.snap = Empty]
  <2>1. t.pc = "end" /\ t.op = task[p].op
    BY <1>1 DEF Tasks
  <2>2. Become(p, t)
    BY <1>13 DEF Resync
  <2> HIDE DEF t
  <2> QED
    BY <1>2, <2>1, <2>2
<1> QED
  BY <1>7, <1>8, <1>9, <1>10, <1>11, <1>12, <1>13 DEF Step, Run

LEMMA InsertMoves ==
  ASSUME TypeInv, NEW p \in Procs, Step(p), Stands(p, "insert")
  PROVE  task'[p].pc \notin {"count", "insert"}
<1>1. /\ task[p] \in Tasks /\ task \in [Procs -> Tasks]
      /\ task[p].op = "restore" => task[p].src \in BackupIds
  BY DEF TypeInv, TypeOK, Sound
<1>2. Insert(p)
  BY DEF Step, Run, Count, StartRun, Dump, Finish, Fail, Unlink, Drop, FindFile,
     RestoreCount, RaiseFlag, Snapshot, Replay, Resync, LowerFlag, Stands
<1>3. CASE begun = MaxBackups
  BY <1>1, <1>2, <1>3, RefusedSound DEF Insert, Become
<1>4. CASE begun # MaxBackups
  <2> DEFINE t == [task[p] EXCEPT !.pc = "start", !.mine = begun + 1]
  <2>1. t.pc = "start"
    BY <1>1 DEF Tasks
  <2>2. Become(p, t)
    BY <1>2, <1>4 DEF Insert
  <2> HIDE DEF t
  <2> QED
    BY <1>1, <2>1, <2>2 DEF Become
<1> QED
  BY <1>3, <1>4

\* Only a replay takes lastRun back, only an insert counts.
LEMMA SlotStep ==
  ASSUME TypeInv, SlotInv, NEW p \in Procs, Step(p)
  PROVE  SlotInv'
<1>1. /\ task'[p].op \in {task[p].op, "none"}
      /\ \A q \in Procs \ {p} : task'[q] = task[q]
      /\ task'[p].pc \in {"due", "mark", "count"} => task[p].op = "restore"
      /\ task'[p].pc = "insert" => Stands(p, "count")
  BY SameOp
<1>2. UNCHANGED slot /\ (restored => restored') /\ (~restored' => UNCHANGED lastRun)
  <2>1. CASE Run(p)
    <3>1. CASE Count(p) \/ Dump(p)
      BY <3>1 DEF Count, Dump, tables, history
    <3>2. CASE Insert(p)
      BY <3>2 DEF Insert
    <3>3. CASE StartRun(p)
      BY <3>3 DEF StartRun, history
    <3>4. CASE Finish(p)
      BY <3>4 DEF Finish, history
    <3>5. CASE Fail(p)
      BY <3>5 DEF Fail, history
    <3> QED
      BY <2>1, <3>1, <3>2, <3>3, <3>4, <3>5 DEF Run
  <2>2. CASE Replay(p)
    BY <2>2 DEF Replay
  <2>3. CASE \/ Unlink(p) \/ Drop(p) \/ FindFile(p) \/ RestoreCount(p) \/ RaiseFlag(p)
             \/ Snapshot(p) \/ Resync(p) \/ LowerFlag(p)
    BY <2>3 DEF Unlink, Drop, FindFile, RestoreCount, RaiseFlag, Snapshot, Resync, LowerFlag,
       tables, history
  <2> QED
    BY <2>1, <2>2, <2>3 DEF Step
<1>3. \/ UNCHANGED scheduled
      \/ Stands(p, "insert") /\ task[p].op = "tick" /\ scheduled' = scheduled + 1
  <2>1. CASE Insert(p)
    BY <2>1 DEF Insert, TypeInv, TypeOK
  <2>2. CASE Count(p) \/ StartRun(p) \/ Dump(p) \/ Finish(p) \/ Fail(p) \/ Replay(p)
    BY <2>2 DEF Count, StartRun, Dump, Finish, Fail, Replay, history
  <2>3. CASE \/ Unlink(p) \/ Drop(p) \/ FindFile(p) \/ RestoreCount(p) \/ RaiseFlag(p)
             \/ Snapshot(p) \/ Resync(p) \/ LowerFlag(p)
    BY <2>3 DEF Unlink, Drop, FindFile, RestoreCount, RaiseFlag, Snapshot, Resync, LowerFlag,
       history
  <2> QED
    BY <2>1, <2>2, <2>3 DEF Step, Run
<1>4. Stands(p, "insert") => task'[p].pc \notin {"count", "insert"}
  BY <1>1, InsertMoves
<1>5. Scheduler \in Procs /\ Procs = Handlers \cup {Scheduler} /\ Scheduler \notin Handlers
  BY ProcsFinite DEF Procs
<1>6. lastRun \in Nat /\ slot \in Nat /\ scheduled \in Nat
  BY BoundsNat DEF TypeInv, TypeOK
<1> SUFFICES ASSUME ~restored' PROVE SlotInv'
  BY DEF SlotInv
<1>7. ~restored /\ UNCHANGED lastRun
  BY <1>2
<1>8. /\ scheduled + (IF task[Scheduler].pc \in {"count", "insert"} THEN 1 ELSE 0) <= lastRun
      /\ lastRun <= slot
      /\ task[Scheduler].pc \in {"due", "mark"} =>
           lastRun < task[Scheduler].slot /\ task[Scheduler].slot <= slot
      /\ task[Scheduler].op \in {"none", "tick"}
      /\ \A q \in Handlers : task[q].op # "tick"
  BY <1>7 DEF SlotInv
<1>9. CASE p # Scheduler
  <2>1. UNCHANGED scheduled /\ task'[Scheduler] = task[Scheduler]
    BY <1>1, <1>3, <1>5, <1>8, <1>9
  <2>2. \A q \in Handlers : task'[q].op # "tick"
    BY <1>1, <1>5, <1>8, <1>9
  <2> QED
    BY <1>2, <1>7, <1>8, <2>1, <2>2 DEF SlotInv
<1>10. CASE p = Scheduler
  <2>1. task'[p].pc \notin {"due", "mark", "count"}
    BY <1>1, <1>8, <1>10
  <2>2. scheduled' + (IF task'[p].pc \in {"count", "insert"} THEN 1 ELSE 0) <= lastRun
    BY <1>1, <1>3, <1>4, <1>6, <1>8, <1>10, <2>1 DEF Stands
  <2>3. \A q \in Handlers : task'[q].op # "tick"
    BY <1>1, <1>5, <1>8, <1>10
  <2>4. task'[p].op \in {"none", "tick"}
    BY <1>1, <1>8, <1>10
  <2> QED
    BY <1>2, <1>7, <1>8, <1>10, <2>1, <2>2, <2>3, <2>4 DEF SlotInv
<1> QED
  BY <1>9, <1>10

LEMMA SlotTick ==
  ASSUME TypeInv, SlotInv, Tick \/ TickStep
  PROVE  SlotInv'
<1> DEFINE s == Scheduler
<1>1. /\ s \in Procs /\ task[s] \in Tasks /\ Sound(task[s]) /\ task \in [Procs -> Tasks]
      /\ s \notin Handlers /\ Handlers \subseteq Procs
  BY ProcsFinite DEF Procs, TypeInv, TypeOK
<1>2. UNCHANGED <<slot, scheduled, restored>>
  BY DEF Tick, TickStep, TickCount, Mark, Retain, history
<1> SUFFICES ASSUME ~restored PROVE SlotInv'
  BY <1>2 DEF SlotInv
<1>3. /\ scheduled + (IF task[s].pc \in {"count", "insert"} THEN 1 ELSE 0) <= lastRun
      /\ lastRun <= slot
      /\ task[s].pc \in {"due", "mark"} => lastRun < task[s].slot /\ task[s].slot <= slot
      /\ \A p \in Handlers : task[p].op # "tick"
  BY DEF SlotInv
<1>4. lastRun \in Nat /\ slot \in Nat /\ scheduled \in Nat /\ task[s].slot \in Nat
  BY <1>1, BoundsNat DEF TypeInv, TypeOK, Tasks
<1>5. ASSUME NEW t, Become(s, t), t.op \in {"none", "tick"}, lastRun' \in Nat,
             scheduled + (IF t.pc \in {"count", "insert"} THEN 1 ELSE 0) <= lastRun',
             lastRun' <= slot,
             t.pc \in {"due", "mark"} => lastRun' < t.slot /\ t.slot <= slot
      PROVE  SlotInv'
  <2>1. task'[s] = t /\ \A p \in Handlers : task'[p] = task[p]
    BY <1>1, <1>5 DEF Become
  <2> QED
    BY <1>2, <1>3, <1>5, <2>1 DEF SlotInv
<1>6. scheduled <= lastRun
  BY <1>3, <1>4
<1>7. ASSUME Become(s, NoTask), UNCHANGED lastRun PROVE SlotInv'
  BY <1>3, <1>4, <1>5, <1>6, <1>7, IdleSound
<1>8. CASE Tick
  <2> DEFINE t == [NoTask EXCEPT !.op = "tick", !.slot = slot, !.pc = "due"]
  <2>1. t.op = "tick" /\ t.slot = slot /\ t.pc = "due"
    BY IdleSound DEF Tasks
  <2>2. Become(s, t) /\ lastRun < slot /\ UNCHANGED lastRun
    BY <1>8 DEF Tick, Due, tables
  <2> HIDE DEF t
  <2> QED
    BY <1>3, <1>4, <1>5, <1>6, <2>1, <2>2
<1>9. CASE TickCount
  <2>1. Stands(s, "due") /\ UNCHANGED lastRun /\ (Become(s, NoTask) \/ Goto(s, "mark"))
    BY <1>9 DEF TickCount, tables
  <2> DEFINE t == [task[s] EXCEPT !.pc = "mark"]
  <2>2. t.op = task[s].op /\ t.slot = task[s].slot /\ t.pc = "mark" /\ task[s].op = "tick"
    BY <1>1, <2>1 DEF Tasks, Stands, Sound
  <2>3. Goto(s, "mark") => Become(s, t)
    BY DEF Goto
  <2> HIDE DEF t
  <2> QED
    BY <1>3, <1>4, <1>5, <1>6, <1>7, <2>1, <2>2, <2>3 DEF Stands
<1>10. CASE Mark
  <2> DEFINE u == [task[s] EXCEPT !.slot = 0]
             t == EnterStart(u)
  <2>1. Stands(s, "mark") /\ task[s].op = "tick" /\ lastRun' = task[s].slot
    BY <1>1, <1>10 DEF Mark, Stands, Sound
  <2>2. u \in Tasks /\ u.op = "tick"
    BY <1>1, <2>1, Bounds DEF Tasks
  <2>3. Become(s, t)
    BY <1>10 DEF Mark
  <2> HIDE DEF u
  <2>4. t.pc \in {"idle", "end", "count"} /\ t.op \in {"none", "tick"}
    <3>1. [u EXCEPT !.pc = "count"].op = "tick"
      BY <2>2 DEF Tasks
    <3> QED
      BY <2>2, <3>1, EnterStartSound, IdleSound DEF EnterStart, Refused
  <2> HIDE DEF t
  <2>5. scheduled + 1 <= lastRun' /\ lastRun' <= slot
    BY <1>3, <1>4, <1>6, <2>1 DEF Stands
  <2> QED
    BY <1>4, <1>5, <2>1, <2>3, <2>4, <2>5
<1>11. CASE Retain
  <2>1. Stands(s, "retain") /\ UNCHANGED lastRun
    BY <1>11 DEF Retain, tables
  <2>2. PICK prior : \/ Become(s, NoTask)
                     \/ Become(s, [task[s] EXCEPT !.pc = "unlink", !.todo = prior, !.snap = rows])
    BY <1>11 DEF Retain
  <2> DEFINE t == [task[s] EXCEPT !.pc = "unlink", !.todo = prior, !.snap = rows]
  <2>3. t.op = "tick" /\ t.pc = "unlink"
    BY <1>1, <2>1 DEF Tasks, Stands, Sound
  <2>4. Become(s, NoTask) \/ Become(s, t)
    BY <2>2
  <2> HIDE DEF t
  <2> QED
    BY <1>3, <1>4, <1>5, <1>6, <1>7, <2>1, <2>3, <2>4
<1> QED
  BY <1>8, <1>9, <1>10, <1>11 DEF TickStep

LEMMA SlotAsk ==
  ASSUME TypeInv, SlotInv, NEW p \in Handlers, Request(p)
  PROVE  SlotInv'
<1>1. p \in Procs /\ p # Scheduler /\ task \in [Procs -> Tasks] /\ Handlers \subseteq Procs
  BY ProcsFinite DEF Procs, TypeInv, TypeOK
<1>2. ASSUME NEW t, Requested(p, t), t.op # "tick" PROVE SlotInv'
  <2>1. /\ UNCHANGED <<lastRun, slot, scheduled, restored>>
        /\ task'[p] = t /\ \A q \in Procs \ {p} : task'[q] = task[q]
    BY <1>1, <1>2 DEF Requested, Become, tables, history
  <2>2. Scheduler \in Procs
    BY DEF Procs
  <2>3. task'[Scheduler] = task[Scheduler]
    BY <1>1, <2>1, <2>2
  <2>4. (\A q \in Handlers : task[q].op # "tick") => \A q \in Handlers : task'[q].op # "tick"
    BY <1>1, <1>2, <2>1
  <2> QED
    BY <2>1, <2>3, <2>4 DEF SlotInv
<1>3. CASE CreateRequest(p)
  <2> DEFINE t == [NoTask EXCEPT !.op = "create"]
             u == [t EXCEPT !.pc = "count"]
  <2>1. t \in Tasks /\ t.op = "create"
    BY IdleSound DEF Tasks
  <2>2. Requested(p, EnterStart(t))
    BY <1>3 DEF CreateRequest
  <2> HIDE DEF t
  <2>3. u.op = "create"
    BY <2>1 DEF Tasks
  <2>4. EnterStart(t) \in {u, NoTask}
    BY <2>1 DEF EnterStart, Refused
  <2> HIDE DEF u
  <2> QED
    BY <1>2, <2>2, <2>3, <2>4, IdleSound
<1>4. ASSUME NEW b \in BackupIds, RestoreRequest(p, b) PROVE SlotInv'
  <2> DEFINE t == [NoTask EXCEPT !.op = "restore", !.src = b, !.pc = "find"]
  <2>1. Requested(p, t)
    BY <1>4 DEF RestoreRequest
  <2>2. t.op = "restore"
    BY IdleSound DEF Tasks
  <2> HIDE DEF t
  <2> QED
    BY <1>2, <2>1, <2>2
<1>5. ASSUME NEW b \in BackupIds, DeleteRequest(p, b) PROVE SlotInv'
  <2> DEFINE t == [NoTask EXCEPT !.op = "delete", !.todo = {b}, !.snap = rows, !.pc = "unlink"]
  <2>1. Requested(p, t)
    BY <1>5 DEF DeleteRequest
  <2>2. t.op = "delete"
    BY IdleSound DEF Tasks
  <2> HIDE DEF t
  <2> QED
    BY <1>2, <2>1, <2>2
<1> QED
  BY <1>3, <1>4, <1>5 DEF Request

LEMMA SlotCrash == ASSUME TypeInv, SlotInv, Crash PROVE SlotInv'
<1>1. UNCHANGED <<lastRun, slot, scheduled, restored>>
  BY DEF Crash, Restarted
<1>2. \A p \in Procs : task'[p] = NoTask
  BY DEF Crash, Restarted
<1>3. lastRun \in Nat /\ slot \in Nat /\ scheduled \in Nat
  BY BoundsNat DEF TypeInv, TypeOK
<1>4. scheduled + (IF task[Scheduler].pc \in {"count", "insert"} THEN 1 ELSE 0) <= lastRun
      => scheduled <= lastRun
  BY <1>3
<1>5. Scheduler \in Procs /\ Handlers \subseteq Procs
  BY DEF Procs
<1> QED
  BY <1>1, <1>2, <1>3, <1>4, <1>5, IdleSound DEF SlotInv

LEMMA NextSlotInv == TypeInv /\ SlotInv /\ [Next]_vars => SlotInv'
<1> SUFFICES ASSUME TypeInv, SlotInv, [Next]_vars PROVE SlotInv'
  OBVIOUS
<1>1. CASE NextSlot
  <2>1. UNCHANGED <<lastRun, scheduled, restored, task>> /\ slot' = slot + 1
    BY <1>1 DEF NextSlot, tables, history
  <2>2. lastRun \in Nat /\ slot \in Nat /\ task[Scheduler].slot \in Nat
    BY BoundsNat DEF TypeInv, TypeOK, Tasks, Procs
  <2> QED
    BY <2>1, <2>2 DEF SlotInv
<1>2. CASE UNCHANGED vars
  BY <1>2 DEF vars, SlotInv
<1> QED
  BY <1>1, <1>2, SlotStep, SlotTick, SlotAsk, SlotCrash DEF Next

\* No slot is backed up twice, crash or not.
THEOREM SlotsAreServedOnce == Spec => []OncePerSlot
<1>1. Init => SlotInv
  BY IdleSound DEF Init, SlotInv, Procs
<1>2. TypeInv /\ SlotInv => OncePerSlot
  <2>1. TypeInv => lastRun \in Nat /\ slot \in Nat /\ scheduled \in Nat
    BY BoundsNat DEF TypeInv, TypeOK
  <2> QED
    BY <2>1 DEF SlotInv, OncePerSlot
<1> QED
  BY <1>1, <1>2, InitTyping, NextTyping, NextSlotInv, PTL DEF Spec

-------------------------------------------------------------------------------
(* Files and rows agree.                                                     *)

Deleting(t)   == t.pc \in {"unlink", "drop"}
Holding(t, b) == \/ t.mine = b /\ t.pc \in {"finish", "fail"}
                 \/ t.pc = "drop" /\ b = Target(t)

\* Until a restore or a torn pair: backups not made yet have neither row nor
\* file; each run has a row of its own, active and without a file until the
\* dump; what is being deleted is no run's, and the file is gone once its row
\* is next.
FileInv == ~restored /\ ~parted =>
  /\ \A b \in BackupIds : (\E p \in Procs : Holding(task[p], b)) \/ (b \in files <=> rows[b].file)
  /\ \A b \in BackupIds : b > begun => rows[b] = NoBackup /\ b \notin files
  /\ \A p \in Procs : InRun(task[p]) =>
       /\ task[p].mine \in ActiveRows /\ ~rows[task[p].mine].file
       /\ task[p].mine \in files <=> task[p].pc = "finish"
  /\ \A p, q \in Procs :
       InRun(task[p]) /\ InRun(task[q]) /\ task[p].mine = task[q].mine => p = q
  /\ \A p \in Procs : Deleting(task[p]) => \A b \in task[p].todo :
       /\ b <= begun /\ b \notin ActiveRows
       /\ ~task[p].snap[b].file => b \notin files
       /\ task[p].pc = "drop" /\ b = Target(task[p]) => b \notin files

\* A set of ids that is not empty has a greatest one: well-foundedness of the
\* naturals, read from MaxBackups down.
LEMMA HasGreatest ==
  ASSUME NEW N \in Nat, NEW S \in SUBSET (1..N), S # {}
  PROVE  \E m \in S : \A k \in S : k <= m
<1> DEFINE T == {N - k : k \in S}
           R == {r \in Nat \X Nat : r[1] < r[2]}
<1>1. IsWellFoundedOn(R, Nat)
  BY NatLessThanWellFounded DEF OpToRel
<1>2. T \subseteq Nat /\ T # {}
  <2>1. \A k \in S : N - k \in Nat
    OBVIOUS
  <2>2. PICK k \in S : TRUE
    OBVIOUS
  <2>3. N - k \in T
    OBVIOUS
  <2> QED
    BY <2>1, <2>3
<1>3. \E x \in T : \A y \in T : ~ (<<y, x>> \in R)
  <2> HIDE DEF R, T
  <2> QED
    BY <1>1, <1>2, WFMin
<1>4. PICK x \in T : \A y \in T : ~(y < x)
  BY <1>2, <1>3
<1>5. PICK m \in S : x = N - m
  OBVIOUS
<1>6. ASSUME NEW k \in S PROVE k <= m
  <2>1. N - k \in T
    OBVIOUS
  <2> QED
    BY <1>4, <1>5, <2>1
<1> QED
  BY <1>6

LEMMA TargetIsOne ==
  ASSUME NEW t, t \in Tasks, t.todo # {}
  PROVE  Target(t) \in t.todo /\ Target(t) \in BackupIds
<1>1. t.todo \subseteq BackupIds
  BY DEF Tasks
<1>2. \E m \in t.todo : \A k \in t.todo : k <= m
  BY <1>1, HasGreatest, Bounds
<1> QED
  BY <1>1, <1>2 DEF Target

\* A step of p that touches the row and the file of c only, c its own, a new
\* one, or one to be deleted.
LEMMA FileStep ==
  ASSUME TypeInv, FileInv, NEW p \in Procs, NEW t, Become(p, t), NEW c,
         restored => restored', parted => parted', begun' \in Nat, begun <= begun',
         ~restored' /\ ~parted' =>
           /\ \A b \in BackupIds \ {c} : rows'[b] = rows[b] /\ (b \in files' <=> b \in files)
           /\ \A q \in Procs \ {p} : /\ InRun(task[q]) => task[q].mine # c
                                     /\ Deleting(task[q]) /\ c \in task[q].todo
                                          => c \notin files' /\ c \notin ActiveRows'
           /\ InRun(t) => /\ t.mine \in ActiveRows' /\ ~rows'[t.mine].file
                          /\ t.mine \in files' <=> t.pc = "finish"
                          /\ t.mine = c \/ (InRun(task[p]) /\ t.mine = task[p].mine)
           /\ Deleting(t) => \A b \in t.todo :
                /\ b <= begun' /\ b \notin ActiveRows'
                /\ ~t.snap[b].file => b \notin files'
                /\ t.pc = "drop" /\ b = Target(t) => b \notin files'
           /\ \A b \in BackupIds \ {c} : Holding(task[p], b) => Holding(t, b)
           /\ c \in BackupIds => c <= begun' /\ (Holding(t, c) \/ (c \in files' <=> rows'[c].file))
  PROVE  FileInv'
<1> SUFFICES ASSUME ~restored', ~parted' PROVE FileInv'
  BY DEF FileInv
<1>1. task'[p] = t /\ \A q \in Procs \ {p} : task'[q] = task[q]
  BY DEF TypeInv, TypeOK, Become
<1>2. begun \in Nat /\ BackupIds \subseteq Nat /\ \A q \in Procs : task[q].todo \subseteq BackupIds
  BY BoundsNat DEF TypeInv, TypeOK, Tasks, BackupIds
<1>3. ~restored /\ ~parted
  OBVIOUS
<1>4. \A b \in BackupIds \ {c} : b \in ActiveRows' <=> b \in ActiveRows
  BY DEF ActiveRows
<1>5. \A b \in BackupIds : (\E q \in Procs : Holding(task'[q], b)) \/ (b \in files' <=> rows'[b].file)
  <2> TAKE b \in BackupIds
  <2>1. CASE b = c
    BY <1>1, <2>1
  <2>2. CASE b # c
    <3>1. (\E q \in Procs : Holding(task[q], b)) \/ (b \in files <=> rows[b].file)
      BY <1>3 DEF FileInv
    <3>2. CASE \E q \in Procs : Holding(task[q], b)
      <4> PICK q \in Procs : Holding(task[q], b)
        BY <3>2
      <4>1. Holding(task'[q], b)
        BY <1>1, <2>2
      <4> QED
        BY <4>1
    <3> QED
      BY <2>2, <3>1, <3>2
  <2> QED
    BY <2>1, <2>2
<1>6. \A b \in BackupIds : b > begun' => rows'[b] = NoBackup /\ b \notin files'
  <2> TAKE b \in BackupIds
  <2> HAVE b > begun'
  <2>1. b # c /\ b > begun
    BY <1>2
  <2> QED
    BY <1>3, <2>1 DEF FileInv
<1>7. ASSUME NEW q \in Procs, InRun(task'[q])
      PROVE  /\ task'[q].mine \in ActiveRows' /\ ~rows'[task'[q].mine].file
             /\ task'[q].mine \in files' <=> task'[q].pc = "finish"
  <2>1. CASE q = p
    BY <1>1, <1>7, <2>1
  <2>2. CASE q # p
    <3>1. InRun(task[q]) /\ task'[q] = task[q] /\ task[q].mine # c
      BY <1>1, <1>7, <2>2
    <3>2. /\ task[q].mine \in ActiveRows /\ ~rows[task[q].mine].file
          /\ task[q].mine \in files <=> task[q].pc = "finish"
      BY <1>3, <3>1 DEF FileInv
    <3>3. task[q].mine \in BackupIds
      BY <3>2 DEF ActiveRows
    <3> QED
      BY <1>4, <3>1, <3>2, <3>3
  <2> QED
    BY <2>1, <2>2
<1>8. ASSUME NEW q \in Procs, NEW r \in Procs, InRun(task'[q]), InRun(task'[r]),
             task'[q].mine = task'[r].mine
      PROVE  q = r
  <2>1. \A x \in Procs \ {p} : task'[x] = task[x] /\ (InRun(task[x]) => task[x].mine # c)
    BY <1>1
  <2>2. InRun(t) => t.mine = c \/ (InRun(task[p]) /\ t.mine = task[p].mine)
    OBVIOUS
  <2>3. \A x, y \in Procs :
          InRun(task[x]) /\ InRun(task[y]) /\ task[x].mine = task[y].mine => x = y
    BY <1>3 DEF FileInv
  <2> QED
    BY <1>1, <1>8, <2>1, <2>2, <2>3
<1>9. ASSUME NEW q \in Procs, Deleting(task'[q]), NEW b \in task'[q].todo
      PROVE  /\ b <= begun' /\ b \notin ActiveRows'
             /\ ~task'[q].snap[b].file => b \notin files'
             /\ task'[q].pc = "drop" /\ b = Target(task'[q]) => b \notin files'
  <2>1. CASE q = p
    BY <1>1, <1>9, <2>1
  <2>2. CASE q # p
    <3>1. Deleting(task[q]) /\ task'[q] = task[q] /\ b \in task[q].todo /\ b \in BackupIds
      BY <1>1, <1>2, <1>9, <2>2
    <3>2. /\ b <= begun /\ b \notin ActiveRows
          /\ ~task[q].snap[b].file => b \notin files
          /\ task[q].pc = "drop" /\ b = Target(task[q]) => b \notin files
      BY <1>3, <3>1 DEF FileInv
    <3>3. b <= begun'
      BY <1>2, <3>1, <3>2
    <3>4. CASE b = c
      BY <2>2, <3>1, <3>3, <3>4
    <3>5. CASE b # c
      BY <1>4, <3>1, <3>2, <3>3, <3>5
    <3> QED
      BY <3>4, <3>5
  <2> QED
    BY <2>1, <2>2
<1> QED
  BY <1>5, <1>6, <1>7, <1>8, <1>9 DEF FileInv

\* A step that touches neither rows nor files and begins and ends outside the
\* runs and the deletes.
LEMMA QuietFile ==
  ASSUME TypeInv, FileInv, NEW p \in Procs, NEW t, Become(p, t), ~InRun(t), ~Deleting(t),
         ~InRun(task[p]), ~Deleting(task[p]),
         UNCHANGED <<rows, files, begun, restored, parted>>
  PROVE  FileInv'
<1>1. 0 \notin BackupIds /\ begun \in Nat
  BY BoundsNat DEF BackupIds, TypeInv, TypeOK
<1>2. \A b \in BackupIds : ~Holding(task[p], b)
  BY DEF Holding, InRun, Deleting
<1>3. \A q \in Procs : /\ InRun(task[q]) => task[q].mine # 0
                       /\ 0 \notin task[q].todo
  BY <1>1 DEF TypeInv, TypeOK, Sound, Tasks
<1> QED
  BY <1>1, <1>2, <1>3, FileStep

LEMMA QuietPcs ==
  ASSUME NEW t, t.pc \in {"idle", "end", "count", "insert", "due", "mark", "retain", "find",
                         "rcount", "tools", "snapshot", "replay", "resync"}
  PROVE  ~InRun(t) /\ ~Deleting(t)
BY DEF InRun, Deleting

\* The rows that a delete or the retention reads are nobody's: a row without a
\* file has no file on disk either.
LEMMA ReadRows ==
  ASSUME TypeInv, FileInv, ~restored, ~parted, NEW b \in BackupIds, Present(b), b \notin ActiveRows
  PROVE  b <= begun /\ (~rows[b].file => b \notin files)
<1>1. b <= begun
  <2>1. b > begun => rows[b] = NoBackup
    BY DEF FileInv
  <2>2. b \in Nat /\ begun \in Nat
    BY BoundsNat DEF BackupIds, TypeInv, TypeOK
  <2> QED
    BY <2>1, <2>2 DEF Present, NoBackup
<1>2. ASSUME NEW p \in Procs, Holding(task[p], b) PROVE b \notin files
  <2>1. CASE task[p].mine = b /\ task[p].pc \in {"finish", "fail"}
    BY <2>1 DEF FileInv, InRun
  <2>2. CASE task[p].pc = "drop" /\ b = Target(task[p])
    <3>1. task[p] \in Tasks /\ task[p].todo # {}
      BY <2>2 DEF TypeInv, TypeOK, Sound
    <3>2. b \in task[p].todo
      BY <2>2, <3>1, TargetIsOne
    <3> QED
      BY <2>2, <3>2 DEF FileInv, Deleting
  <2> QED
    BY <1>2, <2>1, <2>2 DEF Holding
<1>3. (\E p \in Procs : Holding(task[p], b)) \/ (b \in files <=> rows[b].file)
  BY DEF FileInv
<1> QED
  BY <1>1, <1>2, <1>3

\* A delete begins.
LEMMA DeleteFile ==
  ASSUME TypeInv, FileInv, NEW p \in Procs, NEW t, Become(p, t), t.pc = "unlink",
         \A b \in t.todo : b \in BackupIds /\ Present(b) /\ b \notin ActiveRows, t.snap = rows,
         ~InRun(task[p]), ~Deleting(task[p]),
         UNCHANGED <<rows, files, begun, restored, parted>>
  PROVE  FileInv'
<1>1. 0 \notin BackupIds /\ begun \in Nat
  BY BoundsNat DEF BackupIds, TypeInv, TypeOK
<1>2. \A b \in BackupIds : ~Holding(task[p], b)
  BY DEF Holding, InRun, Deleting
<1>3. \A q \in Procs : /\ InRun(task[q]) => task[q].mine # 0
                       /\ 0 \notin task[q].todo
  BY <1>1 DEF TypeInv, TypeOK, Sound, Tasks
<1>4. ~restored /\ ~parted => \A b \in t.todo : b <= begun /\ (~t.snap[b].file => b \notin files)
  BY ReadRows
<1>5. ~InRun(t) /\ ActiveRows' = ActiveRows
  BY DEF InRun, ActiveRows
<1> QED
  BY <1>1, <1>2, <1>3, <1>4, <1>5, FileStep

LEMMA AskFile ==
  ASSUME TypeInv, FileInv, NEW p \in Handlers, Request(p)
  PROVE  FileInv'
<1>1. p \in Procs
  BY DEF Procs
<1>2. ASSUME NEW t, Requested(p, t)
      PROVE  /\ Become(p, t) /\ UNCHANGED <<rows, files, begun, restored, parted>>
             /\ ~InRun(task[p]) /\ ~Deleting(task[p])
  BY <1>2 DEF Requested, Stands, InRun, Deleting, tables, history
<1>3. CASE CreateRequest(p)
  <2> DEFINE t == [NoTask EXCEPT !.op = "create"]
  <2>1. t \in Tasks /\ t.op = "create"
    BY IdleSound DEF Tasks
  <2>2. Requested(p, EnterStart(t))
    BY <1>3 DEF CreateRequest
  <2> HIDE DEF t
  <2>3. ~InRun(EnterStart(t)) /\ ~Deleting(EnterStart(t))
    BY <2>1, EnterStartSound, QuietPcs
  <2> QED
    BY <1>1, <1>2, <2>2, <2>3, QuietFile
<1>4. ASSUME NEW b \in BackupIds, RestoreRequest(p, b) PROVE FileInv'
  <2> DEFINE t == [NoTask EXCEPT !.op = "restore", !.src = b, !.pc = "find"]
  <2>1. Requested(p, t)
    BY <1>4 DEF RestoreRequest
  <2>2. t.pc = "find"
    BY IdleSound DEF Tasks
  <2> HIDE DEF t
  <2> QED
    BY <1>1, <1>2, <2>1, <2>2, QuietFile, QuietPcs
<1>5. ASSUME NEW b \in BackupIds, DeleteRequest(p, b) PROVE FileInv'
  <2> DEFINE t == [NoTask EXCEPT !.op = "delete", !.todo = {b}, !.snap = rows, !.pc = "unlink"]
  <2>1. Requested(p, t) /\ Present(b) /\ b \notin ActiveRows
    BY <1>5 DEF DeleteRequest
  <2>2. t.pc = "unlink" /\ t.todo = {b} /\ t.snap = rows
    BY IdleSound DEF Tasks
  <2> HIDE DEF t
  <2> QED
    BY <1>1, <1>2, <2>1, <2>2, DeleteFile
<1> QED
  BY <1>3, <1>4, <1>5 DEF Request

LEMMA TickFile ==
  ASSUME TypeInv, FileInv, Tick \/ TickStep
  PROVE  FileInv'
<1> DEFINE s == Scheduler
<1>1. s \in Procs /\ task[s] \in Tasks /\ Sound(task[s])
  BY DEF Procs, TypeInv, TypeOK
<1>2. ~InRun(task[s]) /\ ~Deleting(task[s])
  BY DEF Tick, TickStep, TickCount, Mark, Retain, Stands, InRun, Deleting
<1>3. UNCHANGED <<rows, files, begun, restored, parted>>
  BY DEF Tick, TickStep, TickCount, Mark, Retain, tables, bounds, history
<1>4. CASE Tick
  <2> DEFINE t == [NoTask EXCEPT !.op = "tick", !.slot = slot, !.pc = "due"]
  <2>1. t.pc = "due"
    BY IdleSound DEF Tasks
  <2>2. Become(s, t)
    BY <1>4 DEF Tick
  <2> HIDE DEF t
  <2> QED
    BY <1>1, <1>2, <1>3, <2>1, <2>2, QuietFile, QuietPcs
<1>5. CASE TickCount
  <2> DEFINE t == [task[s] EXCEPT !.pc = "mark"]
  <2>1. t.pc = "mark"
    BY <1>1 DEF Tasks
  <2>2. Become(s, NoTask) \/ Become(s, t)
    BY <1>5 DEF TickCount, Goto
  <2> HIDE DEF t
  <2> QED
    BY <1>1, <1>2, <1>3, <2>1, <2>2, IdleSound, QuietFile, QuietPcs
<1>6. CASE Mark
  <2> DEFINE u == [task[s] EXCEPT !.slot = 0]
  <2>1. u \in Tasks /\ u.op = "tick"
    BY <1>1, <1>6, Bounds DEF Mark, Stands, Sound, Tasks
  <2>2. Become(s, EnterStart(u))
    BY <1>6 DEF Mark
  <2> HIDE DEF u
  <2>3. ~InRun(EnterStart(u)) /\ ~Deleting(EnterStart(u))
    BY <2>1, EnterStartSound, QuietPcs
  <2> QED
    BY <1>1, <1>2, <1>3, <2>2, <2>3, QuietFile
<1>7. CASE Retain
  <2> DEFINE prior == {b \in BackupIds : /\ Present(b) /\ rows[b].kind = "SCHEDULED"
                                 /\ b \notin ActiveRows /\ Cardinality(Newer(b)) >= Keep}
             t == [task[s] EXCEPT !.pc = "unlink", !.todo = prior, !.snap = rows]
  <2>1. Become(s, NoTask) \/ Become(s, t)
    BY <1>7 DEF Retain
  <2>2. \A b \in prior : b \in BackupIds /\ Present(b) /\ b \notin ActiveRows
    OBVIOUS
  <2> HIDE DEF prior
  <2>3. t.pc = "unlink" /\ t.todo = prior /\ t.snap = rows
    BY <1>1 DEF Tasks
  <2> HIDE DEF t
  <2>4. CASE Become(s, NoTask)
    BY <1>1, <1>2, <1>3, <2>4, IdleSound, QuietFile, QuietPcs
  <2>5. CASE Become(s, t)
    BY <1>1, <1>2, <1>3, <2>2, <2>3, <2>5, DeleteFile
  <2> QED
    BY <2>1, <2>4, <2>5
<1> QED
  BY <1>4, <1>5, <1>6, <1>7 DEF TickStep

LEMMA RestoreFile ==
  ASSUME TypeInv, HeldInv, FileInv, NEW p \in Procs,
         \/ FindFile(p) \/ RestoreCount(p) \/ RaiseFlag(p) \/ Snapshot(p) \/ Replay(p)
         \/ Resync(p) \/ LowerFlag(p)
  PROVE  FileInv'
<1>1. /\ task[p] \in Tasks /\ Sound(task[p]) /\ ~InRun(task[p]) /\ ~Deleting(task[p])
      /\ task[p].op = "restore" /\ task[p].src \in BackupIds
  BY DEF TypeInv, TypeOK, FindFile, RestoreCount, RaiseFlag, Snapshot, Replay, Resync,
     LowerFlag, Stands, Sound, InRun, Deleting
<1>2. ASSUME NEW t, Become(p, t), UNCHANGED <<rows, files, begun, restored, parted>>,
             t.pc \in {"idle", "end", "count", "insert", "due", "mark", "retain", "find",
                      "rcount", "tools", "snapshot", "replay", "resync"}
      PROVE  FileInv'
  BY <1>1, <1>2, QuietFile, QuietPcs
<1>3. CASE FindFile(p) \/ RestoreCount(p) \/ LowerFlag(p)
  <2>1. UNCHANGED <<rows, files, begun, restored, parted>>
    BY <1>3 DEF FindFile, RestoreCount, LowerFlag, tables, bounds, history
  <2>2. /\ [task[p] EXCEPT !.pc = "rcount"].pc = "rcount"
        /\ [task[p] EXCEPT !.pc = "tools"].pc = "tools"
    BY <1>1 DEF Tasks
  <2>3. \/ Become(p, NoTask) \/ Become(p, [task[p] EXCEPT !.pc = "rcount"])
        \/ Become(p, [task[p] EXCEPT !.pc = "tools"])
    BY <1>3 DEF FindFile, RestoreCount, LowerFlag, Goto
  <2> QED
    BY <1>2, <2>1, <2>2, <2>3, IdleSound
<1>4. CASE RaiseFlag(p)
  <2>1. Become(p, EnterStart(task[p])) /\ UNCHANGED <<rows, files, begun, restored, parted>>
    BY <1>4 DEF RaiseFlag, tables, bounds, history
  <2> QED
    BY <1>1, <1>2, <2>1, EnterStartSound
<1>5. CASE Snapshot(p)
  <2> DEFINE t == [task[p] EXCEPT !.pc = "replay", !.snap = rows]
  <2>1. t.pc = "replay"
    BY <1>1 DEF Tasks
  <2>2. Become(p, t) /\ UNCHANGED <<rows, files, begun, restored, parted>>
    BY <1>5 DEF Snapshot, tables, bounds, history
  <2> HIDE DEF t
  <2> QED
    BY <1>2, <2>1, <2>2
<1>6. CASE Replay(p)
  BY <1>6 DEF Replay, FileInv
<1>7. CASE Resync(p)
  <2>1. restored /\ restored' = restored
    BY <1>7 DEF Resync, HeldInv, history
  <2> QED
    BY <2>1 DEF FileInv
<1> QED
  BY <1>3, <1>4, <1>5, <1>6, <1>7

\* What a run knows of its row and of the others.
LEMMA RunKnows ==
  ASSUME TypeInv, FileInv, NEW p \in Procs, InRun(task[p])
  PROVE  /\ task[p].mine \in BackupIds /\ rows[task[p].mine] \in BackupRows
         /\ ~restored /\ ~parted =>
              /\ task[p].mine \in ActiveRows /\ Present(task[p].mine)
              /\ ~rows[task[p].mine].file
              /\ task[p].mine <= begun
              /\ task[p].mine \in files <=> task[p].pc = "finish"
              /\ \A q \in Procs \ {p} : /\ InRun(task[q]) => task[q].mine # task[p].mine
                                        /\ Deleting(task[q]) => task[p].mine \notin task[q].todo
              /\ \A b \in BackupIds \ {task[p].mine} : ~Holding(task[p], b)
<1> DEFINE m == task[p].mine
<1>1. m \in BackupIds /\ rows[m] \in BackupRows
  BY DEF TypeInv, TypeOK, Sound, Tables
<1> HIDE DEF m
<1>2. \A b \in BackupIds \ {task[p].mine} : ~Holding(task[p], b)
  BY DEF Holding, InRun
<1> SUFFICES ASSUME ~restored, ~parted
             PROVE  /\ task[p].mine \in ActiveRows /\ Present(task[p].mine)
                    /\ ~rows[task[p].mine].file
                    /\ task[p].mine <= begun
                    /\ task[p].mine \in files <=> task[p].pc = "finish"
                    /\ \A q \in Procs \ {p} :
                         /\ InRun(task[q]) => task[q].mine # task[p].mine
                         /\ Deleting(task[q]) => task[p].mine \notin task[q].todo
  BY <1>1, <1>2 DEF m
<1>3. /\ task[p].mine \in ActiveRows /\ ~rows[task[p].mine].file
      /\ task[p].mine \in files <=> task[p].pc = "finish"
  BY DEF FileInv
<1>4. \A q \in Procs \ {p} : InRun(task[q]) => task[q].mine # task[p].mine
  BY DEF FileInv
<1>5. \A q \in Procs \ {p} : Deleting(task[q]) => task[p].mine \notin task[q].todo
  BY <1>3 DEF FileInv
<1>6. Present(task[p].mine)
  BY <1>3 DEF Present, ActiveRows, Active
<1>7. task[p].mine <= begun
  <2>1. m > begun => rows[m] = NoBackup
    BY <1>1 DEF FileInv
  <2>2. m \in Nat /\ begun \in Nat
    BY <1>1, BoundsNat DEF BackupIds, TypeInv, TypeOK
  <2>3. rows[m] # NoBackup
    BY <1>6 DEF Present, NoBackup, m
  <2> QED
    BY <2>1, <2>2, <2>3 DEF m
<1> QED
  BY <1>3, <1>4, <1>5, <1>6, <1>7

\* A step of a run: its row alone changes, its file alone comes or goes.
LEMMA RunStepFile ==
  ASSUME TypeInv, FileInv, NEW p \in Procs, InRun(task[p]), NEW t, Become(p, t), ~Deleting(t),
         UNCHANGED <<begun, restored, parted>>,
         ~restored /\ ~parted =>
           /\ \A b \in BackupIds \ {task[p].mine} : rows'[b] = rows[b] /\ (b \in files' <=> b \in files)
           /\ InRun(t) => /\ t.mine = task[p].mine /\ task[p].mine \in ActiveRows'
                          /\ ~rows'[task[p].mine].file
                          /\ task[p].mine \in files' <=> t.pc = "finish"
           /\ ~InRun(t) => (task[p].mine \in files' <=> rows'[task[p].mine].file)
  PROVE  FileInv'
<1>1. begun \in Nat
  BY BoundsNat DEF TypeInv, TypeOK
<1>2. InRun(t) /\ t.mine = task[p].mine /\ t.pc \in {"finish", "fail"} => Holding(t, task[p].mine)
  BY DEF Holding
<1>3. InRun(t) /\ t.pc \notin {"finish", "fail"} => t.pc \in {"start", "dump"}
  BY DEF InRun
<1> QED
  BY <1>1, <1>2, <1>3, RunKnows, FileStep

LEMMA RunFile ==
  ASSUME TypeInv, FileInv, NEW p \in Procs, Run(p)
  PROVE  FileInv'
<1>1. task[p] \in Tasks /\ Sound(task[p]) /\ rows \in Tables /\ files \subseteq BackupIds
  BY DEF TypeInv, TypeOK
<1> DEFINE b == task[p].mine
<1>2. UNCHANGED <<restored, parted>>
  <2>1. CASE Insert(p)
    BY <2>1 DEF Insert
  <2>2. CASE Count(p) \/ Dump(p)
    BY <2>2 DEF Count, Dump, history
  <2>3. CASE StartRun(p)
    BY <2>3 DEF StartRun, history
  <2>4. CASE Finish(p)
    BY <2>4 DEF Finish, history
  <2>5. CASE Fail(p)
    BY <2>5 DEF Fail, history
  <2> QED
    BY <2>1, <2>2, <2>3, <2>4, <2>5 DEF Run
<1>3. ASSUME NEW pc \in {"dump", "finish", "fail"}, Goto(p, pc), InRun(task[p]), UNCHANGED begun,
             ~restored /\ ~parted =>
               /\ \A c \in BackupIds \ {b} : rows'[c] = rows[c] /\ (c \in files' <=> c \in files)
               /\ b \in ActiveRows' /\ ~rows'[b].file /\ (b \in files' <=> pc = "finish")
      PROVE  FileInv'
  <2> DEFINE t == [task[p] EXCEPT !.pc = pc]
  <2>1. InRun(t) /\ t.mine = b /\ t.pc = pc /\ ~Deleting(t)
    BY <1>1 DEF Tasks, InRun, Deleting
  <2>2. Become(p, t)
    BY <1>3 DEF Goto
  <2> HIDE DEF t
  <2> QED
    BY <1>2, <1>3, <2>1, <2>2, RunStepFile
<1>4. ASSUME NEW t, Become(p, t), ~InRun(t), ~Deleting(t), InRun(task[p]), UNCHANGED begun,
             ~restored /\ ~parted =>
               /\ \A c \in BackupIds \ {b} : rows'[c] = rows[c] /\ (c \in files' <=> c \in files)
               /\ b \in files' <=> rows'[b].file
      PROVE  FileInv'
  BY <1>2, <1>4, RunStepFile
<1>5. CASE Count(p)
  <2>1. ~InRun(task[p]) /\ ~Deleting(task[p]) /\ UNCHANGED <<rows, files, begun, restored, parted>>
    BY <1>5 DEF Count, Stands, InRun, Deleting, tables, bounds, history
  <2>2. task[p].op = "restore" => task[p].src \in BackupIds
    BY <1>1 DEF Sound
  <2>3. Refused(task[p]).pc \in {"idle", "end"}
    BY <1>1, <2>2, RefusedSound
  <2> DEFINE t == [task[p] EXCEPT !.pc = "insert"]
  <2>4. t.pc = "insert"
    BY <1>1 DEF Tasks
  <2>5. Become(p, Refused(task[p])) \/ Become(p, t)
    BY <1>5 DEF Count, Goto
  <2> HIDE DEF t
  <2>6. CASE Become(p, Refused(task[p]))
    BY <2>1, <2>3, <2>6, QuietFile, QuietPcs
  <2>7. CASE Become(p, t)
    BY <2>1, <2>4, <2>7, QuietFile, QuietPcs
  <2> QED
    BY <2>5, <2>6, <2>7
<1>6. CASE Insert(p)
  <2>1. ~InRun(task[p]) /\ ~Deleting(task[p]) /\ (task[p].op = "restore" => task[p].src \in BackupIds)
    BY <1>1, <1>6 DEF Insert, Stands, Sound, InRun, Deleting
  <2>2. CASE begun = MaxBackups
    <3>1. Become(p, Refused(task[p])) /\ UNCHANGED <<rows, files, begun, restored, parted>>
      BY <1>2, <1>6, <2>2 DEF Insert
    <3>2. Refused(task[p]).pc \in {"idle", "end"}
      BY <1>1, <2>1, RefusedSound
    <3> QED
      BY <2>1, <3>1, <3>2, QuietFile, QuietPcs
  <2>3. CASE begun # MaxBackups
    <3> DEFINE c == begun + 1
               t == [task[p] EXCEPT !.pc = "start", !.mine = c]
               row == [status |-> "PENDING", kind |-> KindOf(task[p]), file |-> FALSE]
    <3>1. SetRow(c, row) /\ Become(p, t) /\ begun' = c /\ files' = files
      BY <1>6, <2>3 DEF Insert
    <3>2. begun \in Nat /\ c \in BackupIds /\ c \in Nat /\ begun <= c /\ c > begun /\ c <= c
      BY <2>3, BoundsNat DEF TypeInv, TypeOK, BackupIds
    <3>3. t.pc = "start" /\ t.mine = c
      BY <1>1 DEF Tasks
    <3>4. row.status = "PENDING" /\ ~row.file
      OBVIOUS
    <3> HIDE DEF c, t, row
    <3>5. rows'[c] = row /\ \A x \in BackupIds \ {c} : rows'[x] = rows[x]
      BY <1>1, <3>1, <3>2 DEF SetRow, Tables
    <3>6. c \in ActiveRows'
      BY <3>2, <3>4, <3>5 DEF ActiveRows, Active
    <3>7. ~restored /\ ~parted => rows[c] = NoBackup /\ c \notin files
      BY <3>2 DEF FileInv
    <3>8. \A q \in Procs : ~restored /\ ~parted =>
            /\ InRun(task[q]) => task[q].mine # c
            /\ Deleting(task[q]) => c \notin task[q].todo
      <4> SUFFICES ASSUME NEW q \in Procs, ~restored, ~parted
                   PROVE  /\ InRun(task[q]) => task[q].mine # c
                          /\ Deleting(task[q]) => c \notin task[q].todo
        OBVIOUS
      <4>1. InRun(task[q]) => task[q].mine <= begun
        BY RunKnows
      <4>2. Deleting(task[q]) => \A x \in task[q].todo : x <= begun
        BY DEF FileInv
      <4>3. ~(c <= begun)
        BY <3>2
      <4> QED
        BY <4>1, <4>2, <4>3
    <3>9. InRun(t) /\ ~Deleting(t) /\ t.pc # "finish"
      BY <3>3 DEF InRun, Deleting
    <3>10. \A x \in BackupIds : ~Holding(task[p], x)
      BY <2>1 DEF Holding, InRun, Deleting
    <3> QED
      BY <1>2, <3>1, <3>2, <3>3, <3>4, <3>5, <3>6, <3>7, <3>8, <3>9, <3>10, FileStep
  <2> QED
    BY <2>2, <2>3
<1>7. CASE StartRun(p)
  <2>1. InRun(task[p]) /\ UNCHANGED <<begun, files>> /\ task[p].pc # "finish"
    BY <1>7 DEF StartRun, Stands, InRun, bounds
  <2>2. /\ \A c \in BackupIds \ {b} : rows'[c] = rows[c]
        /\ ~restored /\ ~parted => /\ b \in ActiveRows' /\ ~rows'[b].file /\ b \notin files
                                   /\ Goto(p, "dump")
    <3>1. rows' = rows \/ rows' = [rows EXCEPT ![b] = [rows[b] EXCEPT !.status = "RUNNING"]]
      BY <1>7 DEF StartRun, SetRow
    <3>2. \A c \in BackupIds \ {b} : rows'[c] = rows[c]
      BY <1>1, <3>1 DEF Tables
    <3> SUFFICES ASSUME ~restored, ~parted
                 PROVE  b \in ActiveRows' /\ ~rows'[b].file /\ b \notin files /\ Goto(p, "dump")
      BY <3>2
    <3>3. /\ b \in BackupIds /\ rows[b] \in BackupRows /\ Present(b) /\ ~rows[b].file /\ b \notin files
      BY <2>1, RunKnows
    <3>4. rows'[b] = [rows[b] EXCEPT !.status = "RUNNING"] /\ Goto(p, "dump")
      BY <1>1, <1>7, <3>3 DEF StartRun, SetRow, Tables
    <3>5. rows'[b].status = "RUNNING" /\ rows'[b].file = rows[b].file
      BY <3>3, <3>4 DEF BackupRows
    <3> QED
      BY <3>3, <3>4, <3>5 DEF ActiveRows, Active
  <2>3. CASE ~restored /\ ~parted
    BY <1>3, <2>1, <2>2, <2>3
  <2>4. CASE restored \/ parted
    BY <1>2, <2>4 DEF FileInv
  <2> QED
    BY <2>3, <2>4
<1>8. CASE Dump(p)
  <2>1. /\ InRun(task[p]) /\ task[p].pc # "finish" /\ UNCHANGED <<rows, begun>>
        /\ ActiveRows' = ActiveRows
    BY <1>8 DEF Dump, Stands, InRun, tables, ActiveRows
  <2>2. \/ Goto(p, "finish") /\ files' = files \cup {b}
        \/ Goto(p, "fail") /\ files' = files
    BY <1>8 DEF Dump
  <2> QED
    BY <1>3, <2>1, <2>2, RunKnows
<1>9. CASE Finish(p)
  <2>1. InRun(task[p]) /\ UNCHANGED <<begun, files>> /\ task[p].pc = "finish"
    BY <1>9 DEF Finish, Stands, InRun, bounds
  <2>2. /\ task[p].op \in {"create", "tick", "restore"}
        /\ (task[p].op = "restore" => task[p].src \in BackupIds)
    BY <1>1, <2>1 DEF Sound
  <2>3. ~InRun(AfterRun(task[p], TRUE)) /\ ~Deleting(AfterRun(task[p], TRUE))
    <3>1. AfterRun(task[p], TRUE).pc \in {"idle", "retain", "snapshot", "end"}
      BY <1>1, <2>2, AfterRunSound
    <3> QED
      BY <3>1 DEF InRun, Deleting
  <2>4. CASE ~restored /\ ~parted
    <3>1. b \in BackupIds /\ rows[b] \in BackupRows /\ Present(b) /\ b \in files
      BY <2>1, <2>4, RunKnows
    <3>2. /\ rows' = [rows EXCEPT ![b] = [rows[b] EXCEPT !.status = "COMPLETED", !.file = TRUE]]
          /\ Become(p, AfterRun(task[p], TRUE))
      BY <1>9, <3>1 DEF Finish, SetRow
    <3>3. rows'[b].file /\ \A c \in BackupIds \ {b} : rows'[c] = rows[c]
      BY <1>1, <3>1, <3>2 DEF Tables, BackupRows
    <3> QED
      BY <1>4, <2>1, <2>3, <3>1, <3>2, <3>3
  <2>5. CASE restored \/ parted
    BY <1>2, <2>5 DEF FileInv
  <2> QED
    BY <2>4, <2>5
<1>10. CASE Fail(p)
  <2>1. InRun(task[p]) /\ UNCHANGED begun /\ files' = files \ {b}
    BY <1>10 DEF Fail, Stands, InRun, bounds, RemoveFile
  <2>2. /\ task[p].op \in {"create", "tick", "restore"}
        /\ (task[p].op = "restore" => task[p].src \in BackupIds)
    BY <1>1, <2>1 DEF Sound
  <2>3. ~InRun(AfterRun(task[p], FALSE)) /\ ~Deleting(AfterRun(task[p], FALSE))
    <3>1. AfterRun(task[p], FALSE).pc \in {"idle", "retain", "snapshot", "end"}
      BY <1>1, <2>2, AfterRunSound
    <3> QED
      BY <3>1 DEF InRun, Deleting
  <2>4. CASE ~restored /\ ~parted
    <3>1. b \in BackupIds /\ rows[b] \in BackupRows /\ Present(b) /\ ~rows[b].file
      BY <2>1, <2>4, RunKnows
    <3>2. /\ rows' = [rows EXCEPT ![b] = [rows[b] EXCEPT !.status = "FAILED"]]
          /\ Become(p, AfterRun(task[p], FALSE))
      BY <1>10, <3>1 DEF Fail, SetRow
    <3>3. ~rows'[b].file /\ \A c \in BackupIds \ {b} : rows'[c] = rows[c]
      BY <1>1, <3>1, <3>2 DEF Tables, BackupRows
    <3> QED
      BY <1>4, <2>1, <2>3, <3>1, <3>2, <3>3
  <2>5. CASE restored \/ parted
    BY <1>2, <2>5 DEF FileInv
  <2> QED
    BY <2>4, <2>5
<1> QED
  BY <1>5, <1>6, <1>7, <1>8, <1>9, <1>10 DEF Run

LEMMA RemoveFileOnce ==
  ASSUME TypeInv, FileInv, NEW p \in Procs, Unlink(p) \/ Drop(p)
  PROVE  FileInv'
<1> DEFINE b == Target(task[p])
<1>1. /\ task[p] \in Tasks /\ Sound(task[p]) /\ rows \in Tables /\ files \subseteq BackupIds
      /\ begun \in Nat
  BY BoundsNat DEF TypeInv, TypeOK
<1>2. ~InRun(task[p]) /\ Deleting(task[p]) /\ task[p].todo # {} /\ task[p].todo \subseteq BackupIds
  BY <1>1 DEF Unlink, Drop, Stands, InRun, Deleting, Sound, Tasks
<1>3. b \in task[p].todo /\ b \in BackupIds
  BY <1>1, <1>2, TargetIsOne
<1> HIDE DEF b
<1>4. UNCHANGED <<begun, restored, parted>>
  BY DEF Unlink, Drop, bounds, history
<1>5. ASSUME ~restored, ~parted
      PROVE  /\ \A c \in task[p].todo : /\ c <= begun /\ c \notin ActiveRows
                                        /\ ~task[p].snap[c].file => c \notin files
             /\ task[p].pc = "drop" => b \notin files
             /\ \A q \in Procs : InRun(task[q]) => task[q].mine # b
  <2>1. \A c \in task[p].todo :
          /\ c <= begun /\ c \notin ActiveRows /\ (~task[p].snap[c].file => c \notin files)
          /\ (task[p].pc = "drop" /\ c = Target(task[p]) => c \notin files)
    BY <1>2, <1>5 DEF FileInv
  <2>2. \A q \in Procs : InRun(task[q]) => task[q].mine \in ActiveRows
    BY <1>5 DEF FileInv
  <2> QED
    BY <1>3, <2>1, <2>2 DEF b
<1>6. \A c \in BackupIds \ {b} : ~Holding(task[p], c)
  BY <1>2 DEF Holding, InRun, b
<1>7. CASE Unlink(p)
  <2> DEFINE t == [task[p] EXCEPT !.pc = "drop"]
  <2>1. t.pc = "drop" /\ t.todo = task[p].todo /\ t.snap = task[p].snap
    BY <1>1 DEF Tasks
  <2>2. Become(p, t) /\ UNCHANGED rows
    BY <1>7 DEF Unlink, Goto, tables
  <2> HIDE DEF t
  <2>3. Target(t) = b
    BY <2>1 DEF Target, b
  <2>4. ActiveRows' = ActiveRows
    BY <2>2 DEF ActiveRows
  <2>5. ~InRun(t) /\ Holding(t, b)
    BY <2>1, <2>3 DEF InRun, Holding
  <2>6. files' = files \ {b} \/ (~task[p].snap[b].file /\ files' = files)
    BY <1>7 DEF Unlink, RemoveFile, b
  <2>7. CASE ~restored /\ ~parted
    <3>1. b \notin files' /\ files' \subseteq files /\ \A c \in BackupIds \ {b} : c \in files' <=> c \in files
      BY <1>3, <1>5, <2>6, <2>7
    <3>2. /\ \A c \in t.todo : /\ c <= begun' /\ c \notin ActiveRows'
                               /\ ~t.snap[c].file => c \notin files'
                               /\ t.pc = "drop" /\ c = Target(t) => c \notin files'
          /\ b <= begun'
      BY <1>3, <1>4, <1>5, <2>1, <2>3, <2>4, <2>7, <3>1
    <3>3. \A q \in Procs : InRun(task[q]) => task[q].mine # b
      BY <1>5, <2>7
    <3>4. begun' \in Nat /\ begun <= begun' /\ b \notin ActiveRows'
      BY <1>1, <1>3, <1>4, <1>5, <2>4, <2>7
    <3> QED
      BY <1>4, <1>6, <2>2, <2>5, <3>1, <3>2, <3>3, <3>4, FileStep
  <2>8. CASE restored \/ parted
    BY <1>4, <2>8 DEF FileInv
  <2> QED
    BY <2>7, <2>8
<1>8. CASE Drop(p)
  <2> DEFINE t == [task[p] EXCEPT !.pc = "unlink", !.todo = @ \ {b}]
  <2>1. t.pc = "unlink" /\ t.todo = task[p].todo \ {b} /\ t.snap = task[p].snap
    BY <1>1 DEF Tasks
  <2>2. (Become(p, NoTask) \/ Become(p, t)) /\ UNCHANGED files /\ rows' = [rows EXCEPT ![b] = NoBackup]
    BY <1>8 DEF Drop, SetRow, b
  <2>3. task[p].pc = "drop"
    BY <1>8 DEF Drop, Stands
  <2> HIDE DEF t
  <2>4. rows'[b] = NoBackup /\ \A c \in BackupIds \ {b} : rows'[c] = rows[c]
    BY <1>1, <1>3, <2>2 DEF Tables
  <2>5. ActiveRows' \subseteq ActiveRows /\ b \notin ActiveRows' /\ ~rows'[b].file
    BY <1>3, <2>4 DEF ActiveRows, Active, NoBackup
  <2>6. ~InRun(t) /\ ~InRun(NoTask) /\ ~Deleting(NoTask)
    BY <2>1, IdleSound DEF InRun, Deleting
  <2>7. CASE ~restored /\ ~parted
    <3>1. b \notin files' /\ b <= begun'
      BY <1>3, <1>4, <1>5, <2>2, <2>3, <2>7
    <3>2. \A c \in t.todo : /\ c <= begun' /\ c \notin ActiveRows'
                            /\ ~t.snap[c].file => c \notin files'
      BY <1>4, <1>5, <2>1, <2>2, <2>5, <2>7
    <3>3. \A q \in Procs : InRun(task[q]) => task[q].mine # b
      BY <1>5, <2>7
    <3>4. begun' \in Nat /\ begun <= begun'
      BY <1>1, <1>4
    <3>5. CASE Become(p, NoTask)
      BY <1>4, <1>6, <2>2, <2>4, <2>5, <2>6, <3>1, <3>3, <3>4, <3>5, FileStep
    <3>6. CASE Become(p, t)
      BY <1>4, <1>6, <2>1, <2>2, <2>4, <2>5, <2>6, <3>1, <3>2, <3>3, <3>4, <3>6, FileStep
    <3> QED
      BY <2>2, <3>5, <3>6
  <2>8. CASE restored \/ parted
    BY <1>4, <2>8 DEF FileInv
  <2> QED
    BY <2>7, <2>8
<1> QED
  BY <1>7, <1>8

\* A crash that tears no pair apart finds every file listed.
LEMMA CrashFile == ASSUME TypeInv, FileInv, Crash PROVE FileInv'
<1> SUFFICES ASSUME ~restored', ~parted' PROVE FileInv'
  BY DEF FileInv
<1>1. ~restored /\ ~parted /\ ~Torn /\ UNCHANGED <<files, begun>>
  BY DEF Crash, Restarted
<1>2. \A p \in Procs : task'[p] = NoTask
  BY DEF Crash, Restarted
<1>3. ~InRun(NoTask) /\ ~Deleting(NoTask)
  BY IdleSound DEF InRun, Deleting
<1>4. \A b \in BackupIds : /\ rows'[b].file = rows[b].file
                           /\ b \notin ActiveRows => rows'[b] = rows[b]
  BY DEF Crash, TypeInv, TypeOK, Tables, BackupRows
<1>5. \A b \in BackupIds : b \in files <=> rows[b].file
  <2>1. \A p \in Procs : task[p].pc \notin {"finish", "drop", "fail"}
    BY <1>1 DEF Torn, Stands
  <2>2. \A p \in Procs, b \in BackupIds : ~Holding(task[p], b)
    BY <2>1 DEF Holding
  <2> QED
    BY <1>1, <2>2 DEF FileInv
<1>6. \A b \in BackupIds : b > begun => rows'[b] = NoBackup /\ b \notin files
  <2>1. \A b \in BackupIds : b > begun => rows[b] = NoBackup /\ b \notin files
    BY <1>1 DEF FileInv
  <2>2. \A b \in BackupIds : rows[b] = NoBackup => b \notin ActiveRows
    BY DEF NoBackup, ActiveRows, Active
  <2> QED
    BY <1>4, <2>1, <2>2
<1> QED
  BY <1>1, <1>2, <1>3, <1>4, <1>5, <1>6 DEF FileInv

LEMMA NextFile == TypeInv /\ HeldInv /\ FileInv /\ [Next]_vars => FileInv'
<1> SUFFICES ASSUME TypeInv, HeldInv, FileInv, [Next]_vars PROVE FileInv'
  OBVIOUS
<1>1. ASSUME NEW p \in Procs, Step(p) PROVE FileInv'
  BY <1>1, RunFile, RemoveFileOnce, RestoreFile DEF Step
<1>2. CASE NextSlot \/ UNCHANGED vars
  BY <1>2 DEF NextSlot, vars, tables, bounds, history, FileInv, ActiveRows
<1> QED
  BY <1>1, <1>2, TickFile, CrashFile, AskFile DEF Next

\* A file on disk is listed and a listed file is on disk, but for the pair a
\* request is between.
THEOREM FilesAgree == Spec => []FilesMatchRows
<1>1. Init => HeldInv
  BY DEF Init, HeldInv, ActiveRows, Active, Empty, NoBackup, Stands, NoTask
<1>2. Init => FileInv
  <2> SUFFICES ASSUME Init PROVE FileInv
    OBVIOUS
  <2>1. ~InRun(NoTask) /\ ~Deleting(NoTask)
    BY IdleSound DEF InRun, Deleting
  <2>2. \A p \in Procs : task[p] = NoTask
    BY DEF Init
  <2>3. files = {} /\ \A b \in BackupIds : rows[b] = NoBackup /\ ~rows[b].file
    BY DEF Init, Empty, NoBackup
  <2> QED
    BY <2>1, <2>2, <2>3 DEF FileInv
<1>3. FileInv => FilesMatchRows
  <2> SUFFICES ASSUME FileInv, ~restored, ~parted, NEW b \in BackupIds
               PROVE  InHand(b) \/ (b \in files <=> rows[b].file)
    BY DEF FilesMatchRows
  <2>1. (\E p \in Procs : Holding(task[p], b)) \/ (b \in files <=> rows[b].file)
    BY DEF FileInv
  <2> QED
    BY <2>1 DEF InHand, Holding, Stands
<1> QED
  BY <1>1, <1>2, <1>3, InitTyping, NextTyping, NextHeld, NextFile, PTL DEF Spec

===============================================================================
