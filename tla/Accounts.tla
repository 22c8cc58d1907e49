-------------------------------- MODULE Accounts --------------------------------
(***************************************************************************)
(* User accounts: registration, reset links and passwords                  *)
(* (auth.service.ts), the administrator's editing of users                 *)
(* (users.service.ts), and the profile an account has according to its     *)
(* role (creators, providers and customers services).  Looking up, hashing *)
(* and storing are separate statements of a request.                       *)
(***************************************************************************)
EXTENDS Requests, FiniteSets

CONSTANTS
  Users,     \* ids of users, given in order
  Emails,    \* addresses as they are typed
  Normal     \* address -> its canonical form, normalizeEmail

ASSUME NormalOK == Normal \in [DOMAIN Normal -> DOMAIN Normal] /\ Emails \subseteq DOMAIN Normal

VARIABLES
  user,      \* id -> the row
  link,      \* rows of the sessions table that are reset links
  \* history
  twice,     \* addresses stored by an administrator in another case, or since they were looked up
  resets,    \* id -> how often its password was reset
  torn       \* users a reset of whom stopped in its middle or met another, or making whom stopped

varsA == <<user, link, twice, resets, torn>>
UserRoles == {"ADMIN", "PROVIDER", "CREATOR", "CUSTOMER"}
UserStatuses == {"PENDING", "ACTIVE", "SUSPENDED", "BANNED"}
Unmade  == [role |-> "unmade"]
Erased  == [role |-> "erased"]
Account(u) == user[u] \notin {Unmade, Erased}
Row(email, role, status) == [email |-> email, role |-> role, status |-> status, profile |-> role = "ADMIN"]
Accounts == {u \in Users : Account(u)}
WithEmail(e) == {u \in Accounts : user[u].email = e}
Admins == {u \in Accounts : user[u].role = "ADMIN"}
\* The index answers first; a row stored in another case is found by it too.
AnyCase(e) == {u \in Accounts : Normal[user[u].email] = Normal[e]}
Found(e) == IF WithEmail(Normal[e]) # {} THEN WithEmail(Normal[e]) ELSE AnyCase(e)
NextUser(u) == user[u] = Unmade /\ \A v \in Users : user[v] = Unmade => u <= v
-----------------------------------------------------------------------------
(* Making accounts *)

Makes(r, e, role, status, saw) ==
  Start(r, [op |-> "make", at |-> "user", email |-> e, role |-> role, status |-> status, u |-> 0, saw |-> saw])
\* History: the address has come up in another case since, or was not asked for in any.
Doubles(q, others) == twice' = IF q.saw = {} /\ others # {} THEN twice \cup {Normal[q.email]} ELSE twice
\* MUTANT: only the index is asked.
UnregisteredExactly(e) == WithEmail(Normal[e]) = {}
Unregistered(e) == Found(e) = {}
Registers(r, e, role) ==
  /\ Arrives(r)
  /\ IF Unregistered(e) /\ role # "ADMIN" THEN Makes(r, Normal[e], role, "ACTIVE", Found(e)) ELSE Ends(r)
  /\ UNCHANGED varsA
AdminMakes(r, e, role, status) ==
  /\ Arrives(r)
  /\ IF WithEmail(e) = {} THEN Makes(r, e, role, status, {}) ELSE Ends(r)
  /\ UNCHANGED varsA
\* A guest who paid: the account and its profile are one statement.
MakesGuest(r, e) ==
  /\ Arrives(r)
  /\ IF Unregistered(e)
     THEN Start(r, [op |-> "guest", email |-> Normal[e], saw |-> Found(e)]) /\ UNCHANGED varsA
     ELSE /\ Ends(r)
          /\ \E u \in Found(e) : user' = IF user[u].role = "CUSTOMER" THEN [user EXCEPT ![u].profile = TRUE] ELSE user
          /\ UNCHANGED <<link, twice, resets, torn>>
StoresGuest(r) ==
  /\ r \in Running("guest") /\ Ends(r)
  /\ IF WithEmail(req[r].email) = {}
     THEN /\ \E u \in Users :
               /\ NextUser(u)
               /\ user' = [user EXCEPT ![u] = [Row(req[r].email, "CUSTOMER", "ACTIVE") EXCEPT !.profile = TRUE]]
          /\ Doubles(req[r], AnyCase(req[r].email))
     ELSE UNCHANGED <<user, twice>>
  /\ UNCHANGED <<link, resets, torn>>
\* Then the row, unless another request has the address by now.
StoresUser(r) ==
  LET q == req[r] IN
  /\ At(r, "make", "user")
  /\ IF WithEmail(q.email) = {}
     THEN \E u \in Users :
            /\ NextUser(u)
            /\ user' = [user EXCEPT ![u] = Row(q.email, q.role, q.status)]
            /\ IF q.role = "ADMIN" THEN Ends(r) ELSE Start(r, [q EXCEPT !.at = "profile", !.u = u])
            /\ Doubles(q, AnyCase(q.email))
     ELSE Ends(r) /\ UNCHANGED <<user, twice>>
  /\ UNCHANGED <<link, resets, torn>>
StoresProfile(r) ==
  /\ At(r, "make", "profile") /\ Ends(r)
  /\ user' = IF Account(req[r].u) THEN [user EXCEPT ![req[r].u].profile = TRUE] ELSE user
  /\ UNCHANGED <<link, twice, resets, torn>>
MakingDies(r) ==
  /\ At(r, "make", "profile") /\ Ends(r)
  /\ torn' = torn \cup {req[r].u}
  /\ UNCHANGED <<user, link, twice, resets>>
\* create of the three services; ensureCustomer.
AddsProfile(r, u) ==
  /\ Arrives(r) /\ Account(u) /\ user[u].role # "ADMIN" /\ Ends(r)
  /\ user' = [user EXCEPT ![u].profile = TRUE]
  /\ UNCHANGED <<link, twice, resets, torn>>
-----------------------------------------------------------------------------
(* Editing and removing *)

EditsUser(r, u, e, status) ==
  /\ Arrives(r)
  /\ IF Account(u) /\ (e = user[u].email \/ WithEmail(e) = {})
     THEN Start(r, [op |-> "edit", u |-> u, email |-> e, status |-> status, saw |-> {}]) ELSE Ends(r)
  /\ UNCHANGED varsA
\* The address is stored as it was typed.
StoresEdit(r) ==
  LET q == req[r] IN
  /\ r \in Running("edit") /\ Ends(r)
  /\ IF Account(q.u) /\ WithEmail(q.email) \subseteq {q.u}
     THEN /\ user' = [user EXCEPT ![q.u].email = q.email, ![q.u].status = q.status]
          /\ Doubles(q, AnyCase(q.email) \ {q.u})
     ELSE UNCHANGED <<user, twice>>
  /\ UNCHANGED <<link, resets, torn>>
SetsStatus(r, u, status) ==
  /\ Arrives(r) /\ Account(u) /\ Ends(r)
  /\ user' = [user EXCEPT ![u].status = status]
  /\ UNCHANGED <<link, twice, resets, torn>>
MayRemove(u, by) == u # by /\ (user[u].role = "ADMIN" => Cardinality(Admins) > 1)
RemovesUser(r, u, by) ==
  /\ Arrives(r) /\ Account(u) /\ by \in Admins
  /\ IF MayRemove(u, by) THEN Start(r, [op |-> "remove", u |-> u]) ELSE Ends(r)
  /\ UNCHANGED varsA
\* The row goes with its links.
Erases(r) ==
  LET u == req[r].u IN
  /\ r \in Running("remove") /\ Ends(r)
  /\ user' = IF Account(u) THEN [user EXCEPT ![u] = Erased] ELSE user
  /\ link' = {l \in link : l.u # u}
  /\ UNCHANGED <<twice, resets, torn>>
-----------------------------------------------------------------------------
(* Passwords *)

\* A link is asked for; its row is stored once it is signed.
Forgets(r, e) ==
  /\ Arrives(r)
  /\ IF Found(e) = {} THEN Ends(r) ELSE \E u \in Found(e) : Start(r, [op |-> "forget", u |-> u])
  /\ UNCHANGED varsA
StoresLink(r) ==
  LET u == req[r].u IN
  /\ r \in Running("forget") /\ Ends(r)
  /\ link' = IF Account(u) THEN link \cup {[u |-> u, by |-> r, after |-> resets[u]]} ELSE link
  /\ UNCHANGED <<user, twice, resets, torn>>
\* resetPassword, with the link, or by an administrator.
Resetting(u) == {s \in Running("reset") : req[s].u = u}
Resets(r, l) ==
  /\ Arrives(r) /\ l.u \in Users
  /\ IF l \in link THEN Start(r, [op |-> "reset", at |-> "hash", u |-> l.u, link |-> {l}]) ELSE Ends(r)
  /\ UNCHANGED varsA
AdminResets(r, u) ==
  /\ Arrives(r) /\ Account(u)
  /\ Start(r, [op |-> "reset", at |-> "hash", u |-> u, link |-> {}])
  /\ UNCHANGED varsA
StoresPassword(r) ==
  LET u == req[r].u IN
  /\ At(r, "reset", "hash")
  /\ IF Account(u)
     THEN /\ GoesTo(r, "revoke")
          /\ resets' = [resets EXCEPT ![u] = @ + 1]
          /\ torn' = IF Resetting(u) = {r} THEN torn ELSE torn \cup {u}
     ELSE Ends(r) /\ UNCHANGED <<resets, torn>>
  /\ UNCHANGED <<user, link, twice>>
Revoked(q) == {l \in link : l.u # q.u}
Revokes(r) ==
  /\ At(r, "reset", "revoke") /\ Ends(r)
  /\ link' = Revoked(req[r])
  /\ UNCHANGED <<user, twice, resets, torn>>
ResetDies(r) ==
  /\ At(r, "reset", "revoke") /\ Ends(r)
  /\ torn' = torn \cup {req[r].u}
  /\ UNCHANGED <<user, link, twice, resets>>
\* logout ends the user's links as well.
LogsOut(r, u) ==
  /\ Arrives(r) /\ Account(u) /\ Ends(r)
  /\ link' = {l \in link : l.u # u}
  /\ UNCHANGED <<user, twice, resets, torn>>
-----------------------------------------------------------------------------
AccountsNext(r, Roles) ==
  \/ /\ Arrives(r)
     /\ \/ \E e \in Emails : Forgets(r, e) \/ MakesGuest(r, e)
        \/ \E e \in Emails, role \in Roles : Registers(r, e, role) \/ AdminMakes(r, e, role, "ACTIVE")
        \/ \E u \in Users : AddsProfile(r, u) \/ AdminResets(r, u) \/ LogsOut(r, u) \/ SetsStatus(r, u, "SUSPENDED")
        \/ \E u \in Users, e \in Emails : EditsUser(r, u, e, "ACTIVE")
        \/ \E u, by \in Users : RemovesUser(r, u, by)
        \/ \E l \in link : Resets(r, l)
  \/ StoresGuest(r) \/ StoresUser(r) \/ StoresProfile(r) \/ MakingDies(r) \/ StoresEdit(r) \/ Erases(r)
  \/ StoresLink(r) \/ StoresPassword(r) \/ Revokes(r) \/ ResetDies(r)

\* Accounts and links as requests that did not overlap leave them.
UserRows == [email : DOMAIN Normal, role : UserRoles, status : UserStatuses, profile : BOOLEAN]
AccountsInit ==
  /\ NoRequests
  /\ user \in [Users -> UserRows \cup {Unmade, Erased}]
  /\ \A u \in Accounts : user[u].profile
  /\ \A u, v \in Accounts : u # v => Normal[user[u].email] # Normal[user[v].email]
  /\ link \subseteq [u : Users, by : {0}, after : {0}]
  /\ twice = {} /\ resets = [u \in Users |-> 0] /\ torn = {}
AccountsSpec ==
  AccountsInit /\ [][\E r \in Requests : AccountsNext(r, UserRoles)]_<<req, varsA>>
-----------------------------------------------------------------------------
\* One address, in whatever case it was typed, has one account, unless an
\* administrator stored another case of it, or one arrived after it was looked
\* up (auth.service.ts:25, email.util.ts:3, kustom-checkout.service.ts:1453).
OneAccountEach ==
  \A u, v \in Accounts : u # v /\ Normal[user[u].email] = Normal[user[v].email] => Normal[user[u].email] \in twice

\* A link that is still open was asked for after the last reset, and an account
\* has the profile of its role, once the requests about it have ended
\* (auth.service.ts:230, auth.service.ts:78, users.service.ts:322).
AccountsAreWhole ==
  \A u \in Accounts \ torn :
    /\ Resetting(u) = {} => \A l \in link : l.u = u => l.after = resets[u]
    /\ {s \in Running("make") : req[s].u = u} = {} => user[u].profile

\* Whoever signs in reaches one account, and a whole one, whatever was typed,
\* merged, reset or cut short.
AccountsAreSound == OneAccountEach /\ AccountsAreWhole
=============================================================================
