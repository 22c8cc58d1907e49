--------------------------------- MODULE MCDesk ---------------------------------
(***************************************************************************)
(* TLC instance of the administration: accounts, stores, taxes, shipping,  *)
(* and the mails of a store with the settings of their senders.            *)
(***************************************************************************)
EXTENDS Accounts, StoreDesk, Mail

MCRank == [s \in {"PENDING", "CONFIRMED", "SHIPPED", "DELIVERED", "CANCELLED", "REFUNDED"} |->
             CASE s = "PENDING" -> 0 [] s = "CONFIRMED" -> 1 [] s = "SHIPPED" -> 5 [] s = "DELIVERED" -> 6 [] OTHER -> 0]

MCNormal == [e \in {"Anna", "anna", "root", "ops"} |-> IF e = "Anna" THEN "anna" ELSE e]

\* Bound: the requests of a behaviour go to one part of the desk, the others
\* stay as they are.
VARIABLE area

\* An administrator, and another, a customer stored before addresses were
\* normalised, or nobody.
SomeUsers ==
  /\ user \in {[u \in Users |-> IF u = 1 THEN Row("root", "ADMIN", "ACTIVE") ELSE IF u = 2 THEN second ELSE Unmade] :
                second \in {Unmade, Row("ops", "ADMIN", "ACTIVE"), [Row("Anna", "CUSTOMER", "ACTIVE") EXCEPT !.profile = TRUE]}}
  /\ link \in {{}, {[u |-> 2, by |-> 0, after |-> 0]}}
  /\ link # {} => user[2] # Unmade
NoUsers == user = [u \in Users |-> IF u = 1 THEN Row("root", "ADMIN", "ACTIVE") ELSE Unmade] /\ link = {}
SomeStore(types) == store \in {NewStore(t, "en", s) : t \in types, s \in {{}, {"ar"}}}
OneOrder(o) == [x \in Orders |-> IF x = 1 THEN o ELSE None]

\* The mails of an order, whose settings stay as they are; or mail alone.
Configured(verified) == [host |-> 1, pass |-> 1, on |-> TRUE, verified |-> verified]
SomeMail ==
  /\ IF area = "mail"
     THEN /\ type \in Types
          /\ own \in {NoSender, Configured(TRUE), Configured(FALSE)}
          /\ platform \in {[db |-> d, env |-> FALSE] : d \in BOOLEAN}
     ELSE type = "INDEPENDENT" /\ own = Configured(TRUE) /\ platform = [db |-> TRUE, env |-> FALSE]
  /\ sold \in {[status |-> "PENDING", payment |-> "unpaid"]} \cup
       (IF area = "told" THEN {[status |-> "CONFIRMED", payment |-> "paid"]} ELSE {})
  /\ MailInit
\* Bound: two requests.
MailsNext ==
  \/ \E r \in 1..2 :
       \/ Goes(r)
       \/ area = "told" /\ \E to \in Statuses \ {"PENDING"} : AsksOrder(r, to)
       \/ area = "mail" /\ AsksMail(r)
  \/ area = "mail" /\ SwitchesType
  \/ Ages

MCInit ==
  /\ pay = [card |-> "charges", on |-> TRUE, complete |-> TRUE, platform |-> "EUR"]
  /\ area \in {"accounts", "settings", "showing", "taxes", "shipping", "told", "mail"}
  /\ SomeMail
  /\ IF area = "accounts" THEN SomeUsers ELSE NoUsers
  /\ IF area \in {"settings", "showing"} THEN SomeStore(Types) ELSE store = NewStore("INDEPENDENT", "en", {})
  /\ order \in {OneOrder(None)} \cup (IF area = "settings"
                 THEN {OneOrder([paid |-> p, split |-> SplitOf(store.type)]) : p \in BOOLEAN} ELSE {})
  /\ class \in {[c \in Classes |-> None]} \cup (IF area = "taxes" THEN {[c \in Classes |->
                 IF c = 1 THEN [default |-> TRUE] ELSE IF c = 2 /\ two THEN [default |-> FALSE] ELSE None] : two \in BOOLEAN} ELSE {})
  /\ rate \in {[x \in Rates |-> None]} \cup (IF area = "taxes" /\ class[1] # None
                THEN {[x \in Rates |-> IF x = 1 THEN [class |-> 1, own |-> TRUE, active |-> TRUE] ELSE None]} ELSE {})
  /\ profile \in {[p \in Profiles |-> None]} \cup (IF area = "shipping"
                  THEN {[p \in Profiles |-> IF p = 3 THEN None ELSE [default |-> p = 1, zones |-> TRUE]]} ELSE {})
  /\ AccountsInit /\ DeskInit
AreaNext(r) ==
  \/ area = "accounts" /\ AccountsNext(r, {"CUSTOMER", "ADMIN"}) /\ UNCHANGED varsD
  \/ area = "settings" /\ Settings(r) /\ UNCHANGED varsA
  \/ area = "showing"  /\ Showing(r) /\ UNCHANGED varsA
  \/ area = "taxes"    /\ Taxing(r) /\ UNCHANGED varsA
  \/ area = "shipping" /\ Sending(r) /\ UNCHANGED varsA
Next ==
  /\ \/ (\E r \in Requests : AreaNext(r)) /\ UNCHANGED varsM
     \/ area \in {"told", "mail"} /\ MailsNext /\ UNCHANGED <<varsA, varsD>>
  /\ UNCHANGED area
Spec == MCInit /\ [][Next]_<<req, varsA, varsD, varsM, area>>
=============================================================================
