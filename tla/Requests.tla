-------------------------------- MODULE Requests --------------------------------
(***************************************************************************)
(* Requests to the API as the modules of the back office share them.  Each *)
(* handler runs its statements one by one; those of different requests     *)
(* interleave, since neither Node nor the database holds a handler         *)
(* together outside a transaction.  A request is a record with its         *)
(* operation, what it has read and where it stands; requests are numbered  *)
(* in the order they arrive.                                               *)
(***************************************************************************)
EXTENDS Integers

CONSTANT MaxRequests   \* bound: requests in a behaviour
VARIABLE req

ASSUME MaxRequestsNat == MaxRequests \in Nat

Requests == 1..MaxRequests
Idle == [op |-> "idle"]
Over == [op |-> "done"]
InFlight == {r \in Requests : req[r] \notin {Idle, Over}}
Running(op) == {r \in Requests : req[r].op = op}

Arrives(r)  == req[r] = Idle /\ (r > 1 => req[r - 1] # Idle)
Start(r, q) == req' = [req EXCEPT ![r] = q]
Done(rs, r) == [rs EXCEPT ![r] = Over]
\* The request ends, answered or refused.
Ends(r)     == req' = Done(req, r)
At(r, op, step) == req[r].op = op /\ req[r].at = step
GoesTo(r, step) == req' = [req EXCEPT ![r].at = step]
NoRequests  == req = [r \in Requests |-> Idle]
=============================================================================
