-------------------------------- MODULE MCOrders --------------------------------
(***************************************************************************)
(* TLC instance of what happens to an order once it is placed: its payouts *)
(* (Payouts) and its way to the customer (Fulfilment).                     *)
(***************************************************************************)
EXTENDS Payouts, Fulfilment, TLC

CONSTANTS mug, shirt, maker, printer

MCFulfiller == mug :> maker @@ shirt :> printer

\* Bound: a behaviour is about one of the two, the other stays as it was.
VARIABLE area

MCInit ==
  /\ Init /\ WayInit
  /\ \/ area = "payouts"
     \/ area = "way" /\ fulfillers = Parties
MCNext ==
  /\ \/ area = "payouts" /\ Next /\ UNCHANGED wayVars
     \/ area = "way" /\ WayNext /\ UNCHANGED vars
  /\ UNCHANGED area
MCSpec == MCInit /\ [][MCNext]_<<vars, wayVars, area>>

Symmetry == Permutations(Accounts) \cup Permutations(Intents)
              \cup Permutations(Workers) \cup Permutations(Requests)

ASSUME WayConstants == ConstantsOK
================================================================================
