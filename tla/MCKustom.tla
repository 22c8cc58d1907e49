-------------------------------- MODULE MCKustom --------------------------------
(***************************************************************************)
(* TLC instance of an order-first Kustom order: its payment page           *)
(* (KustomOrder), and its money once it is paid (KustomMoney).             *)
(***************************************************************************)
EXTENDS KustomOrder, KustomMoney

\* A behaviour is about one of the two, the other stays as it was: the page is
\* over before the money is captured.
VARIABLE area

MCInit ==
  /\ area \in {"page", "money"}
  /\ PageInit /\ Init
  /\ area = "money" => sale.taxed
  /\ area = "page"  => mode = "immediate"
MCNext ==
  /\ \/ area = "page"  /\ PageNext /\ UNCHANGED vars
     \/ area = "money" /\ Next /\ UNCHANGED pageVars
  /\ UNCHANGED area
MCSpec == MCInit /\ [][MCNext]_<<pageVars, vars, area>>
\* As in KustomMoney.
MCFairSpec ==
  /\ MCSpec
  /\ \A r \in Handlers : WF_vars(area = "money" /\ Step(r))
  /\ WF_vars(area = "money" /\ \E w \in wire : Execute(w))
  /\ SF_vars(area = "money" /\ \E r \in Handlers : Look(r))
================================================================================
