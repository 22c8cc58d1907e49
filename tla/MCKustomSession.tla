---------------------------- MODULE MCKustomSession ----------------------------
(* TLC instance of KustomSession: model values come from the cfg files.        *)
EXTENDS KustomSession

CONSTANTS plain, noted, larger

\* A note changes the snapshot and not what it costs.
MCCost == [i \in Items |-> IF i = larger THEN 2 ELSE 1]
================================================================================
