----------------------------- MODULE Reservations ------------------------------
(***************************************************************************)
(* What the checkout promises about stock, seen from outside.  A unit is   *)
(* free, or an order (or a checkout about to place one) has it.  An order  *)
(* comes into existence in one step, with a unit of everything it contains *)
(* or not at all; units come back one at a time when it is written off; a  *)
(* payment that lands on a written-off order sells its units again, free   *)
(* or not, and from then on a unit may have been sold twice.  Units are    *)
(* lost only when a request is cut short.                                  *)
(***************************************************************************)
EXTENDS Integers

CONSTANTS Skus,     \* products and variants whose inventory is tracked
          Initial   \* the units of each there are to begin with

VARIABLES free,     \* per SKU: the units nothing holds
          placed,   \* how many orders were placed
          lateSale, \* a payment landed on a written-off order
          cutShort  \* a request was cut short, or handing a unit back failed

Init == free = Initial /\ placed = 0 /\ lateSale = FALSE /\ cutShort = FALSE

Minus(lines) == [s \in Skus |-> IF s \in lines THEN free[s] - 1 ELSE free[s]]

\* A unit of each line of the order, all of them or none.
Place(lines) ==
  /\ lateSale \/ \A s \in lines : free[s] >= 1
  /\ free' = Minus(lines) /\ placed' = placed + 1
  /\ UNCHANGED <<lateSale, cutShort>>

Return(s) ==
  /\ free' = [free EXCEPT ![s] = @ + 1]
  /\ UNCHANGED <<placed, lateSale, cutShort>>

\* decrementOrderItemsStock has no guard: "the goods are sold either way".
SellAgain(s) ==
  /\ free' = [free EXCEPT ![s] = @ - 1] /\ lateSale' = TRUE
  /\ UNCHANGED <<placed, cutShort>>

Lose(lines) ==
  /\ free' = Minus(lines) /\ cutShort' = TRUE
  /\ UNCHANGED <<placed, lateSale>>

Next ==
  \/ \E lines \in SUBSET Skus : Place(lines) \/ Lose(lines)
  \/ \E s \in Skus : Return(s) \/ SellAgain(s)

Spec == Init /\ [][Next]_<<free, placed, lateSale, cutShort>>
================================================================================
