--------------------------------- MODULE Money ---------------------------------
(***************************************************************************)
(* Amounts: the rounding and sharing rules of src/common/money.            *)
(*                                                                         *)
(* Every amount is an integer number of hundredths, which is what the      *)
(* Decimal(10,2) columns hold.  A currency is the number of hundredths in  *)
(* its minor unit: 1, or 100 for the ones without decimals (a smaller      *)
(* number in the instances, so that prices stay small).  Rates are in      *)
(* parts of Whole: MAX_RATE_BP, 10000 in the code.  The instances take 100 *)
(* and rates that are whole percents, for which the figures are the same.  *)
(***************************************************************************)
EXTENDS Integers, Sequences, FiniteSets, Functions

CONSTANT Whole

ASSUME WholePositive == Whole \in Nat \ {0}

\* Math.round(a / b), for b > 0: halves go up, also below zero.
Round(a, b) == (2 * a + b) \div (2 * b)

\* The magnitude is rounded, then the sign restored.
RoundSymmetric(a, b) == IF a < 0 THEN -Round(-a, b) ELSE Round(a, b)

Larger(a, b)  == IF a > b THEN a ELSE b
Smaller(a, b) == IF a < b THEN a ELSE b

Total(amounts) == SumFunction(amounts)

ClampRate(rate) == Smaller(Whole, Larger(0, rate))

\* Hundredths to minor units of the currency, and back.
ToMinor(amount, unit) == Round(amount, unit)
ToMajor(minor, unit)  == minor * unit

\* The tax inside an amount, and the tax on top of one.
IncludedTax(amount, rate) ==
  RoundSymmetric(amount * ClampRate(rate), Whole + ClampRate(rate))
AddedTax(amount, rate) == RoundSymmetric(amount * ClampRate(rate), Whole)

\* Splits total over the weights: floors first, then what is left one by one
\* to the largest remainders, the earlier line on ties.
AllocateLargestRemainder(total, weights) ==
  LET lines   == DOMAIN weights
      weight  == [i \in lines |-> Larger(0, weights[i])]
      sum     == Total(weight)
      floor   == [i \in lines |-> (weight[i] * total) \div sum]
      rest    == [i \in lines |-> (weight[i] * total) % sum]
      Before(i, j) == rest[i] > rest[j] \/ (rest[i] = rest[j] /\ i < j)
      Rank(i) == Cardinality({j \in lines : weight[j] > 0 /\ Before(j, i)})
      left    == total - Total(floor)
  IN IF sum = 0 \/ total = 0
     THEN [i \in lines |-> 0]
     ELSE [i \in lines |->
             floor[i] + IF weight[i] > 0 /\ Rank(i) < left THEN 1 ELSE 0]
================================================================================
