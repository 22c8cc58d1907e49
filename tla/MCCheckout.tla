------------------------------ MODULE MCCheckout -------------------------------
(* TLC instance of Checkout.                                                   *)
EXTENDS Checkout

\* One unit of each: every second buyer of the same SKU finds it sold out.
MCInitial == [s \in Skus |-> 1]

\* No limit; one redemption, so that the second claim is refused.
MCLimits == {NoLimit, 1}
================================================================================
