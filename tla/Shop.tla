---------------------------------- MODULE Shop ----------------------------------
(***************************************************************************)
(* The shop a creator runs: own products and their variants, collections,  *)
(* and the cart of a customer, changed by requests that interleave.        *)
(***************************************************************************)
EXTENDS Collections, Cart

varsShop == <<varsP, varsK, varsC, req>>

Init == InitK /\ InitP /\ InitC /\ NoRequests

\* A request of each part leaves the other parts alone.
Selling(r)    == NextP(r) /\ UNCHANGED <<varsK, varsC>>
Collecting(r) == NextK(r) /\ UNCHANGED varsC
Shopping(r)   == NextC(r) /\ UNCHANGED <<varsP, varsK>>
Offering      == \E o \in Offers : OfferChanges(o) /\ UNCHANGED <<varsP, varsK>>

ShopNext == (\E r \in Requests : Selling(r) \/ Collecting(r) \/ Shopping(r)) \/ Offering
ShopSpec == Init /\ [][ShopNext]_varsShop

\* The catalogue the creator keeps is whole: a product has its parts, and every
\* collection is in the tree.
CatalogueIsWhole == PartsAreWhole /\ AllAreShown

\* The cart can be checked out and holds what the customer put there: bundle
\* offers in the quantity they are for, and every piece in one place.
CartIsWhole == BundleLinesWhole /\ PiecesAreKept

TypeOK == TypeOKP /\ TypeOKK /\ TypeOKC
=============================================================================
