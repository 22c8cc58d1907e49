------------------------------ MODULE KustomOrder ------------------------------
(***************************************************************************)
(* The order-first Kustom checkout (kustom.service.ts): the order exists,  *)
(* the customer opens its payment page, which creates a checkout at Kustom *)
(* or takes up the one the order holds, pays there, and a push or the      *)
(* confirmation page marks the order paid.                                 *)
(*                                                                         *)
(* The page may be opened twice at once, the checkout expires after 48     *)
(* hours, Kustom pushes again until we acknowledge, and the customer may   *)
(* type another address in the iframe.  What marking an order paid does to *)
(* stock and commission is in OrderPayment; the money is in KustomMoney.   *)
(***************************************************************************)
EXTENDS Requests, FiniteSets

CONSTANTS
  Checkouts,   \* ids Kustom gives out, one after the other
  Typed,       \* addresses a customer may type, the one of the order included
  Home,        \* one of them, the address the order was placed with
  None,        \* null
  MaxCuts      \* bound: requests that die, authorizations amended

VARIABLES
  sale,       \* the order row: pay, held (kustom_order_id), token, taxed, address
  checkout,   \* what Kustom has under each id
  book,       \* address rows with the label Kustom, one number per address
  mismatch,   \* a PAYMENT_MISMATCH row is in the timeline
  handed,     \* checkouts whose snippet the customer was given
  cuts,       \* counter of the bound
  missed      \* history: an address was not taken over

pageVars == <<sale, checkout, book, mismatch, handed, cuts, missed, req>>

ASSUME NoneIsNothing == None \notin Checkouts /\ Home \in Typed
ASSUME MaxCutsNat    == MaxCuts \in Nat

Unknown == [status |-> "unknown"]
Tokens  == Requests \cup {0, None}
Held    == Checkouts \cup {None}
PlacedOrders == [pay : {"awaiting_payment", "paid", "failed"}, held : Held, token : Tokens,
                 taxed : BOOLEAN, address : Typed]
\* ours: the amount is ours; told: acknowledged.
Sessions == [status : {"incomplete", "complete", "expired"}, token : Tokens, ours : BOOLEAN,
             address : Typed, approved : BOOLEAN, told : BOOLEAN]
\* held: as read; made: the checkout it created; from: the address as read.
Opens    == [op : {"open"}, at : {"token", "tax", "existing", "create"},
             held : Held, token : Tokens, taxed : BOOLEAN, made : Held]
Claims   == [op : {"open"}, at : {"claim"},
             held : Held, token : Tokens, taxed : BOOLEAN, made : Checkouts]
Verifiers == [op : {"verify"}, at : {"read", "pay"}, id : Checkouts, held : Held]
Syncs     == [op : {"verify"}, at : {"look"}, id : Checkouts]
        \cup [op : {"verify"}, at : {"make", "point", "tell"}, id : Checkouts, from : Typed]
Kinds     == Opens \cup Claims \cup Verifiers \cup Syncs \cup {Idle, Over}

PageTypeOK ==
  /\ sale \in PlacedOrders /\ checkout \in [Checkouts -> Sessions \cup {Unknown}]
  /\ book \in [Typed -> Nat] /\ mismatch \in BOOLEAN /\ handed \subseteq Checkouts
  /\ cuts \in 0..MaxCuts /\ missed \in BOOLEAN
  /\ req \in [Requests -> Kinds]

\* An order that was placed before orders had tokens and taxes, or after.
PageInit ==
  /\ \E new \in BOOLEAN :
       sale = [pay |-> "awaiting_payment", held |-> None,
                token |-> IF new THEN 0 ELSE None, taxed |-> new, address |-> Home]
  /\ checkout = [c \in Checkouts |-> Unknown]
  /\ book = [a \in Typed |-> 0] /\ mismatch = FALSE /\ handed = {} /\ cuts = 0 /\ missed = FALSE
  /\ NoRequests

Known == {c \in Checkouts : checkout[c] # Unknown}
Is(c, status) == IF c \in Known THEN checkout[c].status = status ELSE FALSE
Cut == cuts < MaxCuts /\ cuts' = cuts + 1

(***************************************************************************)
(* createSession                                                           *)
(***************************************************************************)
FirstStep(token, taxed) ==
  IF token = None THEN "token" ELSE IF taxed THEN "existing" ELSE "tax"

\* The order is read.
OpenPage(r) ==
  /\ Arrives(r)
  /\ IF sale.pay # "awaiting_payment" THEN Ends(r)
     ELSE Start(r, [op |-> "open", at |-> FirstStep(sale.token, sale.taxed), held |-> sale.held,
                    token |-> sale.token, taxed |-> sale.taxed, made |-> None])
  /\ UNCHANGED <<sale, checkout, book, mismatch, handed, cuts, missed>>

\* One without a token gets one before any URL is handed out: whoever has read
\* that there is none writes a token of its own.
WriteToken(r) ==
  /\ At(r, "open", "token")
  /\ sale' = [sale EXCEPT !.token = r]
  /\ req' = [req EXCEPT ![r].token = r, ![r].at = FirstStep(r, req[r].taxed)]
  /\ UNCHANGED <<checkout, book, mismatch, handed, cuts, missed>>

\* backfillTaxSnapshot: the snapshot is written, the total is left as it was,
\* and the order is read again.
BackfillTax(r) ==
  /\ At(r, "open", "tax")
  /\ sale' = [sale EXCEPT !.taxed = TRUE]
  /\ req' = [req EXCEPT ![r].held = sale.held, ![r].at = "existing"]
  /\ UNCHANGED <<checkout, book, mismatch, handed, cuts, missed>>

Gives(r, c) == handed' = handed \cup {c} /\ Ends(r)

\* The request goes on as the verification of a completed checkout.
Verifies(r, c) ==
  Start(r, [op |-> "verify", at |-> "read", id |-> c, held |-> sale.held])

\* loadExistingSession: an open checkout is handed out again, with our total; a
\* completed one is verified; one that Kustom has forgotten is replaced, or,
\* after a lost claim, the page gets the one it made itself.
TakeUp(r) ==
  /\ At(r, "open", "existing")
  /\ LET c == req[r].held
     IN IF c = None \/ Is(c, "expired")
        THEN /\ IF req[r].made = None THEN GoesTo(r, "create") /\ UNCHANGED handed
                ELSE Gives(r, req[r].made)
             /\ UNCHANGED checkout
        ELSE IF Is(c, "complete") THEN Verifies(r, c) /\ UNCHANGED <<checkout, handed>>
        ELSE /\ Gives(r, c)
             /\ checkout' = [checkout EXCEPT ![c].ours = TRUE]
  /\ UNCHANGED <<sale, book, mismatch, cuts, missed>>

\* createCheckout: its URLs carry the token this request knows.
CreateCheckout(r) ==
  /\ At(r, "open", "create") /\ Checkouts \ Known # {}
  /\ LET c == CHOOSE x \in Checkouts \ Known : TRUE
     IN /\ checkout' = [checkout EXCEPT ![c] =
            [status |-> "incomplete", token |-> req[r].token, ours |-> TRUE,
             address |-> Home, approved |-> FALSE, told |-> FALSE]]
        /\ req' = [req EXCEPT ![r].made = c, ![r].at = "claim"]
  /\ UNCHANGED <<sale, book, mismatch, handed, cuts, missed>>

\* MUTANT: the new checkout is stored whatever the order holds by now.
ClaimUnchecked(r) ==
  /\ At(r, "open", "claim")
  /\ sale' = [sale EXCEPT !.held = req[r].made] /\ Gives(r, req[r].made)
  /\ UNCHANGED <<checkout, book, mismatch, cuts, missed>>

\* The claim: only over null or over the expired one that was read.  The loser
\* takes up the winner's checkout.
Claim(r) ==
  /\ At(r, "open", "claim")
  /\ IF sale.held \in {None, req[r].held}
     THEN sale' = [sale EXCEPT !.held = req[r].made] /\ Gives(r, req[r].made)
     ELSE /\ req' = [req EXCEPT ![r].at = "existing", ![r].held = sale.held]
          /\ UNCHANGED <<sale, handed>>
  /\ UNCHANGED <<checkout, book, mismatch, cuts, missed>>

(***************************************************************************)
(* Kustom and the customer                                                 *)
(***************************************************************************)
\* handleValidation: the token, the status and the stored id must fit, and the
\* amount be ours.
Accepted(c) ==
  /\ checkout[c].token = sale.token /\ sale.pay = "awaiting_payment"
  /\ checkout[c].ours /\ sale.held \in {None, c}

\* Before it takes the money Kustom asks for our approval.
Validate(c) ==
  /\ c \in handed /\ Is(c, "incomplete") /\ ~checkout[c].approved /\ Accepted(c)
  /\ \E a \in Typed : checkout' = [checkout EXCEPT ![c].approved = TRUE, ![c].address = a]
  /\ UNCHANGED <<sale, book, mismatch, handed, cuts, req, missed>>

Complete(c) ==
  /\ Is(c, "incomplete") /\ checkout[c].approved
  /\ checkout' = [checkout EXCEPT ![c].status = "complete"]
  /\ UNCHANGED <<sale, book, mismatch, handed, cuts, req, missed>>

\* The merchant changes the authorized amount before we have read it.
Amend(c) ==
  /\ Is(c, "complete") /\ Cut
  /\ checkout' = [checkout EXCEPT ![c].ours = FALSE]
  /\ UNCHANGED <<sale, book, mismatch, handed, req, missed>>

\* After 48 hours, longer than any request takes.
Expire(c) ==
  /\ Is(c, "incomplete") /\ ~checkout[c].approved /\ InFlight = {}
  /\ checkout' = [checkout EXCEPT ![c].status = "expired"]
  /\ UNCHANGED <<sale, book, mismatch, handed, cuts, req, missed>>

\* The order is released as unpaid, or cancelled.
Abandon ==
  /\ sale.pay = "awaiting_payment" /\ sale' = [sale EXCEPT !.pay = "failed"]
  /\ UNCHANGED <<checkout, book, mismatch, handed, cuts, req, missed>>

(***************************************************************************)
(* Verifying                                                               *)
(***************************************************************************)
\* handlePush, until it was acknowledged: the token and the stored id must fit.
Push(r, c) ==
  /\ Arrives(r) /\ Is(c, "complete") /\ ~checkout[c].told
  /\ IF checkout[c].token = sale.token /\ sale.held \in {None, c}
     THEN Verifies(r, c) ELSE Ends(r)
  /\ UNCHANGED <<sale, checkout, book, mismatch, handed, cuts, missed>>

\* getConfirmation: of the checkout the order holds.
ConfirmPage(r) ==
  /\ Arrives(r) /\ sale.held # None
  /\ IF Is(sale.held, "complete") THEN Verifies(r, sale.held) ELSE Ends(r)
  /\ UNCHANGED <<sale, checkout, book, mismatch, handed, cuts, missed>>

\* One row, however often it is noticed.
RecordMismatch == mismatch' = TRUE

\* processCompletedCheckout: an order of another amount is noted and
\* never marked paid.
ReadLive(r) ==
  /\ At(r, "verify", "read")
  /\ IF checkout[req[r].id].ours THEN GoesTo(r, "pay") /\ UNCHANGED mismatch
     ELSE Ends(r) /\ RecordMismatch
  /\ UNCHANGED <<sale, checkout, book, handed, cuts, missed>>

\* The id is stored if none was read before, and the order is paid.
MarkOrderPaid(r) ==
  /\ At(r, "verify", "pay")
  /\ sale' = [sale EXCEPT !.held = IF req[r].held = None THEN req[r].id ELSE @,
                            !.pay = "paid"]
  /\ req' = [req EXCEPT ![r] = [op |-> "verify", at |-> "look", id |-> req[r].id]]
  /\ UNCHANGED <<checkout, book, mismatch, handed, cuts, missed>>

\* MUTANT: the address is taken over only by the request that finds no row.
FindAddressOnce(r) ==
  /\ At(r, "verify", "look")
  /\ LET typed == checkout[req[r].id].address
     IN req' = [req EXCEPT ![r] =
          [op |-> "verify", id |-> req[r].id, from |-> sale.address,
           at |-> IF typed = sale.address \/ book[typed] > 0 THEN "tell" ELSE "make"]]
  /\ UNCHANGED <<sale, checkout, book, mismatch, handed, cuts, missed>>

\* syncShippingAddress: the address of the order is compared with the one typed
\* at Kustom, and a row that says the same is looked for.
FindAddress(r) ==
  /\ At(r, "verify", "look")
  /\ LET typed == checkout[req[r].id].address
     IN req' = [req EXCEPT ![r] =
          [op |-> "verify", id |-> req[r].id, from |-> sale.address,
           at |-> IF typed = sale.address THEN "tell"
                  ELSE IF book[typed] > 0 THEN "point" ELSE "make"]]
  /\ UNCHANGED <<sale, checkout, book, mismatch, handed, cuts, missed>>

MakeAddress(r) ==
  /\ At(r, "verify", "make")
  /\ book' = [book EXCEPT ![checkout[req[r].id].address] = @ + 1]
  /\ GoesTo(r, "point")
  /\ UNCHANGED <<sale, checkout, mismatch, handed, cuts, missed>>

\* The order is pointed to it if it still has the address that was read.
PointTo(r) ==
  /\ At(r, "verify", "point")
  /\ sale' = IF sale.address = req[r].from
              THEN [sale EXCEPT !.address = checkout[req[r].id].address] ELSE sale
  /\ GoesTo(r, "tell")
  /\ UNCHANGED <<checkout, book, mismatch, handed, cuts, missed>>

\* acknowledge: Kustom stops pushing.
Acknowledge(r) ==
  /\ At(r, "verify", "tell")
  /\ checkout' = [checkout EXCEPT ![req[r].id].told = TRUE] /\ Ends(r)
  /\ UNCHANGED <<sale, book, mismatch, handed, cuts, missed>>

\* A statement of it fails, which is logged and passed over.
AddressFails(r) ==
  /\ At(r, "verify", "make") \/ At(r, "verify", "point")
  /\ Cut /\ GoesTo(r, "tell") /\ missed' = TRUE
  /\ UNCHANGED <<sale, checkout, book, mismatch, handed>>

\* A request dies, or a call it needs fails.
Dies(r) ==
  /\ r \in InFlight /\ Cut /\ Ends(r)
  /\ UNCHANGED <<sale, checkout, book, mismatch, handed, missed>>

-------------------------------------------------------------------------------
PageStep(r) ==
  \/ WriteToken(r) \/ BackfillTax(r) \/ TakeUp(r) \/ CreateCheckout(r) \/ Claim(r) \/ ReadLive(r)
  \/ MarkOrderPaid(r) \/ FindAddress(r) \/ MakeAddress(r) \/ PointTo(r) \/ Acknowledge(r)

PageNext ==
  \/ \E r \in Requests : OpenPage(r) \/ ConfirmPage(r) \/ PageStep(r) \/ AddressFails(r) \/ Dies(r)
                         \/ \E c \in Checkouts : Push(r, c)
  \/ \E c \in Checkouts : Validate(c) \/ Complete(c) \/ Amend(c) \/ Expire(c)
  \/ Abandon

PageSpec == PageInit /\ [][PageNext]_pageVars

(***************************************************************************)
(* Properties                                                              *)
(***************************************************************************)
\* The customer pays at most once for an order, in the checkout the order
\* holds, "otherwise the customer could pay in a session we never stored, and
\* its push would be rejected forever" (createSession), however often the page
\* is opened at once and whenever a checkout expires.
PaidWhereHeld == \A c \in Checkouts : Is(c, "complete") => sale.held = c

\* Kustom stops pushing only when the order is paid and, since the purchase is
\* approved for the address typed there, goes to that address: "the loser of
\* the race does not overwrite the winner's row" (syncShippingAddress), and a
\* request that dies half way is made good by the next push.  Only an address
\* that could not be saved is left behind.
AcknowledgedIsWhole ==
  \A c \in Known : checkout[c].told =>
    sale.pay = "paid" /\ (missed \/ sale.address = checkout[c].address)
================================================================================
