---------------------------- MODULE CustomProducts ----------------------------
(***************************************************************************)
(* Custom products: a creator resells a provider's product under a text    *)
(* and a price of their own (custom-products.service.ts), attaches bundles *)
(* of quantity offers to them (bundles.service.ts), and the provider       *)
(* reviews what will be sold in their name.                                *)
(*                                                                         *)
(* Every endpoint reads, checks, and writes in separate statements, and    *)
(* writes by id alone: nothing re-checks what was read.  A request is the  *)
(* sequence of its statements; requests interleave, and can be cut short.  *)
(***************************************************************************)
EXTENDS Requests, FiniteSets

CONSTANTS
  CPs,        \* custom product ids of one creator
  Bundles,    \* bundle ids of the same creator
  Slugs,      \* slugs the creator types
  Prices,     \* final prices the creator types (0: sell at the base price)
  Costs,      \* base prices of the provider's product, none of them 0
  Discounts,  \* what an offer of a bundle takes off a unit
  Edits       \* the payloads of PUT /custom-products/:id that are tried, some of EditPayloads

Absent  == [status |-> "absent"]
NoCP    == "no custom product"
NoText  == "no text"
\* The statuses of the review; an ARCHIVED product is one more the creator can
\* set, and takes no part in it.
Reviewable == {"DRAFT", "PENDING_REVIEW", "PUBLISHED", "REJECTED"}
Pricing == {"SINGLE", "VARIED"}   \* VARIED stands for PER_VARIANT and MARGIN
Texts   == Slugs \cup CPs \cup {NoText}   \* the copy of c gets a slug of its own, c

\* UpdateCustomProductDto, as far as the checks look at it.
\* A field is {} when the payload leaves it out, {v} when it says v.
Maybe(S) == {{}} \cup {{v} : v \in S}
EditPayloads == [slug : Maybe(Slugs), status : Maybe(Reviewable), price : Maybe(Prices),
                 pricing : Maybe(Pricing), bundles : Maybe(SUBSET Bundles)]

ASSUME EditsOK == Edits \subseteq EditPayloads
ASSUME SlugsOK == NoText \notin Slugs \cup CPs /\ Slugs \cap CPs = {}

Row == [status : Reviewable, provider : BOOLEAN, pricing : Pricing,
        price : Prices, text : Texts, bundles : SUBSET Bundles]

VARIABLES
  row,         \* CustomProduct rows with their translations and bundle links
  base,        \* the provider's Product: its base price, and whether published
  offers,      \* the offers of each bundle, by their discount; {} when it is gone
  sold,        \* order items that carry one of the bundle's offers: "none",
               \* "kept", or "lost" when the foreign key was set to null
  independent, \* Store.store_type = INDEPENDENT
  \* history
  reviewed,      \* what is stored is what the provider approved
  selfPublished, \* the creator set PUBLISHED through an edit
  overtaken,     \* a request wrote over a row that had changed since it read it
  lost,          \* an update died between its deletes and its write, or the
                 \* row was copied there
  excused,       \* the floor was broken by a change nobody checks, or by a race
  clashed        \* a slug was written while another one was being checked

rows    == <<row, base, offers, sold, independent>>
history == <<reviewed, selfPublished, overtaken, lost, excused, clashed>>
varsCustom == <<row, base, offers, sold, independent, req,
                reviewed, selfPublished, overtaken, lost, excused, clashed>>

Standing == {c \in CPs : row[c] # Absent}
-----------------------------------------------------------------------------
(* The economic check *)

\* computeBundlePricing, as what is left of a unit's price; validateBundleEconomics.
UnitPrice(price, cost) == IF price = 0 THEN cost ELSE price
\* Only SINGLE pricing has a unit price to check.
Covers(r, cost, offs) ==
  (r.pricing = "SINGLE" /\ r.provider)
    => \A d \in offs : UnitPrice(r.price, cost) - d >= cost

RowCovers(r, cost, bs) == \A b \in bs : Covers(r, cost, offers[b])

\* A slug is taken when a custom product of this creator, other than the one
\* being edited, has it.  The creator's own products are read too; they live
\* in Products.
SlugTaken(slug, except) == \E c \in Standing \ {except} : row[c].text = slug
-----------------------------------------------------------------------------
\* q.over collects what other requests wrote since q first read:
\* "row" (its custom product), "floor" (prices, offers), "slug".
Touch(rs, c, what) ==
  [r \in Requests |->
     IF rs[r] \in {Idle, Over} THEN rs[r]
     ELSE [rs[r] EXCEPT !.over = @ \cup (what \ IF rs[r].cp = c THEN {} ELSE {"row"})]]

\* Request r ends with a write of c's row that others may have overlapped.
Finish(r, c, what) == req' = Touch(Done(req, r), c, what)

Begin(r, op, c, arg) ==
  [op |-> op, cp |-> c, arg |-> arg, at |-> "read",
   seen |-> row[c], cost |-> base.price, over |-> {}]

(* Creating *)

\* create: the store, the base product, the slug and the bundles are checked.
CreateReads(r, c, slug, price, bs) ==
  /\ Arrives(r) /\ row[c] = Absent /\ c \notin {req[s].cp : s \in InFlight}
  /\ LET new == [status |-> "DRAFT", provider |-> TRUE, pricing |-> "SINGLE",
                 price |-> price, text |-> slug, bundles |-> bs]
     IN  IF /\ ~independent /\ base.published
            /\ ~SlugTaken(slug, c)
            /\ \A b \in bs : offers[b] # {}
            /\ RowCovers(new, base.price, bs)
         THEN Start(r, Begin(r, "create", c, new))
         ELSE Ends(r)
  /\ UNCHANGED <<rows, history>>

\* duplicate: a transaction copies the row as a DRAFT under a slug of its own,
\* without its bundles.
DuplicateReads(r, c, d) ==
  /\ Arrives(r) /\ c \in Standing /\ row[d] = Absent /\ c # d
  /\ d \notin {req[s].cp : s \in InFlight}
  /\ IF independent THEN Ends(r)
     ELSE Start(r, Begin(r, "create", d,
            [row[c] EXCEPT !.status = "DRAFT", !.bundles = {},
                           !.text = IF @ = NoText THEN NoText ELSE d]))
  /\ UNCHANGED <<rows, history>>

\* The row is created in one statement; a bundle deleted meanwhile fails it.
CreateWrites(r) ==
  LET q == req[r] IN
  /\ q.op = "create"
  /\ IF \E b \in q.arg.bundles : offers[b] = {}
     THEN Ends(r) /\ UNCHANGED <<rows, history>>
     ELSE /\ row' = [row EXCEPT ![q.cp] = q.arg]
          /\ Finish(r, q.cp, {"slug", "floor"})
          /\ reviewed' = reviewed \ {q.cp}
          /\ clashed' = IF "slug" \in q.over THEN clashed \cup {q.cp} ELSE clashed
          /\ excused' = IF "floor" \in q.over THEN excused \cup {q.cp} ELSE excused \ {q.cp}
          /\ overtaken' = overtaken \ {q.cp}
          /\ lost' = IF q.arg.text = NoText THEN lost \cup {q.cp} ELSE lost \ {q.cp}
          /\ selfPublished' = selfPublished \ {q.cp}
          /\ UNCHANGED <<base, offers, sold, independent>>
-----------------------------------------------------------------------------
(* Editing *)

ContentEdit(e) == e.slug # {} \/ e.price # {} \/ e.pricing # {}

\* MUTANT: the payload's status is taken as it is.
ForcedStatusAsAsked(old, e) == e.status

\* An edit of the content of a published product goes back to review,
\* whatever status the payload asks for.
ForcedStatus(old, e) ==
  IF ContentEdit(e) /\ old.status = "PUBLISHED" /\ old.provider
  THEN {"PENDING_REVIEW"} ELSE e.status

\* Publishing past the provider is refused from PENDING_REVIEW, and from
\* REJECTED when the payload also edits the content.
PublishRefused(old, e) ==
  /\ old.provider
  /\ ForcedStatus(old, e) = {"PUBLISHED"}
  /\ \/ old.status = "PENDING_REVIEW"
     \/ old.status = "REJECTED" /\ ContentEdit(e)

UpdateReads(r, c, e) ==
  /\ Arrives(r) /\ c \in Standing
  /\ IF independent \/ PublishRefused(row[c], e) THEN Ends(r)
     ELSE Start(r, Begin(r, "update", c, [e EXCEPT !.status = ForcedStatus(row[c], e)]))
  /\ UNCHANGED <<rows, history>>

Or(given, old) == IF given = {} THEN old ELSE CHOOSE v \in given : TRUE

\* The slug and the bundles: those of the payload, or, when only the price of
\* a SINGLE product changes, those attached now.
UpdateRefused(q) ==
  LET e == q.arg
      next == [q.seen EXCEPT !.pricing = Or(e.pricing, @), !.price = Or(e.price, @)]
      held == IF e.price # {} /\ row[q.cp] # Absent THEN {row[q.cp].bundles} ELSE {}
  IN  \/ \E t \in e.slug : SlugTaken(t, q.cp)
      \/ e.bundles = {} /\ \E bs \in held : ~RowCovers(next, q.cost, bs)
      \/ \E bs \in e.bundles : (\E b \in bs : offers[b] = {}) \/ ~RowCovers(next, q.cost, bs)

UpdateChecks(r) ==
  /\ req[r].op = "update" /\ req[r].at = "read"
  /\ IF UpdateRefused(req[r]) THEN Ends(r)
     ELSE req' = [req EXCEPT ![r].at = "checked"]
  /\ UNCHANGED <<rows, history>>

\* The old translations and bundle links are deleted first ...
UpdateClears(r) ==
  LET q == req[r]
      gone == q.arg.slug # {}
      free == q.arg.bundles # {}
  IN  /\ q.op = "update" /\ q.at = "checked"
      /\ row' = IF row[q.cp] = Absent THEN row
                ELSE [row EXCEPT ![q.cp].text = IF gone THEN NoText ELSE @,
                                 ![q.cp].bundles = IF free THEN {} ELSE @]
      /\ req' = [req EXCEPT ![r].at = "cleared"]
      /\ UNCHANGED <<base, offers, sold, independent, history>>

\* ... and one update writes the row with the new ones.  It fails when the row
\* or a bundle is gone, or when another request has created the translations.
UpdateFails(q) ==
  \/ row[q.cp] = Absent
  \/ q.arg.bundles # {}
       /\ \E b \in UNION q.arg.bundles : offers[b] = {} \/ b \in row[q.cp].bundles
  \/ q.arg.slug # {} /\ row[q.cp].text # NoText

Edited(old, e) ==
  [old EXCEPT !.status = Or(e.status, @), !.price = Or(e.price, @),
              !.pricing = Or(e.pricing, @), !.text = Or(e.slug, @),
              !.bundles = Or(e.bundles, @)]

\* The history a write leaves: what the row now is, and what it overlapped.
UpdateWrites(r) ==
  LET q == req[r]
      c == q.cp
      e == q.arg
      checked == e.bundles # {} \/ e.price # {}
  IN  /\ q.op = "update" /\ q.at = "cleared"
      /\ ~UpdateFails(q)
      /\ row' = [row EXCEPT ![c] = Edited(@, e)]
      /\ Finish(r, c, {"row"} \cup (IF e.slug # {} THEN {"slug"} ELSE {})
                        \cup (IF checked \/ e.pricing # {} THEN {"floor"} ELSE {}))
      /\ reviewed' = IF ContentEdit(e) THEN reviewed \ {c} ELSE reviewed
      /\ selfPublished' = IF e.status = {"PUBLISHED"} THEN selfPublished \cup {c}
                          ELSE IF e.status # {} THEN selfPublished \ {c} ELSE selfPublished
      /\ overtaken' = IF "row" \in q.over THEN overtaken \cup {c} ELSE overtaken
      /\ lost' = IF e.slug # {} THEN lost \ {c} ELSE lost
      /\ clashed' = IF e.slug # {} /\ "slug" \in q.over THEN clashed \cup {c} ELSE clashed
      /\ excused' = IF \/ q.over \cap {"row", "floor"} # {} /\ (checked \/ e.pricing # {})
                       \/ e.pricing # {} /\ ~checked
                    THEN excused \cup {c}
                    ELSE IF checked THEN excused \ {c} ELSE excused
      /\ UNCHANGED <<base, offers, sold, independent>>

\* A statement fails, or the process dies, after the deletes.
UpdateBreaks(r) ==
  LET q == req[r] IN
  /\ q.op = "update" /\ q.at = "cleared"
  /\ Ends(r)
  /\ lost' = IF q.arg.slug # {} THEN lost \cup {q.cp} ELSE lost
  /\ UNCHANGED <<rows, reviewed, selfPublished, overtaken, excused, clashed>>

\* delete: ownership, then the row with its links and translations.
DeleteCP(r, c) ==
  /\ Arrives(r) /\ c \in Standing
  /\ row' = [row EXCEPT ![c] = Absent]
  /\ req' = Touch(Done(req, r), c, {"row"})
  /\ UNCHANGED <<base, offers, sold, independent, history>>
-----------------------------------------------------------------------------
(* Review *)

\* submitForReview, approve and reject: the status read decides, and the row
\* is updated by id.
ReviewReads(r, c, op) ==
  /\ Arrives(r) /\ c \in Standing
  /\ op \in {"approve", "reject"} => row[c].provider
  /\ IF \/ op = "submit" /\ (independent \/ row[c].status \notin {"DRAFT", "REJECTED"})
        \/ op # "submit" /\ row[c].status # "PENDING_REVIEW"
     THEN Ends(r)
     ELSE Start(r, Begin(r, op, c, {}))
  /\ UNCHANGED <<rows, history>>

Outcome(q) ==
  CASE q.op = "submit"  -> IF q.seen.provider THEN "PENDING_REVIEW" ELSE "PUBLISHED"
    [] q.op = "approve" -> "PUBLISHED"
    [] q.op = "reject"  -> "REJECTED"

ReviewWrites(r) ==
  LET q == req[r]
      c == q.cp
      asRead == "row" \notin q.over
  IN  /\ q.op \in {"submit", "approve", "reject"}
      /\ IF row[c] = Absent THEN Ends(r) /\ UNCHANGED <<rows, history>>
         ELSE /\ row' = [row EXCEPT ![c].status = Outcome(q)]
              /\ Finish(r, c, {"row"})
              /\ reviewed' = IF q.op = "approve" /\ asRead THEN reviewed \cup {c} ELSE reviewed
              /\ overtaken' = IF asRead THEN overtaken ELSE overtaken \cup {c}
              /\ selfPublished' = selfPublished \ {c}
              /\ UNCHANGED <<base, offers, sold, independent, lost, excused, clashed>>
-----------------------------------------------------------------------------
(* The provider's product, and the store *)

\* products.update: a new base price is not held against the bundles that
\* custom products are in; an order that would lose money is refused later.
BasePrice(r, p) ==
  /\ Arrives(r) /\ p # base.price
  /\ base' = [base EXCEPT !.price = p]
  /\ req' = Touch(Done(req, r), NoCP, {"floor"})
  /\ excused' = excused \cup {c \in Standing : row[c].bundles # {}}
  /\ UNCHANGED <<row, offers, sold, independent, reviewed, selfPublished, overtaken, lost, clashed>>

\* products.updateStatus: the custom products keep their status.
BaseStatus(r) ==
  /\ Arrives(r)
  /\ base' = [base EXCEPT !.published = ~@]
  /\ Ends(r)
  /\ UNCHANGED <<row, offers, sold, independent, history>>

\* stores.adminUpdateByCreatorId switches the type of the store.
StoreType(r) ==
  /\ Arrives(r)
  /\ independent' = ~independent
  /\ Ends(r)
  /\ UNCHANGED <<row, base, offers, sold, history>>
-----------------------------------------------------------------------------
(* Bundles *)

Attached(b) == {c \in Standing : b \in row[c].bundles}

\* bundles.create and bundles.update: the offers against the custom products
\* of the payload, or those attached now.
BundleReads(r, b, offs, cs) ==
  /\ Arrives(r) /\ cs \subseteq Standing
  /\ b \notin {req[s].arg.b : s \in Running("bundle")}
  /\ IF \A c \in cs : Covers(row[c], base.price, offs)
     THEN Start(r, [op |-> "bundle", cp |-> NoCP, at |-> "read", over |-> {}, seen |-> Absent,
                    arg |-> [b |-> b, offs |-> offs, cs |-> cs, new |-> offers[b] = {}]])
     ELSE Ends(r)
  /\ UNCHANGED <<rows, history>>

\* One transaction: the offers are deleted and created again, which takes the
\* reference of every order item that carried one of them; then the links.
BundleWrites(r) ==
  LET q == req[r]
      a == q.arg
  IN  /\ q.op = "bundle"
      /\ IF a.cs \subseteq Standing /\ (a.new \/ offers[a.b] # {})
         THEN /\ offers' = [offers EXCEPT ![a.b] = a.offs]
              /\ row' = [c \in CPs |->
                   IF c \notin Standing THEN row[c]
                   ELSE [row[c] EXCEPT !.bundles = IF c \in a.cs THEN @ \cup {a.b}
                                                   ELSE @ \ {a.b}]]
              /\ sold' = [sold EXCEPT ![a.b] = IF @ = "kept" THEN "lost" ELSE @]
              /\ req' = Touch(Done(req, r), NoCP, {"floor"})
              /\ excused' = IF q.over = {} THEN excused ELSE excused \cup a.cs
         ELSE Ends(r) /\ UNCHANGED <<row, offers, sold, excused>>
      /\ UNCHANGED <<base, independent, reviewed, selfPublished, overtaken, lost, clashed>>

\* bundles.delete: refused while an order item carries one of its offers.
BundleDeleteReads(r, b) ==
  /\ Arrives(r) /\ offers[b] # {}
  /\ IF sold[b] = "kept" THEN Ends(r)
     ELSE Start(r, [op |-> "unbundle", cp |-> NoCP, at |-> "read", over |-> {},
                    seen |-> Absent, arg |-> [b |-> b]])
  /\ UNCHANGED <<rows, history>>

BundleDeletes(r) ==
  LET b == req[r].arg.b IN
  /\ req[r].op = "unbundle"
  /\ Ends(r)
  /\ offers' = [offers EXCEPT ![b] = {}]
  /\ row' = [c \in CPs |-> IF c \in Standing THEN [row[c] EXCEPT !.bundles = @ \ {b}] ELSE Absent]
  /\ sold' = [sold EXCEPT ![b] = IF @ = "kept" THEN "lost" ELSE @]
  /\ UNCHANGED <<base, independent, history>>

\* An order takes one of the bundle's offers (orders.service, Checkout).
Ordered(r, b) ==
  /\ Arrives(r) /\ offers[b] # {}
  /\ sold' = [sold EXCEPT ![b] = "kept"]
  /\ Ends(r)
  /\ UNCHANGED <<row, base, offers, independent, history>>
-----------------------------------------------------------------------------
\* A creator's catalogue as requests that did not overlap can have left it: what
\* is published was approved, what is bundled covers its cost, slugs are apart.
CustomInit ==
  /\ base \in [price : Costs, published : BOOLEAN]
  /\ offers \in [Bundles -> {{}} \cup {{d} : d \in Discounts}]
  /\ sold = [b \in Bundles |-> "none"]
  /\ independent \in BOOLEAN
  /\ row \in [CPs -> Row \cup {Absent}]
  /\ \A c \in Standing :
       /\ row[c].text \in Slugs \cup {c} /\ ~SlugTaken(row[c].text, c)
       /\ \A b \in row[c].bundles : offers[b] # {}
       /\ RowCovers(row[c], base.price, row[c].bundles)
  /\ reviewed = {c \in Standing : row[c].status = "PUBLISHED"}
  /\ NoRequests
  /\ selfPublished = {} /\ overtaken = {} /\ lost = {} /\ excused = {} /\ clashed = {}

Submitted(r) == \E c \in CPs : ReviewReads(r, c, "submit")
Approved(r)  == \E c \in CPs : ReviewReads(r, c, "approve")
Rejected(r)  == \E c \in CPs : ReviewReads(r, c, "reject")

Creator(r) ==
  \/ \E c \in CPs, s \in Slugs, p \in Prices, bs \in SUBSET Bundles : CreateReads(r, c, s, p, bs)
  \/ \E c, d \in CPs : DuplicateReads(r, c, d)
  \/ CreateWrites(r)
  \/ \E c \in CPs, e \in Edits : UpdateReads(r, c, e)
  \/ UpdateChecks(r)
  \/ UpdateClears(r)
  \/ UpdateWrites(r)
  \/ UpdateBreaks(r)
  \/ \E c \in CPs : DeleteCP(r, c)
  \/ Submitted(r)
Reviewer(r) ==
  \/ Approved(r)
  \/ Rejected(r)
  \/ ReviewWrites(r)
  \/ \E p \in Costs : BasePrice(r, p)
  \/ BaseStatus(r)
Bundling(r) ==
  \/ \E b \in Bundles, d \in Discounts, cs \in SUBSET Standing : BundleReads(r, b, {d}, cs)
  \/ BundleWrites(r)
  \/ \E b \in Bundles : BundleDeleteReads(r, b)
  \/ BundleDeletes(r)
  \/ \E b \in Bundles : Ordered(r, b)

CustomNext == \E r \in Requests : Creator(r) \/ Reviewer(r) \/ Bundling(r) \/ StoreType(r)

CustomSpec == CustomInit /\ [][CustomNext]_varsCustom
-----------------------------------------------------------------------------
\* The rows, the requests and the history are well formed.
CustomTypeOK ==
  /\ row \in [CPs -> Row \cup {Absent}]
  /\ base \in [price : Costs, published : BOOLEAN]
  /\ offers \in [Bundles -> SUBSET Discounts]
  /\ sold \in [Bundles -> {"none", "kept", "lost"}]
  /\ independent \in BOOLEAN
  /\ \A r \in Requests : req[r].op \in {"idle", "done", "create", "update", "submit",
                                        "approve", "reject", "bundle", "unbundle"}
  /\ \A h \in {reviewed, selfPublished, overtaken, lost, excused, clashed} : h \subseteq CPs

\* What is on sale under a provider's product is what the provider approved:
\* no sequence of edits, submissions, approvals and rejections publishes
\* another text or price, unless the creator's own PUT asked for PUBLISHED
\* where update allows it, or an edit and a decision overlapped.
PublishedWasReviewed ==
  \A c \in Standing :
    row[c].status = "PUBLISHED" /\ row[c].provider
      => c \in reviewed \cup selfPublished \cup overtaken

\* No offer of an attached bundle sells a custom product below what its
\* provider is owed, from whichever side the offers, the price or the link was
\* changed; excused are a base price raised later, a change of the pricing
\* type without a price, and checks that overlapped another change.
BundleAboveCost ==
  \A c \in Standing \ excused : RowCovers(row[c], base.price, row[c].bundles)

\* A custom product answers at a slug, and at one no other custom product of
\* the creator has, except while an update is between its deletes and its
\* write, after one died or was copied there, and when two slugs were checked at once.
OpensAtItsSlug ==
  \A c \in Standing \ (lost \cup clashed) :
    \/ \E r \in Requests : req[r].op = "update" /\ req[r].at = "cleared" /\ req[r].cp = c
    \/ /\ row[c].text # NoText
       /\ \A d \in Standing \ ({c} \cup clashed) : row[d].text # row[c].text

\* Only what the provider has seen is on sale under its name, no bundle sells
\* below what the provider is owed, and a custom product opens at a slug of its own.
OfferedIsSound == PublishedWasReviewed /\ BundleAboveCost /\ OpensAtItsSlug
=============================================================================
