------------------------------- MODULE Translated -------------------------------
(***************************************************************************)
(* Rows that have a text in each of several locales.  Most keep the texts  *)
(* in rows of their own, which an update deletes and creates again, one    *)
(* statement after the other: static pages and the blocks on them          *)
(* (pages.service.ts, page-builder.service.ts), promotions, categories and *)
(* their attributes, questions and custom fields of products.  Legal pages *)
(* and notification templates keep them in one JSON value, which an update *)
(* reads, merges and writes back.  translations.service.ts adds machine    *)
(* translations to the former.                                             *)
(***************************************************************************)
EXTENDS Requests, FiniteSets

CONSTANTS
  Docs,      \* ids of rows
  KindOf,    \* id -> what it is
  Locales,   \* locales; for a category's links, attribute templates
  Sendable   \* bound: the sets of them a request brings

ASSUME SendableLocales == Sendable \subseteq SUBSET Locales

VARIABLES
  doc,       \* row -> the row it is on, its status and the locales it has
  \* history
  meant,     \* the locales each row was last saved with, or translated to since
  torn       \* rows a save of which stopped in its middle or met another writer

varsT == <<doc, meant, torn>>
Unwritten == [is |-> "unwritten"]
Gone      == [is |-> "gone"]
Of(kinds) == {d \in Docs : KindOf[d] \in kinds}
Merging   == {"legal", "template", "override"}
\* A row deleted is not made again: another under its slug is another row.
There(d) == doc[d] \notin {Unwritten, Gone}
DocRows == {Unwritten, Gone} \cup
           [is : {"row"}, on : Docs, status : {"DRAFT", "PUBLISHED"}, locales : SUBSET Locales]
Doc(on, locales) == [is |-> "row", on |-> on, status |-> "DRAFT", locales |-> locales]
Of1(d) == IF There(d) THEN doc[d].locales ELSE {}
Writers(d) == {r \in Running("saveDoc") \cup Running("translate") \cup Running("merge") : req[r].d = d}
              \cup {r \in Running("bulk") : d \in req[r].todo}
Tear(r, d) == torn' = IF Writers(d) \subseteq {r} THEN torn ELSE torn \cup {d}
-----------------------------------------------------------------------------
(* Created *)

Creates(r, d, on, locales) ==
  /\ Arrives(r) /\ doc[d] = Unwritten /\ Ends(r)
  /\ doc' = [doc EXCEPT ![d] = Doc(on, locales)]
  /\ meant' = [meant EXCEPT ![d] = locales]
  /\ torn' = torn \ {d}
CreatesStatic(r, d, locales) == KindOf[d] = "page" /\ Creates(r, d, d, locales)
AddsBlock(r, d, locales) ==
  KindOf[d] = "block" /\ \E s \in Of({"page"}) : There(s) /\ Creates(r, d, s, locales)
CreatesPromotion(r, d, locales) == KindOf[d] = "promotion" /\ Creates(r, d, d, locales)
CreatesCategory(r, d, locales)  == KindOf[d] = "category" /\ Creates(r, d, d, locales)
CreatesAttribute(r, d, locales) == KindOf[d] = "attribute" /\ Creates(r, d, d, locales)
CreatesFaq(r, d, locales)       == KindOf[d] = "faq" /\ Creates(r, d, d, locales)
CreatesField(r, d, locales)     == KindOf[d] = "field" /\ Creates(r, d, d, locales)
-----------------------------------------------------------------------------
(* Saved by replacing the rows of its texts *)

\* With translations, those there are deleted first; the row and the new
\* ones are one statement, refused when a locale is back.
Saves(r, d, status, given, locales) ==
  /\ Arrives(r)
  /\ Start(r, [op |-> "saveDoc", d |-> d, at |-> IF given THEN "clear" ELSE "write",
               status |-> status, given |-> given, locales |-> IF given THEN locales ELSE {}])
  /\ UNCHANGED varsT
\* Pages, blocks, promotions and fields are looked up first, with their owner.
MayEdit(d) == There(d)
SavesStatic(r, d, status, given, locales) == KindOf[d] = "page" /\ There(d) /\ Saves(r, d, status, given, locales)
SavesBlock(r, d, given, locales)     == KindOf[d] = "block" /\ There(d) /\ Saves(r, d, "DRAFT", given, locales)
SavesPromotion(r, d, given, locales) == KindOf[d] = "promotion" /\ There(d) /\ Saves(r, d, "DRAFT", given, locales)
SavesField(r, d, given, locales)     == KindOf[d] = "field" /\ MayEdit(d) /\ Saves(r, d, "DRAFT", given, locales)
\* A category and an attribute are not, and may be gone.
SavesCategory(r, d, given, locales) ==
  KindOf[d] = "category" /\ doc[d] # Unwritten /\ Saves(r, d, "DRAFT", given, locales)
SavesAttribute(r, d, given, locales) ==
  KindOf[d] = "attribute" /\ doc[d] # Unwritten /\ Saves(r, d, "DRAFT", given, locales)
\* An empty list of a question's texts is none.
SavesFaq(r, d, locales) == KindOf[d] = "faq" /\ There(d) /\ Saves(r, d, "DRAFT", locales # {}, locales)
LinksAttributes(r, d, templates)     == KindOf[d] = "links" /\ There(d) /\ Saves(r, d, "DRAFT", TRUE, templates)

Clears(r) ==
  LET d == req[r].d IN
  /\ At(r, "saveDoc", "clear") /\ GoesTo(r, "write")
  /\ doc' = IF There(d) THEN [doc EXCEPT ![d].locales = {}] ELSE doc
  /\ Tear(r, d)
  /\ UNCHANGED meant
\* MUTANT: the locales sent, none when only the status is, take over.
WrittenAnew(q, old) == [old EXCEPT !.status = q.status, !.locales = q.locales]
Written(q, old) == [old EXCEPT !.status = q.status, !.locales = @ \cup q.locales]
Writes(r) ==
  LET q == req[r] IN
  /\ At(r, "saveDoc", "write") /\ Ends(r)
  /\ IF There(q.d) /\ doc[q.d].locales \cap q.locales = {}
     THEN /\ doc' = [doc EXCEPT ![q.d] = Written(q, @)]
          /\ meant' = IF q.given THEN [meant EXCEPT ![q.d] = q.locales] ELSE meant
     ELSE UNCHANGED <<doc, meant>>
  /\ Tear(r, q.d)
SaveDies(r) ==
  /\ At(r, "saveDoc", "write") /\ Ends(r)
  /\ torn' = IF req[r].given THEN torn \cup {req[r].d} ELSE torn
  /\ UNCHANGED <<doc, meant>>
\* delete, deleteBlock; the blocks go with their page.
Deletes(r, d) ==
  /\ KindOf[d] \notin Merging \cup {"links"}
  /\ Arrives(r) /\ There(d) /\ Ends(r)
  /\ doc' = [x \in Docs |-> IF There(x) /\ d \in {x, doc[x].on} THEN Gone ELSE doc[x]]
  /\ UNCHANGED <<meant, torn>>
-----------------------------------------------------------------------------
(* Saved by merging *)

Seen(r, d, locales) ==
  /\ Arrives(r)
  /\ Start(r, [op |-> "merge", d |-> d, seen |-> Of1(d), locales |-> locales])
  /\ UNCHANGED varsT
SavesLegal(r, d, locales)    == KindOf[d] = "legal" /\ There(d) /\ Seen(r, d, locales)
SavesTemplate(r, d, locales) == KindOf[d] = "template" /\ Seen(r, d, locales)
\* A store's own template, for an independent store.
Independent(d, independent) == KindOf[d] = "override" /\ independent
SavesOverride(r, d, independent, locales) ==
  /\ KindOf[d] = "override"
  /\ IF Independent(d, independent) THEN Seen(r, d, locales) ELSE Arrives(r) /\ Ends(r) /\ UNCHANGED varsT
InAll(q) == q.seen \cup q.locales
\* An update of the row, or an upsert.
Merges(r) ==
  LET q == req[r] IN
  /\ r \in Running("merge") /\ Ends(r)
  /\ doc' = [doc EXCEPT ![q.d] = Doc(q.d, InAll(q))]
  /\ meant' = [meant EXCEPT ![q.d] = @ \cup q.locales]
  /\ Tear(r, q.d)
ResetsOverride(r, d, independent) ==
  /\ KindOf[d] = "override" /\ Arrives(r) /\ Ends(r)
  /\ IF Independent(d, independent) THEN /\ doc' = [doc EXCEPT ![d] = Unwritten]
                         /\ meant' = [meant EXCEPT ![d] = {}]
                         /\ torn' = torn \cup {x \in {d} : Writers(x) # {}}
     ELSE UNCHANGED varsT
-----------------------------------------------------------------------------
(* Translated *)

\* The creator's own, or for an administrator a category; a promotion or field has no source.
MayTranslate(d) == KindOf[d] \in {"page", "category"} /\ There(d)
Source(d, source) == source \in doc[d].locales
\* autoTranslate: the source is read, a service asked, the target stored.
Translates(r, d, source, target) ==
  /\ Arrives(r) /\ MayTranslate(d)
  /\ IF Source(d, source) THEN Start(r, [op |-> "translate", d |-> d, target |-> target]) ELSE Ends(r)
  /\ UNCHANGED varsT
StoresTarget(r, d, target) ==
  /\ IF There(d) THEN /\ doc' = [doc EXCEPT ![d].locales = @ \cup {target}]
                      /\ meant' = [meant EXCEPT ![d] = @ \cup {target}]
     ELSE UNCHANGED <<doc, meant>>
  /\ Tear(r, d)
StoresTranslation(r) ==
  /\ r \in Running("translate") /\ Ends(r)
  /\ StoresTarget(r, req[r].d, req[r].target)
\* bulkTranslate: all pages are read first, those that have the source and not
\* the target translated one by one; one that fails is skipped.
Wanting(source, target) ==
  {d \in Of({"page"}) : There(d) /\ Source(d, source) /\ target \notin doc[d].locales}
StartsBulk(r, source, target) ==
  /\ Arrives(r)
  /\ IF Wanting(source, target) = {} THEN Ends(r)
     ELSE Start(r, [op |-> "bulk", target |-> target, todo |-> Wanting(source, target)])
  /\ UNCHANGED varsT
Ticks(r, d) == IF req[r].todo = {d} THEN Ends(r) ELSE req' = [req EXCEPT ![r].todo = @ \ {d}]
StoresBulk(r) ==
  /\ r \in Running("bulk")
  /\ \E d \in req[r].todo : Ticks(r, d) /\ (StoresTarget(r, d, req[r].target) \/ UNCHANGED varsT)
-----------------------------------------------------------------------------
Asking(r) ==
  \/ \E d \in Docs, locales \in Sendable :
       \/ CreatesStatic(r, d, locales) \/ AddsBlock(r, d, locales)
       \/ CreatesPromotion(r, d, locales)
       \/ CreatesCategory(r, d, locales)
       \/ CreatesAttribute(r, d, locales)
       \/ CreatesFaq(r, d, locales) \/ CreatesField(r, d, locales)
       \/ SavesFaq(r, d, locales)
       \/ LinksAttributes(r, d, locales)
       \/ SavesLegal(r, d, locales) \/ SavesTemplate(r, d, locales)
       \/ \E given \in BOOLEAN :
            \/ \E status \in {"DRAFT", "PUBLISHED"} : SavesStatic(r, d, status, given, locales)
            \/ SavesBlock(r, d, given, locales)
            \/ SavesPromotion(r, d, given, locales)
            \/ SavesField(r, d, given, locales)
            \/ SavesCategory(r, d, given, locales)
            \/ SavesAttribute(r, d, given, locales)
  \/ \E d \in Docs : Deletes(r, d)
  \/ \E d \in Docs, source, target \in Locales : Translates(r, d, source, target)
  \/ \E source, target \in Locales : StartsBulk(r, source, target)
Writing(r) ==
  \/ Arrives(r) /\ Asking(r)
  \/ Clears(r) \/ Writes(r) \/ SaveDies(r) \/ Merges(r)
  \/ StoresTranslation(r) \/ StoresBulk(r)
Overriding(r, independent) ==
  /\ Arrives(r)
  /\ \E d \in Docs : \/ \E locales \in Sendable : SavesOverride(r, d, independent, locales)
                     \/ ResetsOverride(r, d, independent)

\* Outside of a running save, a row has the texts it was last saved with and
\* the translations made since; one saved by merging every text it was ever
\* given. What a save that stopped halfway, or met another, leaves is excepted.
TextsAreKept ==
  \A d \in Docs \ torn : There(d) /\ Writers(d) = {} => doc[d].locales = meant[d]
=============================================================================
