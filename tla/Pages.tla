--------------------------------- MODULE Pages ---------------------------------
(***************************************************************************)
(* The pages of a store as the builder edits them (pages-v2.service.ts),   *)
(* starter kits (templates.service.ts) and theme presets                   *)
(* (themes.service.ts, apply-chrome.ts).                                   *)
(*                                                                         *)
(* A page is a draft: sections the creator edits one request at a time.    *)
(* Publishing freezes the visible ones in a version, and the storefront    *)
(* serves that version.  Kits and presets take a restore point first, then *)
(* replace or rearrange the sections; both begin by writing the store's    *)
(* row, so the database runs one of them at a time.  Nothing else of what  *)
(* follows waits for anything, except where a transaction says so.         *)
(***************************************************************************)
EXTENDS Requests, FiniteSets, SequencesExt

CONSTANTS
  PageIds,   \* 1..n; rows get the lowest id not used yet
  Slugs,
  Kits,      \* kit name -> page type -> sequence of section keys
  Presets,   \* preset name -> page type -> sequence of [key, hwe], hwe: hidden_when_empty
  HasSocials \* whether the store's settings name any social account

Chrome     == {"HEADER", "FOOTER"}
Listing    == {"CATALOG_TEMPLATE", "COLLECTION_TEMPLATE"}
Singletons == Chrome \cup Listing \cup {"HOME", "PRODUCT_TEMPLATE"}
Slugged    == {"STATIC", "LANDING"}

\* The kits of templates/kits and the presets bring no listing template.
ASSUME PageIdsRange == IsFiniteSet(PageIds) /\ PageIds = 1 .. Cardinality(PageIds)
ASSUME KitsPlain    == \A kit \in DOMAIN Kits : DOMAIN Kits[kit] \subseteq Singletons \ Listing
ASSUME PresetsPlain == \A name \in DOMAIN Presets : DOMAIN Presets[name] \subseteq Chrome

VARIABLES
  page,      \* Page rows with their PageSection rows
  versions,  \* PageVersion rows of each page, in the order written
  demo,      \* how often the demo products of a kit were created
  look,      \* the preset or kit the store's theme was taken from
  fresh,     \* next id for sections and the texts in them
  \* history
  written,   \* texts the creator wrote and never dropped
  revised,   \* edits to the draft of each page
  raced,     \* types whose page was looked for by two at once, one of them not locked
  swept      \* texts written to a page while a kit was replacing its sections

rowsG == <<page, versions, demo, look, fresh>>
histG == <<written, revised, raced, swept>>
varsG == <<rowsG, histG>>

Absent == [is |-> "absent"]
Deleted == [is |-> "deleted"]
IsPage(p) == page[p] \notin {Absent, Deleted}
Pages == {p \in PageIds : IsPage(p)}
PagesOf(t) == {p \in Pages : page[p].type = t}
Oldest(ps) == CHOOSE p \in ps : \A o \in ps : p <= o
NextRow == {p \in PageIds : page[p] = Absent /\ \A o \in PageIds : o < p => page[o] # Absent}

\* A section: where it stands (sort_order), its key, whose settings it has,
\* whether a preset created it (_theme_managed), and the text in it, 0 for
\* what came with a seed, a kit or a preset.
Section(id, key, at) == [id |-> id, key |-> key, at |-> at, look |-> "own",
                         managed |-> FALSE, hidden |-> FALSE, text |-> 0]
Ids(secs)  == {s.id : s \in secs}
Texts(secs) == {s.text : s \in secs} \ {0}
\* What a version keeps of a section: not its id, nor that it was hidden.
Kept(s) == [key |-> s.key, at |-> s.at, look |-> s.look, managed |-> s.managed, text |-> s.text]
Frozen(secs) == {Kept(s) : s \in secs}
Unhidden(secs) == {s \in secs : ~s.hidden}

NewPage(t, kind, slug, secs) ==
  [is |-> "row", type |-> t, kind |-> kind, slug |-> slug, status |-> "DRAFT", live |-> 0, secs |-> secs]
Seeded(keys, from) == {Section(from + i, keys[i], i - 1) : i \in 1 .. Len(keys)}
SeedOf(t) ==
  CASE t = "HOME"             -> << >>
    [] t = "PRODUCT_TEMPLATE" -> <<"product-page">>
    [] t = "HEADER"           -> <<"header-bar">>
    [] t = "FOOTER"           -> <<"footer-columns", "copyright-bar">>
    [] OTHER                  -> <<"product-listing">>

Edited(p) == revised' = [revised EXCEPT ![p] = @ + 1]
-----------------------------------------------------------------------------
(* Pages *)

\* MUTANT: no advisory lock: the listing templates are found, then created.
LockedNone == {}
\* The types whose find-or-create runs under an advisory lock.
Locked == Listing

\* Requests that have looked for a page of the type and found none.
Missing(t) == {r \in InFlight : \/ req[r].op \in {"ensure", "create"} /\ req[r].type = t
                                \/ req[r].op \in {"theme", "import"} /\ t \in req[r].missing}
Races(t, r) == IF Missing(t) \ {r} # {} /\ (t \notin Listing \/ req[r].op = "create"
                  \/ \E s \in Missing(t) \ {r} : req[s].op = "create")
               THEN raced \cup {t} ELSE raced

\* ensureCatalogTemplate, ensureCollectionTemplate: one transaction.
EnsuresListing(r, t) ==
  /\ Arrives(r) /\ t \in Locked /\ Ends(r)
  /\ IF PagesOf(t) # {} THEN UNCHANGED <<page, fresh>>
     ELSE \E p \in NextRow :
            /\ page' = [page EXCEPT ![p] = NewPage(t, {}, {}, Seeded(SeedOf(t), fresh))]
            /\ fresh' = fresh + Len(SeedOf(t)) + 1
  /\ raced' = IF PagesOf(t) = {} THEN Races(t, r) ELSE raced
  /\ UNCHANGED <<versions, demo, look, written, revised, swept>>

\* ensureHomePage, ensureProductTemplate, ensureHeader, ensureFooter.
LooksFor(r, t) ==
  /\ Arrives(r) /\ t \in Singletons \ Locked
  /\ IF PagesOf(t) # {} THEN Ends(r) ELSE Start(r, [op |-> "ensure", type |-> t])
  /\ UNCHANGED varsG
Provisions(r) ==
  LET t == req[r].type IN
  /\ r \in Running("ensure") /\ Ends(r)
  /\ \E p \in NextRow : page' = [page EXCEPT ![p] = NewPage(t, {}, {}, Seeded(SeedOf(t), fresh))]
  /\ fresh' = fresh + Len(SeedOf(t)) + 1
  /\ raced' = Races(t, r)
  /\ UNCHANGED <<versions, demo, look, written, revised, swept>>

\* create: a slug exactly for the types that have one, a singleton looked for
\* first; the unique indexes refuse the rest, but not two NULL kinds.
CreatesPage(r, t, kind, slug) ==
  /\ Arrives(r)
  /\ (t \in Slugged) = (slug # {}) /\ (t = "STATIC") = (kind # {})
  /\ IF t \in Singletons /\ PagesOf(t) # {} THEN Ends(r)
     ELSE Start(r, [op |-> "create", type |-> t, kind |-> kind, slug |-> slug])
  /\ UNCHANGED varsG
Taken(slug, but) == slug # {} /\ \E p \in Pages \ but : page[p].slug = slug
TakenKind(t, kind) == kind # {} /\ \E p \in PagesOf(t) : page[p].kind = kind
StoresPage(r) ==
  LET q == req[r] IN
  /\ r \in Running("create") /\ Ends(r)
  /\ IF Taken(q.slug, {}) \/ TakenKind(q.type, q.kind) THEN UNCHANGED <<page, raced>>
     ELSE /\ \E p \in NextRow : page' = [page EXCEPT ![p] = NewPage(q.type, q.kind, q.slug, {})]
          /\ raced' = Races(q.type, r)
  /\ UNCHANGED <<versions, demo, look, fresh, written, revised, swept>>

\* update: any page may be given a slug or a status; the storefront does not
\* read the status.
UpdatesPage(r, p) ==
  /\ Arrives(r) /\ IsPage(p) /\ Ends(r)
  /\ \E slug \in {{s} : s \in Slugs} \cup {page[p].slug}, status \in {"DRAFT", "PUBLISHED"} :
       page' = IF Taken(slug, {p}) THEN page
               ELSE [page EXCEPT ![p].slug = slug, ![p].status = status]
  /\ UNCHANGED <<versions, demo, look, fresh, histG>>

MayGo(p) == IsPage(p) /\ page[p].type \notin Singletons
DeletesPage(r, p) ==
  /\ Arrives(r) /\ MayGo(p) /\ Ends(r)
  /\ page' = [page EXCEPT ![p] = Deleted]
  /\ versions' = [versions EXCEPT ![p] = << >>]
  /\ written' = written \ Texts(page[p].secs)
  /\ UNCHANGED <<demo, look, fresh, revised, raced, swept>>
-----------------------------------------------------------------------------
(* Sections *)

\* Kits that have copied the sections of a page and will replace them all.
Replacing(p) == {r \in Running("import") : p \in req[r].pages}

\* addSection: counts, or takes the position asked for; then creates.
CountsSections(r, p) ==
  /\ Arrives(r) /\ IsPage(p)
  /\ \E at \in {Cardinality(page[p].secs), 0} : Start(r, [op |-> "add", p |-> p, n |-> at])
  /\ UNCHANGED varsG
AddsSection(r, key) ==
  LET p == req[r].p IN
  /\ r \in Running("add") /\ Ends(r)
  /\ IF IsPage(p)
     THEN /\ page' = [page EXCEPT ![p].secs = @ \cup {[Section(fresh, key, req[r].n) EXCEPT !.text = fresh]}]
          /\ fresh' = fresh + 1 /\ Edited(p)
          /\ written' = written \cup {fresh}
          /\ swept' = IF Replacing(p) # {} THEN swept \cup {fresh} ELSE swept
     ELSE UNCHANGED <<page, fresh, revised, written, swept>>
  /\ UNCHANGED <<versions, demo, look, raced>>

\* updateSection: the text, the settings, or whether it is hidden.
EditsSection(r, p) ==
  /\ Arrives(r) /\ IsPage(p) /\ Ends(r) /\ Edited(p)
  /\ \E s \in page[p].secs, what \in {"text", "settings", "hidden"} :
       LET to(new) == page' = [page EXCEPT ![p].secs = (@ \ {s}) \cup {new}] IN
       CASE what = "hidden"   -> to([s EXCEPT !.hidden = ~@]) /\ UNCHANGED <<fresh, written, swept>>
         [] what = "settings" -> to([s EXCEPT !.look = "own"]) /\ UNCHANGED <<fresh, written, swept>>
         [] OTHER -> /\ to([s EXCEPT !.text = fresh]) /\ fresh' = fresh + 1
                     /\ written' = (written \ {s.text}) \cup {fresh}
                     /\ swept' = IF Replacing(p) # {} THEN swept \cup {fresh} ELSE swept
  /\ UNCHANGED <<versions, demo, look, raced>>
DeletesSection(r, p) ==
  /\ Arrives(r) /\ IsPage(p) /\ Ends(r) /\ Edited(p)
  /\ \E s \in page[p].secs :
       /\ page' = [page EXCEPT ![p].secs = @ \ {s}]
       /\ written' = written \ {s.text}
  /\ UNCHANGED <<versions, demo, look, fresh, raced, swept>>
\* reorderSections: those named get the positions of the list.
ReordersSections(r, p) ==
  /\ Arrives(r) /\ IsPage(p) /\ Ends(r) /\ Edited(p)
  /\ \E n \in 1 .. Cardinality(page[p].secs) : \E order \in [1 .. n -> Ids(page[p].secs)] :
       /\ IsInjective(order)
       /\ page' = [page EXCEPT ![p].secs =
            {IF s.id \in Range(order) THEN [s EXCEPT !.at = (CHOOSE i \in 1 .. n : order[i] = s.id) - 1]
             ELSE s : s \in @}]
  /\ UNCHANGED <<versions, demo, look, fresh, written, raced, swept>>
-----------------------------------------------------------------------------
(* Versions *)

Version(secs, how, n) == [secs |-> secs, how |-> how, edits |-> n]

Published(p) == Frozen(Unhidden(page[p].secs))

\* publish reads the page; the transaction that writes the version and points
\* to it comes after.  A preset publishes several pages, one after the other.
ReadsToPublish(q, p) == [q EXCEPT !.at = "write", !.snap = Published(p), !.edits = revised[p]]
Publishing(todo) == [op |-> "publish", at |-> "read", todo |-> todo, snap |-> {}, edits |-> 0]
StartsPublish(r, p) ==
  /\ Arrives(r) /\ IsPage(p)
  /\ Start(r, ReadsToPublish(Publishing(<<p>>), p))
  /\ UNCHANGED varsG
ReadsNext(r) ==
  /\ At(r, "publish", "read")
  /\ Start(r, ReadsToPublish(req[r], Head(req[r].todo)))
  /\ UNCHANGED varsG
Publishes(r) ==
  LET q == req[r]
      p == Head(q.todo)
  IN  /\ At(r, "publish", "write")
      /\ IF ~IsPage(p) THEN Ends(r) /\ UNCHANGED <<page, versions>>
         ELSE /\ versions' = [versions EXCEPT ![p] = Append(@, Version(q.snap, "published", q.edits))]
              /\ page' = [page EXCEPT ![p].live = Len(versions[p]) + 1, ![p].status = "PUBLISHED"]
              /\ IF Len(q.todo) = 1 THEN Ends(r) ELSE Start(r, Publishing(Tail(q.todo)))
      /\ UNCHANGED <<demo, look, fresh, histG>>

\* The sections of a version as new rows; a version does not say which were hidden.
Rebuilt(secs, from) ==
  LET order == SetToSeq(secs) IN
  {[id |-> from + i, hidden |-> FALSE] @@ order[i] : i \in 1 .. Len(order)}

\* restoreVersion: deleteMany sees the sections committed by then, and the
\* others that a version is rebuilt next to stay.
StartsRestore(r, p, v) ==
  /\ Arrives(r) /\ IsPage(p) /\ v \in 1 .. Len(versions[p])
  /\ Start(r, [op |-> "restore", pages |-> {p}, v |-> v, seen |-> Ids(page[p].secs)])
  /\ UNCHANGED varsG
Restored(p) == [page[p] EXCEPT !.status = "DRAFT"]
Restores(r) ==
  LET q == req[r] IN
  /\ r \in Running("restore") /\ Ends(r)
  /\ \E p \in q.pages :
       IF ~IsPage(p) THEN UNCHANGED <<page, fresh, revised, written>>
       ELSE LET left == {s \in page[p].secs : s.id \notin q.seen}
                new  == Rebuilt(versions[p][q.v].secs, fresh)
            IN  /\ page' = [page EXCEPT ![p] = [Restored(p) EXCEPT !.secs = left \cup new]]
                /\ fresh' = fresh + Cardinality(new) + 1 /\ Edited(p)
                \* the creator asked for the draft to be replaced
                /\ written' = (written \ Texts(page[p].secs)) \cup Texts(left \cup new)
  /\ UNCHANGED <<versions, demo, look, raced, swept>>
-----------------------------------------------------------------------------
(* Starter kits *)

\* Kits and presets in their transactions: the store's row is theirs.
StoreHeld == Running("import") \cup Running("theme") # {}

\* MUTANT: the restore point leaves hidden sections out, as publishing does.
BeforehandVisible(p) == Frozen(Unhidden(page[p].secs))
\* snapshotPage: the restore point, of all sections.
Beforehand(p) == Frozen(page[p].secs)
RestorePoints(q, vs) ==
  [p \in PageIds |-> IF p \in q.pages /\ q.before[p] # {}
                     THEN Append(vs[p], Version(q.before[p], "before", 0)) ELSE vs[p]]

\* upsertPage: a page the store lacks, with the kit's sections.
KitPage(kit, t, from) == NewPage(t, {}, {}, Seeded(Kits[kit][t], from))

\* importKit finds the page of each type and copies it; deletes its sections;
\* and commits with the kit's in their place.
StartsImport(r, kit, demos) ==
  LET types == DOMAIN Kits[kit]
      found == [t \in {t \in types : PagesOf(t) # {}} |-> CHOOSE p \in PagesOf(t) : TRUE]
      pages == {found[t] : t \in DOMAIN found}
  IN  /\ Arrives(r) /\ ~StoreHeld
      /\ Start(r, [op |-> "import", at |-> "wipe", kit |-> kit, demos |-> demos, pages |-> pages,
                   before |-> [p \in pages |-> Beforehand(p)], missing |-> types \ DOMAIN found,
                   seen |-> {}])
      /\ UNCHANGED varsG
WipesForImport(r) ==
  /\ At(r, "import", "wipe")
  /\ req' = [req EXCEPT ![r].at = "commit",
                        ![r].seen = UNION {Ids(page[p].secs) : p \in req[r].pages}]
  /\ UNCHANGED varsG
\* createDemoData: the category found means the products were created before.
Seeds(q) == q.demos /\ demo = 0
Imports(r) ==
  LET q == req[r]
      keys(p) == Kits[q.kit][page[p].type]
      placed == [p \in q.pages |-> [page[p] EXCEPT
                  !.secs = {s \in @ : s.id \notin q.seen} \cup Seeded(keys(p), fresh + 10 * p)]]
      new == SetToSeq(q.missing)
      first == CHOOSE p \in NextRow : TRUE
      made == [i \in 1 .. Len(new) |-> KitPage(q.kit, new[i], fresh + 10 * (first + i - 1))]
  IN  /\ At(r, "import", "commit") /\ Ends(r)
      /\ NextRow # {} /\ (first + Len(new) - 1) \in PageIds
      /\ page' = [p \in PageIds |-> CASE p \in q.pages -> placed[p]
                                      [] p \in first .. (first + Len(new) - 1) -> made[p - first + 1]
                                      [] OTHER -> page[p]]
      /\ versions' = RestorePoints(q, versions)
      /\ demo' = IF Seeds(q) THEN demo + 1 ELSE demo
      /\ look' = q.kit
      /\ fresh' = fresh + 10 * Cardinality(PageIds) + 10
      /\ revised' = [p \in PageIds |-> IF p \in q.pages THEN revised[p] + 1 ELSE revised[p]]
      /\ raced' = raced \cup UNION {Races(t, r) : t \in q.missing}
      /\ UNCHANGED <<written, swept>>
-----------------------------------------------------------------------------
(* Theme presets *)

\* In the page's own order; sections at the same position in that of the rows.
Before(a, b) == a.at < b.at \/ (a.at = b.at /\ a.id < b.id)
First(secs) == CHOOSE s \in secs : \A o \in secs \ {s} : Before(s, o)
Place(s, secs) == Cardinality({o \in secs : Before(o, s)})

\* What the preset does not mention is hidden if an earlier preset created it.
LeftAlone(s) == s.hidden \/ s.managed

\* planChromeSections: the first section of each key not claimed yet is taken,
\* what the page lacks is created, and the rest goes behind in its order.
Claims(secs, preset) ==
  LET claim[i \in 0 .. Len(preset)] ==
        IF i = 0 THEN << >>
        ELSE LET taken == ToSet(claim[i - 1])
                 fit == {s \in secs : s.key = preset[i].key /\ s \notin taken}
             IN  Append(claim[i - 1],
                        IF fit = {} THEN Absent ELSE First(fit))
  IN  claim[Len(preset)]
\* generateDefaultContent has something to show for these keys.
Meaningful(key) ==
  \/ key \in {"header-bar", "mega-menu", "mobile-bottom-nav", "footer-columns", "copyright-bar"}
  \/ key = "social-icons" /\ HasSocials
KeptHidden(entry) == entry.hwe /\ ~Meaningful(entry.key)
Updated(s, entry, i, name) ==
  [s EXCEPT !.at = i - 1, !.look = name,
            !.hidden = IF @ /\ s.managed THEN KeptHidden(entry) ELSE @]
Created(entry, i, name, id) ==
  [Section(id, entry.key, i - 1) EXCEPT !.look = name, !.managed = TRUE, !.hidden = KeptHidden(entry)]
Planned(secs, preset, name, from) ==
  LET claim == Claims(secs, preset)
      rest  == secs \ ToSet(claim)
  IN  {IF claim[i] = Absent THEN Created(preset[i], i, name, from + i)
       ELSE Updated(claim[i], preset[i], i, name) : i \in 1 .. Len(preset)}
      \cup {[s EXCEPT !.at = Len(preset) + Place(s, rest), !.hidden = LeftAlone(s)] : s \in rest}

\* The plan written over the rows as they are by now: the text is theirs, the
\* visibility too unless the plan changes it.
Merged(secs, read, plan) ==
  LET was(id) == CHOOSE s \in read : s.id = id
      now(id) == CHOOSE s \in secs : s.id = id
  IN  {s \in secs : s.id \notin Ids(read)}
      \cup {IF s.id \in Ids(read)
            THEN [s EXCEPT !.text = now(s.id).text,
                           !.hidden = IF @ = was(s.id).hidden THEN now(s.id).hidden ELSE @]
            ELSE s : s \in plan}

\* The restore point of a preset is that of a kit.
ChromeBefore(p) == Beforehand(p)

\* applyChromePage under the advisory lock of the type: finds the oldest page,
\* copies it and plans.
StartsTheme(r, name, publish) ==
  LET types == DOMAIN Presets[name]
      there == {t \in types : PagesOf(t) # {}}
      pages == {Oldest(PagesOf(t)) : t \in there}
  IN  /\ Arrives(r) /\ ~StoreHeld
      /\ Start(r, [op |-> "theme", name |-> name, publish |-> publish, pages |-> pages,
                   before |-> [p \in pages |-> ChromeBefore(p)], missing |-> types \ there,
                   read |-> [p \in pages |-> page[p].secs], was |-> [p \in pages |-> page[p].status]])
      /\ UNCHANGED varsG
\* A section planned for is gone: the update fails and takes the transaction back.
PlanFails(r) ==
  /\ r \in Running("theme") /\ Ends(r)
  /\ \E p \in req[r].pages : ~(Ids(req[r].read[p]) \subseteq Ids(page[p].secs))
  /\ UNCHANGED varsG
\* finishChromePage: what was live, or is new, is published.
ToPublish(q, new) == IF q.publish THEN SetToSeq({p \in q.pages : q.was[p] = "PUBLISHED"} \cup new) ELSE << >>
Themes(r) ==
  LET q == req[r]
      preset(t) == Presets[q.name][t]
      plan(p) == Planned(q.read[p], preset(page[p].type), q.name, fresh + 10 * p)
      new == SetToSeq(q.missing)
      first == CHOOSE p \in NextRow : TRUE
      rows == IF new = << >> THEN {} ELSE first .. (first + Len(new) - 1)
      todo == ToPublish(q, rows)
  IN  /\ r \in Running("theme")
      /\ \A p \in q.pages : Ids(q.read[p]) \subseteq Ids(page[p].secs)
      /\ new # << >> => NextRow # {} /\ rows \subseteq PageIds
      /\ page' = [p \in PageIds |->
           CASE p \in q.pages -> [page[p] EXCEPT !.secs = Merged(@, q.read[p], plan(p))]
             [] p \in rows -> LET t == new[p - first + 1] IN
                              NewPage(t, {}, {}, Planned({}, preset(t), q.name, fresh + 10 * p))
             [] OTHER -> page[p]]
      /\ versions' = RestorePoints(q, versions)
      /\ look' = q.name
      /\ fresh' = fresh + 10 * Cardinality(PageIds) + 10
      /\ revised' = [p \in PageIds |-> IF p \in q.pages THEN revised[p] + 1 ELSE revised[p]]
      /\ raced' = raced \cup UNION {Races(t, r) : t \in q.missing}
      /\ IF todo = << >> THEN Ends(r) ELSE Start(r, Publishing(todo))
      /\ UNCHANGED <<demo, written, swept>>
=============================================================================
