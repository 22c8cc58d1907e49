---------------------------------- MODULE Site ----------------------------------
(***************************************************************************)
(* What a visitor can reach of a store besides its products: the builder's *)
(* pages (Pages), the older static pages among the translated rows         *)
(* (Translated), the navigation menus (menus.service.ts), and what the     *)
(* storefront reads of them.                                               *)
(***************************************************************************)
EXTENDS Pages, Translated

CONSTANT
  Lists      \* item lists an editor may send for the menu

VARIABLES
  menu,      \* MenuItem rows of a menu, each as the list it came in and its place
  \* history
  sent,      \* the list last saved
  mixed      \* whether two saves of the menu overlapped

varsM == <<menu, sent, mixed>>
varsD == <<varsT, varsM>>
-----------------------------------------------------------------------------
(* Menus *)

\* setItems: in a transaction; the rows deleted are those there when it began.
StartsItems(r, list) ==
  /\ Arrives(r)
  /\ Start(r, [op |-> "items", list |-> list, seen |-> menu])
  /\ UNCHANGED varsD
Rows(q) == (menu \ q.seen) \cup q.list
WritesItems(r) ==
  LET q == req[r] IN
  /\ r \in Running("items") /\ Ends(r)
  /\ menu' = Rows(q)
  /\ sent' = q.list
  /\ mixed' = (mixed \/ Running("items") # {r})
  /\ UNCHANGED varsT
-----------------------------------------------------------------------------
(* What the storefront reads *)

Live(p) == IsPage(p) /\ page[p].live # 0
\* getPublishedPage: the frozen version; drafts and the status are not looked at.
Served(p) == versions[p][page[p].live].secs
\* getPublishedPage, then getPage: what opens under a slug.
OpensAt(s) ==
  \/ \E p \in Pages : Live(p) /\ page[p].type \in Slugged /\ page[p].slug = {s}
  \/ There(s) /\ doc[s].status = "PUBLISHED"

\* getStore: builder pages with a version, and static pages under other slugs.
Linked == {p \in PagesOf("STATIC") : Live(p) /\ page[p].slug # {}}
LinkedSlugs == UNION {page[p].slug : p \in Linked}
OldSlugs == {s \in Slugs : There(s) /\ doc[s].status = "PUBLISHED" /\ s \notin LinkedSlugs}
\* getSitemapData: static and landing pages, then the static pages once more.
Mapped == (UNION {page[p].slug : p \in {p \in Pages : Live(p) /\ page[p].type \in Slugged}})
          \cup {s \in Slugs : There(s) /\ doc[s].status = "PUBLISHED"}
-----------------------------------------------------------------------------
siteVars == <<varsG, varsD, req>>

Building(r) ==
  /\ \/ \E t \in Singletons : EnsuresListing(r, t) \/ LooksFor(r, t)
     \/ Provisions(r)
     \/ \E t \in Singletons \cup Slugged, kind \in {{}, {"about"}}, slug \in {{}} \cup {{s} : s \in Slugs} :
          CreatesPage(r, t, kind, slug)
     \/ StoresPage(r)
     \/ \E p \in PageIds : UpdatesPage(r, p)
     \/ \E p \in PageIds : DeletesPage(r, p)
     \/ \E p \in PageIds : StartsPublish(r, p)
     \/ ReadsNext(r)
     \/ Publishes(r)
  /\ UNCHANGED varsD
Editing(r) ==
  /\ \/ \E p \in PageIds : CountsSections(r, p)
     \/ AddsSection(r, "text")
     \/ \E p \in PageIds : EditsSection(r, p)
     \/ \E p \in PageIds : DeletesSection(r, p)
     \/ \E p \in PageIds : ReordersSections(r, p)
     \/ \E p \in PageIds : \E v \in 1 .. Len(versions[p]) : StartsRestore(r, p, v)
     \/ Restores(r)
  /\ UNCHANGED varsD
Styling(r) ==
  /\ \/ \E kit \in DOMAIN Kits, demos \in BOOLEAN : StartsImport(r, kit, demos)
     \/ WipesForImport(r)
     \/ Imports(r)
     \/ \E name \in DOMAIN Presets, publish \in BOOLEAN : StartsTheme(r, name, publish)
     \/ PlanFails(r)
     \/ Themes(r)
  /\ UNCHANGED varsD
Documents(r) == (Writing(r) \/ Overriding(r, TRUE)) /\ UNCHANGED <<varsM, varsG>>
Linking(r) ==
  /\ \/ \E list \in Lists : StartsItems(r, list)
     \/ WritesItems(r)
  /\ UNCHANGED varsG

\* A store without builder pages yet, whose translated rows are as saves left them.
SiteInit ==
  /\ NoRequests
  /\ page = [p \in PageIds |-> Absent] /\ versions = [p \in PageIds |-> << >>]
  /\ demo = 0 /\ look = "none" /\ fresh = 1
  /\ written = {} /\ revised = [p \in PageIds |-> 0] /\ raced = {} /\ swept = {}
  /\ doc \in [Docs -> DocRows] /\ meant = [d \in Docs |-> Of1(d)] /\ torn = {}
  /\ \A d \in Of(Merging) : There(d) => doc[d].on = d
  /\ menu = {} /\ sent = {} /\ mixed = FALSE
SiteNext == \E r \in Requests : Building(r) \/ Editing(r) \/ Styling(r) \/ Documents(r) \/ Linking(r)
SiteSpec == SiteInit /\ [][SiteNext]_siteVars
-----------------------------------------------------------------------------
SiteTypeOK ==
  /\ \A p \in Pages : /\ page[p].status \in {"DRAFT", "PUBLISHED"}
                      /\ page[p].live \in 0 .. Len(versions[p])
                      /\ \A s \in page[p].secs : s.id < fresh /\ s.at \in Nat
  /\ demo \in Nat /\ written \subseteq 1 .. fresh
  /\ \A d \in Docs : There(d) => doc[d].locales \subseteq Locales

\* A store has one home page, one header, one template of each sort, unless
\* two requests looked for it at once; for the listing templates, whose
\* find-or-create is locked, unless one of them was a plain create.
SingletonsAreSingle ==
  \A t \in Singletons \ raced : Cardinality(PagesOf(t)) <= 1

\* What the creator wrote, and neither deleted nor overwrote nor asked to be
\* replaced by an older version, is on its page or in its history, through
\* kits and presets; but not what was written while a kit was being imported.
NothingIsLost ==
  /\ \A x \in written \ swept :
       \E p \in Pages : x \in Texts(page[p].secs) \/ \E i \in 1 .. Len(versions[p]) : x \in Texts(versions[p][i].secs)
  /\ demo <= 1

\* The storefront serves the version published last; it is the draft without
\* its hidden sections as long as nobody edits that.
ServedIsPublished ==
  \A p \in Pages : (\E i \in 1 .. Len(versions[p]) : versions[p][i].how = "published") =>
    /\ Live(p)
    /\ \A i \in 1 .. Len(versions[p]) : versions[p][i].how = "published" => i <= page[p].live
    /\ versions[p][page[p].live].edits = revised[p] => Served(p) = Frozen(Unhidden(page[p].secs))

\* What the navigation and the sitemap name opens, and the navigation names a
\* slug once.
LinksOpen ==
  /\ \A s \in LinkedSlugs \cup OldSlugs \cup Mapped : OpensAt(s)
  /\ \A p, o \in Linked : page[p].slug = page[o].slug => p = o

\* A preset only rearranges: no section or text goes, positions stay distinct,
\* the creator's own sections are not hidden; applying it again changes
\* nothing, and trying another one in between neither, except that what a
\* preset keeps hidden when empty is hidden again even if the creator filled it.
PresetsAreClean ==
  \A p \in Pages, name, other \in DOMAIN Presets :
    page[p].type \in DOMAIN Presets[name] =>
      LET preset == Presets[name][page[p].type]
          secs == page[p].secs
          once == Planned(secs, preset, name, fresh)
          tried == Planned(once, Presets[other][page[p].type], other, fresh + 10)
          shown(ss) == {[key |-> s.key, at |-> s.at, hidden |-> s.hidden] :
                          s \in {s \in ss : s.at < Len(preset) /\ ~KeptHidden(preset[s.at + 1])}}
      IN  /\ Ids(secs) \subseteq Ids(once) /\ Texts(secs) = Texts(once)
          /\ {s.at : s \in once} = 0 .. Cardinality(once) - 1
          /\ \A s \in once : ~s.managed => \A o \in secs : o.id = s.id => o.hidden = s.hidden
          /\ Planned(once, preset, name, fresh + 20) = once
          /\ shown(Planned(tried, preset, name, fresh + 20)) = shown(once)

\* A row has the texts it was saved with (Translated), and a menu the items of
\* one list: the last one, unless two saves of it overlapped.
SavedAsSent == TextsAreKept /\ (~mixed => menu = sent)

\* Every page is found: there is one of each sort, links open it, and what is
\* served under them is what was published last.
PagesAreFound == SingletonsAreSingle /\ LinksOpen /\ ServedIsPublished

\* ... and keeps what was written on it, whichever kit or preset restyles it.
PagesAreKept == NothingIsLost /\ PresetsAreClean
=============================================================================
