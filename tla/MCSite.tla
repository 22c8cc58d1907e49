--------------------------------- MODULE MCSite ---------------------------------
EXTENDS Site

MCKits == [k |-> [HEADER |-> <<"header-bar", "rich-text">>]]
MCPresets ==
  [bold |-> [HEADER |-> <<[key |-> "announcement-bar", hwe |-> TRUE], [key |-> "header-bar", hwe |-> FALSE],
                         [key |-> "mega-menu", hwe |-> FALSE]>>],
   calm |-> [HEADER |-> <<[key |-> "header-bar", hwe |-> FALSE]>>]]

\* Bound: the requests of a behaviour go to one part of the site, whose rows
\* may be in any of a few initial states while the others are empty; no more
\* than two go to translated rows.
VARIABLE area

NoPages == page = [p \in PageIds |-> Absent] /\ versions = [p \in PageIds |-> << >>] /\ written = {}
\* A header: its bar, published or not, and a text of the creator, hidden or not.
Header ==
  \E hidden, live \in BOOLEAN :
    LET bar  == Section(1, "header-bar", 0)
        mine == [Section(2, "text", 1) EXCEPT !.text = 2, !.hidden = hidden]
        row  == [NewPage("HEADER", {}, {}, {bar, mine}) EXCEPT !.status = IF live THEN "PUBLISHED" ELSE "DRAFT",
                                                                !.live = IF live THEN 1 ELSE 0]
    IN  /\ page = [p \in PageIds |-> IF p = 1 THEN row ELSE Absent]
        /\ versions = [p \in PageIds |-> IF p = 1 /\ live
                         THEN <<Version(Frozen(Unhidden(row.secs)), "published", 0)>> ELSE << >>]
        /\ written = {2}
MCKind == [about |-> "page", b1 |-> "block", promo |-> "promotion", cat |-> "category", attr |-> "attribute",
           faq |-> "faq", field |-> "field", links |-> "links", terms |-> "legal", mail |-> "template",
           own |-> "override"]
NoDocs == doc = [d \in Docs |-> Gone] /\ meant = [d \in Docs |-> {}]
\* Rows of the kinds given, there or not; the rest is gone.
SomeDocs(kinds) ==
  \E locales \in {{"en"}, Locales}, there \in BOOLEAN :
    LET row(d) == IF d \notin Of(kinds) THEN Gone
                  ELSE IF there \/ KindOf[d] \in {"legal", "links"}
                       THEN Doc(IF KindOf[d] = "block" THEN "about" ELSE d, locales)
                       ELSE Unwritten
    IN  /\ doc = [d \in Docs |-> row(d)]
        /\ meant = [d \in Docs |-> IF row(d) \in {Gone, Unwritten} THEN {} ELSE locales]
\* A static page, published, or none.
OldPage ==
  \E there \in BOOLEAN :
    /\ doc = [d \in Docs |-> IF there /\ d \in Of({"page"}) THEN [Doc(d, {}) EXCEPT !.status = "PUBLISHED"] ELSE Gone]
    /\ meant = [d \in Docs |-> {}]
OldPages == {"page", "block"}
OneKind == {OldPages} \cup {{KindOf[d]} : d \in Docs \ Of(OldPages)}

MCInit ==
  /\ demo = 0 /\ look = "none" /\ fresh = 3
  /\ revised = [p \in PageIds |-> 0] /\ raced = {} /\ swept = {}
  /\ menu = {} /\ torn = {} /\ sent = {} /\ mixed = FALSE
  /\ NoRequests
  /\ \/ area = "pages" /\ NoPages /\ OldPage
     \/ area \in {"header", "styles"} /\ Header /\ NoDocs
     \/ area = "menu" /\ NoPages /\ NoDocs
     \/ area = "documents" /\ NoPages /\ \E kinds \in OneKind : SomeDocs(kinds)
Next ==
  /\ \E r \in Requests :
       \/ area \in {"pages", "styles"} /\ Building(r)
       \/ area = "header" /\ Editing(r)
       \/ area \in {"header", "styles"} /\ Styling(r)
       \/ area = "documents" /\ r <= 2 /\ Documents(r)
       \/ area = "menu" /\ Linking(r)
  /\ UNCHANGED area
Spec == MCInit /\ [][Next]_<<siteVars, area>>
=============================================================================
