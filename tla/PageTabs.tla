------------------------------ MODULE PageTabs ------------------------------
(***************************************************************************)
(* dqm-page.js and loadConfig() of dqm-common.js: the page reads its       *)
(* configuration in two requests, renders, shows one of its tabs, and      *)
(* builds each tab when it is first shown.  Once, after the first paint,   *)
(* it asks the analyzer what it publishes, and puts the answer under every *)
(* box that waits on the analyzer: the boxes there are when it comes, and  *)
(* those of the tabs that are built later.                                 *)
(*                                                                         *)
(* The operators on a page record are the functions of the code; JavaScript*)
(* runs each callback to its end, so that each is one action.              *)
(***************************************************************************)
EXTENDS Integers, Sequences, FiniteSets

CONSTANTS
  Tabs,
  Elements,      \* panels
  TabOf,         \* the tab a panel is on
  Defaults,      \* the built-in configuration: client, histograms, eventId
  NoClient,      \* an empty Analyzer Client
  Publishes,     \* External: the sets of histograms an analyzer may publish
  Unset,         \* a key that is not in the ODB
  Nothing

ASSUME CatalogueAssumption == TabOf \in [Elements -> Tabs]

Notes == [says : {"no client named", "no client answered", "none configured",
                  "published", "missing"},
          edits : {"client", "histograms"}]

ASSUME NothingAssumption == Nothing \notin Notes

VARIABLES
  page,   \* what a load of the page has made so far
  hash,   \* #tab= of the URL, which outlives the page
  odb,    \* the /DQM subtree: what each key of Defaults has there, or Unset
  tabs,   \* the catalogue the page was made from: its tabs in order,
  kind    \* and what each panel is, see Boxes

given == <<odb, tabs, kind>>
pageVars == <<page, hash, given>>

Kinds == {"drawn", "blocked", "held back", "fails"}

OfPage == {tabs[i] : i \in DOMAIN tabs}

\* A page that was just loaded: the let variables of dqm-page.js.
FreshPage ==
  [phase |-> "common", cfg |-> Defaults, open |-> Nothing, built |-> {},
   blockedBoxes |-> {}, footnotes |-> [e \in Elements |-> 0],
   probe |-> Nothing, asking |-> FALSE]

PageInit ==
  /\ page = FreshPage
  /\ hash \in Tabs \union {Nothing}

-----------------------------------------------------------------------------
\* _merge(): the keys that are there replace the defaults.
Merge(cfg, keys) ==
  [k \in DOMAIN cfg |-> IF k \in keys /\ odb[k] # Unset THEN odb[k] ELSE cfg[k]]

CommonKeys == {"client"}

\* A read of a subtree that is not there, or that fails, changes nothing.
Reads(keys) == {page.cfg, Merge(page.cfg, keys)}

\* The panels of a tab that have a box that waits on the analyzer: a blocked panel
\* nobody renders, and a two-dimensional plot whose renderer holds it back.  A
\* renderer that fails after it asked for a footnote loses its box to
\* drawFailed(), while blockedBoxes keeps it.
Boxes(tab) == {e \in Elements : TabOf[e] = tab /\ kind[e] # "drawn"}

\* Slip: a box is footnoted only when the answer comes.
CollectOnly(p, boxes) == [p EXCEPT !.blockedBoxes = @ \union boxes]

\* applyProbe() on each of the boxes.
ApplyProbe(p, boxes) ==
  [p EXCEPT !.footnotes = [e \in Elements |-> IF e \in boxes THEN @[e] + 1 ELSE @[e]]]

\* noteBlocked() of the boxes of a tab: kept, and footnoted if the answer is there.
NoteBlocked(p, boxes) ==
  LET kept == [p EXCEPT !.blockedBoxes = @ \union boxes]
  IN IF p.probe = Nothing THEN kept ELSE ApplyProbe(kept, boxes)

\* showTab()
ShowTab(p, tab) ==
  IF tab \in p.built
    THEN [p EXCEPT !.open = tab]
    ELSE [NoteBlocked(p, Boxes(tab)) EXCEPT !.built = @ \union {tab}, !.open = tab]

\* openingTab(): a bookmark of no tab opens the first.
OpeningTab == IF hash \in OfPage THEN hash ELSE tabs[1]

\* The note of probeAnalyzer(), and the key it offers to edit.
NoteOf(cfg, published) ==
  CASE cfg.client = NoClient -> [says |-> "no client named", edits |-> "client"]
    [] cfg.client # NoClient /\ published = Nothing ->
         [says |-> "no client answered", edits |-> "client"]
    [] cfg.client # NoClient /\ published # Nothing /\ cfg.histograms = {} ->
         [says |-> "none configured", edits |-> "histograms"]
    [] OTHER ->
         [says |-> IF cfg.histograms \subseteq published THEN "published" ELSE "missing",
          edits |-> "client"]

\* probeAnalyzer() from its answer on.
Answered(p, published) ==
  ApplyProbe([p EXCEPT !.asking = FALSE, !.probe = NoteOf(p.cfg, published)],
             p.blockedBoxes)

\* boot() asks if a panel of the catalogue is blocked; with no client to ask, the
\* answer is there at once.
Probe(p) ==
  IF ~ \E e \in Elements : TabOf[e] \in OfPage /\ kind[e] = "blocked" THEN p
  ELSE IF p.cfg.client = NoClient THEN Answered(p, Nothing)
  ELSE [p EXCEPT !.asking = TRUE]

\* boot() from the second read on: render(), then the probe.
Boot(cfg) ==
  Probe(ShowTab([page EXCEPT !.phase = "up", !.cfg = cfg], OpeningTab))

-----------------------------------------------------------------------------
\* loadConfig() reads what the pages share, then what is this page's own.
ReadCommon ==
  /\ page.phase = "common"
  /\ \E cfg \in Reads(CommonKeys) : page' = [page EXCEPT !.phase = "own", !.cfg = cfg]
  /\ UNCHANGED <<hash, given>>

\* The page comes up.
ReadOwn ==
  /\ page.phase = "own"
  /\ \E cfg \in Reads(DOMAIN Defaults \ CommonKeys) : page' = Boot(cfg)
  /\ hash' = OpeningTab
  /\ UNCHANGED given

\* The analyzer, or the lack of one, answers the probe.
ProbeAnswers ==
  /\ page.asking
  /\ \E published \in Publishes \union {Nothing} : page' = Answered(page, published)
  /\ UNCHANGED <<hash, given>>

\* A tab's button is clicked.
ClickTab(tab) ==
  /\ page.phase = "up" /\ tab \in OfPage
  /\ page' = ShowTab(page, tab)
  /\ hash' = tab
  /\ UNCHANGED given

\* The page is loaded again.
LoadAgain ==
  /\ page' = FreshPage
  /\ UNCHANGED <<hash, given>>

-----------------------------------------------------------------------------
\* The records keep their fields' types; a page that is up shows a tab it has built
\* and that the URL names.
PageTypeOK ==
  /\ page.phase \in {"common", "own", "up"}
  /\ page.open \in Tabs \union {Nothing}
  /\ page.built \in SUBSET Tabs
  /\ page.blockedBoxes \in SUBSET Elements
  /\ page.footnotes \in [Elements -> Nat]
  /\ page.probe \in Notes \union {Nothing} /\ page.asking \in BOOLEAN
  /\ hash \in Tabs \union {Nothing} /\ kind \in [Elements -> Kinds]
  /\ OfPage \subseteq Tabs
  /\ page.phase = "up" => page.open \in page.built /\ hash = page.open

\* Every box of the document that waits on the analyzer has one footnote, and only
\* if the analyzer was asked and has answered, whichever came first: the tab or the
\* answer.
OneFootnote ==
  \A e \in Elements :
    TabOf[e] \in page.built /\ kind[e] \in {"blocked", "held back"} =>
      page.footnotes[e] = IF page.probe = Nothing THEN 0 ELSE 1
=============================================================================
