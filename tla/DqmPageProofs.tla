---------------------------- MODULE DqmPageProofs ----------------------------
(***************************************************************************)
(* DqmPage for any catalogue, any events and any number of chains: every   *)
(* box that waits on the analyzer gets its one footnote; the loop never    *)
(* stalls; plots are made in a tab that has a size; no older event comes   *)
(* after a newer one; and the status line, the plots, the maps and the     *)
(* profile tell of the same event, each hit of it.                         *)
(***************************************************************************)
EXTENDS DqmPage, FiniteSetTheorems, TLAPS

LoopProofs == INSTANCE PollLoopProofs WITH inflight <- Cardinality(UnderWay)

-----------------------------------------------------------------------------
(* The page and its tabs. *)

\* A page record, whatever its configuration.
PageRecord(cfg) ==
  [phase : {"common", "own", "up"}, cfg : {cfg}, open : Tabs \union {Nothing},
   built : SUBSET Tabs, blockedBoxes : SUBSET Elements, footnotes : [Elements -> Nat],
   probe : Notes \union {Nothing}, asking : BOOLEAN]

\* The boxes that are kept are those of the tabs that are built, and each has a
\* footnote once there is an answer.
Noted(p) ==
  /\ \A e \in Elements : e \in p.blockedBoxes <=> TabOf[e] \in p.built /\ kind[e] # "drawn"
  /\ \A e \in Elements :
       p.footnotes[e] = IF e \in p.blockedBoxes /\ p.probe # Nothing THEN 1 ELSE 0

\* Nothing was built or asked before the page came up.
Blank(p) == p.phase # "up" => p.built = {} /\ p.probe = Nothing /\ ~ p.asking

Asking(p) == p.asking => p.probe = Nothing

OpenIsBuilt(p) == p.phase = "up" => p.open \in p.built

LEMMA BoxesOfATab ==
  \A tab \in Tabs : \A e \in Elements : e \in Boxes(tab) <=> TabOf[e] = tab /\ kind[e] # "drawn"
BY DEF Boxes

\* Footnoting boxes that have none keeps the other fields.
LEMMA ProbeApplied ==
  ASSUME NEW cfg, NEW p \in PageRecord(cfg), NEW boxes \in SUBSET Elements
  PROVE  /\ ApplyProbe(p, boxes) \in PageRecord(cfg)
         /\ \A e \in Elements : ApplyProbe(p, boxes).footnotes[e] =
              IF e \in boxes THEN p.footnotes[e] + 1 ELSE p.footnotes[e]
         /\ ApplyProbe(p, boxes).phase = p.phase /\ ApplyProbe(p, boxes).open = p.open
         /\ ApplyProbe(p, boxes).built = p.built /\ ApplyProbe(p, boxes).probe = p.probe
         /\ ApplyProbe(p, boxes).blockedBoxes = p.blockedBoxes
         /\ ApplyProbe(p, boxes).asking = p.asking
<1> DEFINE notes == [e \in Elements |-> IF e \in boxes THEN p.footnotes[e] + 1 ELSE p.footnotes[e]]
<1>1. p.footnotes \in [Elements -> Nat]
  BY DEF PageRecord
<1>2. notes \in [Elements -> Nat]
  BY <1>1
<1>3. ApplyProbe(p, boxes) = [p EXCEPT !.footnotes = notes]
  BY DEF ApplyProbe
<1> HIDE DEF notes
<1>4. ApplyProbe(p, boxes) \in PageRecord(cfg) /\ ApplyProbe(p, boxes).footnotes = notes
  BY <1>2, <1>3 DEF PageRecord
<1>5. /\ ApplyProbe(p, boxes).phase = p.phase /\ ApplyProbe(p, boxes).open = p.open
      /\ ApplyProbe(p, boxes).built = p.built /\ ApplyProbe(p, boxes).probe = p.probe
      /\ ApplyProbe(p, boxes).blockedBoxes = p.blockedBoxes
      /\ ApplyProbe(p, boxes).asking = p.asking
  BY <1>2, <1>3 DEF PageRecord
<1>6. QED
  BY <1>4, <1>5 DEF notes

\* A tab is shown, and built the first time: its boxes are footnoted at once if the
\* answer is there.
LEMMA TabShown ==
  ASSUME NEW cfg, NEW p \in PageRecord(cfg), NEW tab \in Tabs, Noted(p)
  PROVE  LET q == ShowTab(p, tab) IN
         /\ q \in PageRecord(cfg) /\ Noted(q)
         /\ q.phase = p.phase /\ q.open = tab /\ q.built = p.built \union {tab}
         /\ q.probe = p.probe /\ q.asking = p.asking
<1> DEFINE q == ShowTab(p, tab)
           kept == [p EXCEPT !.blockedBoxes = @ \union Boxes(tab)]
<1>1. CASE tab \in p.built
  <2>1. q = [p EXCEPT !.open = tab]
    BY <1>1 DEF ShowTab
  <2>2. /\ q \in PageRecord(cfg)
        /\ q.phase = p.phase /\ q.open = tab /\ q.built = p.built /\ q.probe = p.probe
        /\ q.asking = p.asking /\ q.blockedBoxes = p.blockedBoxes /\ q.footnotes = p.footnotes
    BY <2>1 DEF PageRecord
  <2>3. p.built \union {tab} = p.built
    BY <1>1
  <2> HIDE DEF q
  <2>4. Noted(q)
    BY <2>2 DEF Noted
  <2>5. QED
    BY <2>2, <2>3, <2>4 DEF q
<1>2. CASE tab \notin p.built
  <2>1. Boxes(tab) \in SUBSET Elements
    BY DEF Boxes
  <2>2. /\ kept \in PageRecord(cfg)
        /\ kept.blockedBoxes = p.blockedBoxes \union Boxes(tab)
        /\ kept.phase = p.phase /\ kept.open = p.open /\ kept.built = p.built
        /\ kept.probe = p.probe /\ kept.asking = p.asking /\ kept.footnotes = p.footnotes
    BY <2>1 DEF PageRecord
  <2>3. \A e \in Elements : e \in Boxes(tab) => e \notin p.blockedBoxes
    BY <1>2, BoxesOfATab DEF Noted
  <2> HIDE DEF kept
  <2> DEFINE noted == NoteBlocked(p, Boxes(tab))
  <2>4. noted = IF p.probe = Nothing THEN kept ELSE ApplyProbe(kept, Boxes(tab))
    BY DEF NoteBlocked, kept
  <2> HIDE DEF noted
  <2>5. /\ noted \in PageRecord(cfg)
        /\ noted.blockedBoxes = p.blockedBoxes \union Boxes(tab)
        /\ noted.phase = p.phase /\ noted.open = p.open /\ noted.built = p.built
        /\ noted.probe = p.probe /\ noted.asking = p.asking
    BY <2>1, <2>2, <2>4, ProbeApplied
  <2>6. \A e \in Elements : noted.footnotes[e] =
          IF e \in noted.blockedBoxes /\ p.probe # Nothing THEN 1 ELSE 0
    <3>1. CASE p.probe = Nothing
      BY <2>2, <2>4, <3>1 DEF Noted
    <3>2. CASE p.probe # Nothing
      <4>1. \A e \in Elements : noted.footnotes[e] =
              IF e \in Boxes(tab) THEN p.footnotes[e] + 1 ELSE p.footnotes[e]
        BY <2>1, <2>2, <2>4, <3>2, ProbeApplied
      <4>2. \A e \in Elements : p.footnotes[e] = IF e \in p.blockedBoxes THEN 1 ELSE 0
        BY <3>2 DEF Noted
      <4>3. QED
        BY <2>3, <2>5, <3>2, <4>1, <4>2
    <3>3. QED
      BY <3>1, <3>2
  <2>7. q = [noted EXCEPT !.built = @ \union {tab}, !.open = tab]
    BY <1>2 DEF ShowTab, noted
  <2>8. /\ q \in PageRecord(cfg)
        /\ q.phase = p.phase /\ q.open = tab /\ q.built = p.built \union {tab}
        /\ q.probe = p.probe /\ q.asking = p.asking
        /\ q.blockedBoxes = p.blockedBoxes \union Boxes(tab) /\ q.footnotes = noted.footnotes
    <3> DEFINE built == [noted EXCEPT !.built = @ \union {tab}]
    <3>1. /\ built \in PageRecord(cfg) /\ built.built = p.built \union {tab}
          /\ built.phase = p.phase /\ built.probe = p.probe /\ built.asking = p.asking
          /\ built.blockedBoxes = p.blockedBoxes \union Boxes(tab)
          /\ built.footnotes = noted.footnotes
      BY <2>5 DEF PageRecord
    <3>2. q = [built EXCEPT !.open = tab]
      BY <2>7
    <3> HIDE DEF built, q
    <3>3. QED
      BY <3>1, <3>2 DEF PageRecord
  <2> HIDE DEF q
  <2>9. \A e \in Elements : e \in q.blockedBoxes <=> TabOf[e] \in q.built /\ kind[e] # "drawn"
    BY <2>8, BoxesOfATab DEF Noted
  <2>10. Noted(q)
    BY <2>5, <2>6, <2>8, <2>9 DEF Noted
  <2>11. QED
    BY <2>8, <2>10 DEF q
<1>3. QED
  BY <1>1, <1>2

LEMMA NoteIsANote == \A cfg, published : NoteOf(cfg, published) \in Notes
<1> SUFFICES ASSUME NEW cfg, NEW published
             PROVE  NoteOf(cfg, published) \in Notes
  OBVIOUS
<1>1. QED
  BY DEF NoteOf, Notes

\* The answer comes, once: every box that is kept has its footnote.
LEMMA AnswerApplied ==
  ASSUME NEW cfg, NEW p \in PageRecord(cfg), NEW published, Noted(p), p.probe = Nothing
  PROVE  LET q == Answered(p, published) IN
         /\ q \in PageRecord(cfg) /\ Noted(q)
         /\ q.phase = p.phase /\ q.open = p.open /\ q.built = p.built /\ ~ q.asking
<1> DEFINE note == NoteOf(p.cfg, published)
           told == [p EXCEPT !.asking = FALSE, !.probe = note]
           q == Answered(p, published)
<1>1. note \in Notes /\ note # Nothing
  BY NoteIsANote, NothingAssumption
<1>2. p.blockedBoxes \in SUBSET Elements
  BY DEF PageRecord
<1>3. q = ApplyProbe(told, p.blockedBoxes)
  BY DEF Answered
<1> HIDE DEF note
<1>4. /\ told \in PageRecord(cfg) /\ told.probe = note /\ told.asking = FALSE
      /\ told.phase = p.phase /\ told.open = p.open /\ told.built = p.built
      /\ told.blockedBoxes = p.blockedBoxes /\ told.footnotes = p.footnotes
  BY <1>1 DEF PageRecord
<1> HIDE DEF told, q
<1>5. /\ q \in PageRecord(cfg) /\ q.probe = note /\ q.asking = FALSE
      /\ q.phase = p.phase /\ q.open = p.open /\ q.built = p.built
      /\ q.blockedBoxes = p.blockedBoxes
      /\ \A e \in Elements : q.footnotes[e] =
           IF e \in p.blockedBoxes THEN p.footnotes[e] + 1 ELSE p.footnotes[e]
  BY <1>2, <1>3, <1>4, ProbeApplied
<1>6. \A e \in Elements : p.footnotes[e] = 0
  BY DEF Noted
<1>7. Noted(q)
  BY <1>1, <1>5, <1>6 DEF Noted
<1>8. QED
  BY <1>5, <1>7 DEF q

\* The page in a step, of which there are six kinds.
PageInv ==
  /\ page \in PageRecord(page.cfg)
  /\ Noted(page) /\ Blank(page) /\ Asking(page)
  /\ page.phase = "up" => page.open \in page.built /\ hash = page.open
  /\ hash \in Tabs \union {Nothing}
  /\ tabs \in Seq(Tabs) \ {<< >>} /\ kind \in [Elements -> Kinds]

LEMMA OpeningTabIsATab ==
  ASSUME tabs \in Seq(Tabs) \ {<< >>}
  PROVE  OfPage \subseteq Tabs /\ OpeningTab \in OfPage /\ OpeningTab \in Tabs
<1>1. Len(tabs) \in Nat /\ Len(tabs) >= 1 /\ DOMAIN tabs = 1 .. Len(tabs)
      /\ \A i \in 1 .. Len(tabs) : tabs[i] \in Tabs
  OBVIOUS
<1>2. 1 \in DOMAIN tabs
  BY <1>1
<1>3. QED
  BY <1>1, <1>2 DEF OfPage, OpeningTab

LEMMA FreshPageKeeps ==
  /\ FreshPage \in PageRecord(FreshPage.cfg)
  /\ Noted(FreshPage) /\ Blank(FreshPage) /\ Asking(FreshPage)
  /\ FreshPage.phase = "common" /\ FreshPage.built = {}
<1> DEFINE fresh == FreshPage
<1>1. [e \in Elements |-> 0] \in [Elements -> Nat]
  OBVIOUS
<1>2. /\ fresh \in PageRecord(Defaults) /\ fresh.cfg = Defaults
      /\ fresh.phase = "common" /\ fresh.built = {} /\ fresh.blockedBoxes = {}
      /\ fresh.probe = Nothing /\ fresh.asking = FALSE
      /\ fresh.footnotes = [e \in Elements |-> 0]
  BY <1>1 DEF FreshPage, PageRecord
<1> HIDE DEF fresh
<1>3. Noted(fresh) /\ Blank(fresh) /\ Asking(fresh)
  BY <1>2 DEF Noted, Blank, Asking
<1>4. QED
  BY <1>2, <1>3 DEF fresh

\* boot() shows the opening tab, and asks.
LEMMA Booted ==
  ASSUME NEW cfg, PageInv, page.phase = "own"
  PROVE  LET q == Boot(cfg) IN
         /\ q \in PageRecord(q.cfg) /\ Noted(q) /\ Blank(q) /\ Asking(q)
         /\ q.phase = "up" /\ q.open = OpeningTab /\ q.built = {OpeningTab}
<1> DEFINE up == [page EXCEPT !.phase = "up", !.cfg = cfg]
           mid == [page EXCEPT !.phase = "up"]
           shown == ShowTab(up, OpeningTab)
           q == Boot(cfg)
<1>0. /\ page \in PageRecord(page.cfg) /\ Noted(page) /\ Blank(page) /\ Asking(page)
      /\ OpeningTab \in Tabs
  BY OpeningTabIsATab DEF PageInv
<1>1. page.built = {} /\ page.probe = Nothing /\ page.asking = FALSE
  BY <1>0 DEF Blank, PageInv, PageRecord
<1>2. /\ up \in PageRecord(cfg) /\ up.phase = "up" /\ up.built = {} /\ up.probe = Nothing
      /\ up.asking = FALSE /\ up.blockedBoxes = page.blockedBoxes /\ up.footnotes = page.footnotes
  <2>1. /\ mid \in PageRecord(page.cfg) /\ mid.phase = "up" /\ mid.built = {}
        /\ mid.probe = Nothing /\ mid.asking = FALSE
        /\ mid.blockedBoxes = page.blockedBoxes /\ mid.footnotes = page.footnotes
    BY <1>0, <1>1 DEF PageRecord
  <2>2. up = [mid EXCEPT !.cfg = cfg]
    OBVIOUS
  <2> HIDE DEF mid, up
  <2>3. QED
    BY <2>1, <2>2 DEF PageRecord
<1>3. q = Probe(shown)
  BY DEF Boot
<1> HIDE DEF up
<1>4. Noted(up)
  BY <1>0, <1>1, <1>2 DEF Noted
<1>5. /\ shown \in PageRecord(cfg) /\ Noted(shown)
      /\ shown.phase = "up" /\ shown.open = OpeningTab /\ shown.built = {OpeningTab}
      /\ shown.probe = Nothing /\ shown.asking = FALSE
  BY <1>0, <1>2, <1>4, TabShown
<1> HIDE DEF shown, q
<1>6. CASE q = shown
  BY <1>5, <1>6 DEF PageRecord, Blank, Asking, q
<1>7. CASE q = Answered(shown, Nothing)
  <2>1. /\ q \in PageRecord(cfg) /\ Noted(q) /\ q.phase = "up"
        /\ q.open = OpeningTab /\ q.built = {OpeningTab} /\ ~ q.asking
    BY <1>5, <1>7, AnswerApplied
  <2>2. q.cfg = cfg
    BY <2>1 DEF PageRecord
  <2>3. QED
    BY <2>1, <2>2 DEF Blank, Asking, q
<1>8. CASE q = [shown EXCEPT !.asking = TRUE]
  <2>1. /\ q \in PageRecord(cfg) /\ q.cfg = cfg /\ q.phase = "up" /\ q.open = OpeningTab
        /\ q.built = {OpeningTab} /\ q.probe = Nothing
        /\ q.blockedBoxes = shown.blockedBoxes /\ q.footnotes = shown.footnotes
    BY <1>5, <1>8 DEF PageRecord
  <2>2. Noted(q)
    BY <1>5, <2>1 DEF Noted
  <2>3. QED
    BY <2>1, <2>2 DEF Blank, Asking, q
<1>9. QED
  BY <1>3, <1>6, <1>7, <1>8 DEF Probe

LEMMA ReadCommonKeeps == PageInv /\ ReadCommon => PageInv' /\ page'.built = page.built
<1> SUFFICES ASSUME PageInv, ReadCommon
             PROVE  PageInv' /\ page'.built = page.built
  OBVIOUS
<1>1. PICK cfg : page' = [page EXCEPT !.phase = "own", !.cfg = cfg]
  BY DEF ReadCommon
<1>2. /\ page.phase = "common" /\ UNCHANGED <<hash, tabs, kind>>
      /\ page \in PageRecord(page.cfg) /\ Noted(page) /\ Blank(page)
  BY DEF ReadCommon, given, PageInv
<1>3. page.built = {} /\ page.probe = Nothing /\ page.asking = FALSE
  BY <1>2 DEF Blank, PageRecord
<1>4. /\ page' \in PageRecord(cfg) /\ page'.cfg = cfg /\ page'.phase = "own" /\ page'.built = {}
      /\ page'.probe = Nothing /\ page'.asking = FALSE
      /\ page'.blockedBoxes = page.blockedBoxes /\ page'.footnotes = page.footnotes
  <2> DEFINE own == [page EXCEPT !.phase = "own"]
  <2>1. /\ own \in PageRecord(page.cfg) /\ own.phase = "own" /\ own.built = {}
        /\ own.probe = Nothing /\ own.asking = FALSE
        /\ own.blockedBoxes = page.blockedBoxes /\ own.footnotes = page.footnotes
    BY <1>2, <1>3 DEF PageRecord
  <2>2. page' = [own EXCEPT !.cfg = cfg]
    BY <1>1
  <2> HIDE DEF own
  <2>3. QED
    BY <2>1, <2>2 DEF PageRecord
<1>5. Noted(page')
  BY <1>2, <1>3, <1>4 DEF Noted
<1>6. Noted(page)'
  BY <1>2, <1>5 DEF Noted
<1>7. Blank(page') /\ Asking(page')
  BY <1>4 DEF Blank, Asking
<1>8. QED
  BY <1>2, <1>3, <1>4, <1>6, <1>7 DEF PageInv, PageRecord, Blank, Asking

\* What a step of the page is to establish, for a record q that becomes the page.
LEMMA BecomesThePage ==
  ASSUME NEW q, page' = q, UNCHANGED <<tabs, kind>>, PageInv,
         q \in PageRecord(q.cfg), Noted(q), Blank(q), Asking(q),
         hash' \in Tabs \union {Nothing},
         q.phase = "up" => q.open \in q.built /\ hash' = q.open
  PROVE  PageInv'
<1>1. Noted(page)'
  BY DEF Noted
<1>2. page' \in PageRecord(page'.cfg) /\ Blank(page') /\ Asking(page')
  OBVIOUS
<1>3. PageRecord(page.cfg)' = PageRecord(page'.cfg)
  BY DEF PageRecord
<1>4. Blank(page)' /\ Asking(page)'
  BY DEF Blank, Asking
<1>5. QED
  BY <1>1, <1>2, <1>3, <1>4 DEF PageInv

LEMMA ReadOwnKeeps ==
  PageInv /\ ReadOwn =>
    PageInv' /\ page.built = {} /\ page'.built = {OpeningTab} /\ page'.open = OpeningTab
<1> SUFFICES ASSUME PageInv, ReadOwn
             PROVE  PageInv' /\ page.built = {}
                    /\ page'.built = {OpeningTab} /\ page'.open = OpeningTab
  OBVIOUS
<1>1. PICK cfg : page' = Boot(cfg)
  BY DEF ReadOwn
<1>2. page.phase = "own" /\ hash' = OpeningTab /\ UNCHANGED <<tabs, kind>>
  BY DEF ReadOwn, given
<1>3. OpeningTab \in Tabs /\ page.built = {}
  BY <1>2, OpeningTabIsATab DEF PageInv, Blank
<1> DEFINE q == Boot(cfg)
<1>4. /\ q \in PageRecord(q.cfg) /\ Noted(q) /\ Blank(q) /\ Asking(q)
      /\ q.phase = "up" /\ q.open = OpeningTab /\ q.built = {OpeningTab}
  BY <1>2, Booted
<1> HIDE DEF q
<1>5. page' = q
  BY <1>1 DEF q
<1>6. PageInv'
  BY <1>2, <1>3, <1>4, <1>5, BecomesThePage
<1>7. QED
  BY <1>3, <1>4, <1>5, <1>6

LEMMA ProbeAnswersKeeps == PageInv /\ ProbeAnswers => PageInv' /\ page'.built = page.built
                                                     /\ page'.open = page.open
<1> SUFFICES ASSUME PageInv, ProbeAnswers
             PROVE  PageInv' /\ page'.built = page.built /\ page'.open = page.open
  OBVIOUS
<1>1. PICK published : page' = Answered(page, published)
  BY DEF ProbeAnswers
<1>2. /\ page.asking /\ UNCHANGED <<hash, tabs, kind>> /\ page \in PageRecord(page.cfg)
      /\ Noted(page) /\ page.probe = Nothing /\ page.phase = "up"
  BY DEF ProbeAnswers, given, PageInv, Asking, Blank, PageRecord
<1> DEFINE q == Answered(page, published)
<1>3. /\ q \in PageRecord(page.cfg) /\ Noted(q)
      /\ q.phase = page.phase /\ q.open = page.open /\ q.built = page.built /\ ~ q.asking
  BY <1>2, AnswerApplied
<1> HIDE DEF q
<1>4. page' = q
  BY <1>1 DEF q
<1>5. q \in PageRecord(q.cfg)
  BY <1>3 DEF PageRecord
<1>6. Blank(q) /\ Asking(q)
  BY <1>2, <1>3 DEF Blank, Asking
<1>7. hash' \in Tabs \union {Nothing} /\ (q.phase = "up" => q.open \in q.built /\ hash' = q.open)
  BY <1>2, <1>3 DEF PageInv
<1>8. PageInv'
  BY <1>2, <1>3, <1>4, <1>5, <1>6, <1>7, BecomesThePage
<1>9. QED
  BY <1>3, <1>4, <1>8

LEMMA ClickTabKeeps ==
  ASSUME NEW tab \in Tabs, PageInv, ClickTab(tab)
  PROVE  PageInv' /\ page'.built = page.built \union {tab} /\ page'.open = tab
<1>1. /\ page.phase = "up" /\ hash' = tab /\ UNCHANGED <<tabs, kind>>
      /\ page' = ShowTab(page, tab)
      /\ page \in PageRecord(page.cfg) /\ Noted(page) /\ Asking(page)
  BY DEF ClickTab, given, PageInv
<1> DEFINE q == ShowTab(page, tab)
<1>2. /\ q \in PageRecord(page.cfg) /\ Noted(q)
      /\ q.phase = page.phase /\ q.open = tab /\ q.built = page.built \union {tab}
      /\ q.probe = page.probe /\ q.asking = page.asking
  BY <1>1, TabShown
<1> HIDE DEF q
<1>3. page' = q
  BY <1>1 DEF q
<1>4. q \in PageRecord(q.cfg)
  BY <1>2 DEF PageRecord
<1>5. Blank(q) /\ Asking(q)
  BY <1>1, <1>2 DEF Blank, Asking
<1>6. hash' \in Tabs \union {Nothing} /\ (q.phase = "up" => q.open \in q.built /\ hash' = q.open)
  BY <1>1, <1>2
<1>7. PageInv'
  BY <1>1, <1>2, <1>3, <1>4, <1>5, <1>6, BecomesThePage
<1>8. QED
  BY <1>2, <1>3, <1>7

LEMMA LoadAgainKeeps == PageInv /\ LoadAgain => PageInv' /\ page'.built = {}
<1> SUFFICES ASSUME PageInv, LoadAgain
             PROVE  PageInv' /\ page'.built = {}
  OBVIOUS
<1>1. page' = FreshPage /\ UNCHANGED <<hash, tabs, kind>>
  BY DEF LoadAgain, given
<1> DEFINE q == FreshPage
<1>2. /\ q \in PageRecord(q.cfg) /\ Noted(q) /\ Blank(q) /\ Asking(q)
      /\ q.phase = "common" /\ q.built = {}
  BY FreshPageKeeps
<1>3. hash' \in Tabs \union {Nothing}
  BY <1>1 DEF PageInv
<1> HIDE DEF q
<1>4. page' = q
  BY <1>1 DEF q
<1>5. PageInv'
  BY <1>1, <1>2, <1>3, <1>4, BecomesThePage
<1>6. QED
  BY <1>2, <1>4, <1>5

LEMMA PageStands == PageInv /\ UNCHANGED pageVars => PageInv'
<1> SUFFICES ASSUME PageInv, UNCHANGED pageVars
             PROVE  PageInv'
  OBVIOUS
<1>1. UNCHANGED <<page, hash, tabs, kind>>
  BY DEF pageVars, given
<1>2. QED
  BY <1>1 DEF PageInv, PageRecord, Noted, Blank, Asking

LEMMA PageInitInv == Init => PageInv
<1> SUFFICES ASSUME Init
             PROVE  PageInv
  OBVIOUS
<1>1. page = FreshPage /\ hash \in Tabs \union {Nothing}
  BY DEF Init, PageInit
<1>2. tabs \in Seq(Tabs) \ {<< >>} /\ kind \in [Elements -> Kinds]
  BY WorldsAssumption DEF Init
<1>3. QED
  BY <1>1, <1>2, FreshPageKeeps DEF PageInv

LEMMA PageNext == PageInv /\ [Next]_vars => PageInv'
<1> SUFFICES ASSUME PageInv, [Next]_vars
             PROVE  PageInv'
  OBVIOUS
<1>1. CASE Boots
  BY <1>1, ReadCommonKeeps, ReadOwnKeeps DEF Boots
<1>2. CASE Probed
  BY <1>2, ProbeAnswersKeeps DEF Probed
<1>3. CASE Reload
  BY <1>3, LoadAgainKeeps DEF Reload
<1>4. ASSUME NEW tab \in Tabs, Click(tab)
      PROVE  PageInv'
  BY <1>4, ClickTabKeeps DEF Click
<1>5. CASE UNCHANGED pageVars
  BY <1>5, PageStands
<1>6. QED
  BY <1>1, <1>2, <1>3, <1>4, <1>5 DEF Next, vars

\* Every box that waits on the analyzer has its one footnote once there is an answer,
\* whichever came first, for any catalogue.
THEOREM EveryBoxIsFootnoted == Spec => []OneFootnote
<1>1. PageInv => OneFootnote
  <2> SUFFICES ASSUME PageInv, NEW e \in Elements,
                      TabOf[e] \in page.built, kind[e] \in {"blocked", "held back"}
               PROVE  page.footnotes[e] = IF page.probe = Nothing THEN 0 ELSE 1
    BY DEF OneFootnote
  <2>1. e \in page.blockedBoxes
    BY DEF PageInv, Noted
  <2>2. page.footnotes[e] = IF e \in page.blockedBoxes /\ page.probe # Nothing THEN 1 ELSE 0
    BY DEF PageInv, Noted
  <2>3. QED
    BY <2>1, <2>2
<1>2. QED
  BY <1>1, PageInitInv, PageNext, PTL DEF Spec

-----------------------------------------------------------------------------
(* The loop and its requests. *)

Stages == {"closed", "opened", "graph", "mapped", "unmapped"}

\* The state's record, whatever its map, event and channels.
StateRecord(s) ==
  [stage : Stages, layerMap : {s.layerMap}, lastHeader : Nat, shown : Nat,
   event : {s.event}, error : BOOLEAN, known : {s.known}, excluded : {s.excluded}]

Request == [since : Nat, reply : Nat \union {None}]

LoopInv == LoopProofs!IInv /\ requests \in [Slots -> Request \union {None}]

Fresh == [since |-> state.lastHeader, reply |-> None]

LEMMA FreshIsARequest ==
  ASSUME state \in StateRecord(state)
  PROVE  Fresh \in Request /\ Fresh # None /\ Fresh.reply = None
                           /\ Fresh.since = state.lastHeader
<1>1. state.lastHeader \in Nat
  BY DEF StateRecord
<1>2. Fresh \in Request /\ Fresh.reply = None /\ Fresh.since = state.lastHeader
  BY <1>1 DEF Fresh, Request
<1>3. QED
  BY <1>2, ScopeAssumption DEF Request

\* What the number of requests under way says of them.
LEMMA Counting ==
  /\ IsFiniteSet(UnderWay) /\ Cardinality(UnderWay) \in Nat
  /\ Cardinality(UnderWay) = 0 <=> UnderWay = {}
  /\ Cardinality(UnderWay) <= 1 => \A i, j \in UnderWay : i = j
<1>1. IsFiniteSet(Slots)
  BY FS_Interval, ScopeAssumption DEF Slots
<1>2. IsFiniteSet(UnderWay)
  BY <1>1, FS_Subset DEF UnderWay
<1>3. Cardinality(UnderWay) \in Nat
  BY <1>2, FS_CardinalityType
<1>4. Cardinality(UnderWay) = 0 <=> UnderWay = {}
  BY <1>2, FS_EmptySet
<1>5. ASSUME Cardinality(UnderWay) <= 1
      PROVE  \A i, j \in UnderWay : i = j
  <2>1. CASE Cardinality(UnderWay) = 1
    <3>1. PICK x : UnderWay = {x}
      BY <2>1, <1>2, FS_Singleton
    <3>2. QED
      BY <3>1
  <2>2. CASE Cardinality(UnderWay) = 0
    BY <2>2, <1>4
  <2>3. QED
    BY <1>3, <1>5, <2>1, <2>2
<1>6. QED
  BY <1>2, <1>3, <1>4, <1>5

Sends(i) ==
  /\ UnderWay' = UnderWay \union {i}
  /\ requests' = [requests EXCEPT ![i] = Fresh]

\* One request more, or none.
LEMMA Sending ==
  ASSUME LoopInv, state \in StateRecord(state), MaySend
  PROVE  /\ requests' \in [Slots -> Request \union {None}]
         /\ \/ requests' = requests /\ UnderWay' = UnderWay
               /\ Cardinality(UnderWay)' = Cardinality(UnderWay)
            \/ /\ Cardinality(UnderWay)' = Cardinality(UnderWay) + 1
               /\ requests' # requests
               /\ \E i \in Slots \ UnderWay : Sends(i)
<1>0. requests \in [Slots -> Request \union {None}]
  BY DEF LoopInv
<1>1. CASE UNCHANGED requests
  <2>1. UnderWay' = UnderWay
    BY <1>1 DEF UnderWay, Slots
  <2>2. QED
    BY <1>0, <1>1, <2>1
<1>2. CASE ~ UNCHANGED requests
  <2>1. PICK i \in Slots \ UnderWay : requests' = [requests EXCEPT ![i] = Fresh]
    BY <1>2 DEF MaySend, Fresh
  <2>2. requests' \in [Slots -> Request \union {None}]
    BY <1>0, <2>1, FreshIsARequest
  <2>3. UnderWay' = UnderWay \union {i}
    BY <1>0, <2>1, FreshIsARequest DEF UnderWay, Slots
  <2>4. Cardinality(UnderWay \union {i}) = Cardinality(UnderWay) + 1
    BY Counting, FS_AddElement
  <2>5. Cardinality(UnderWay)' = Cardinality(UnderWay) + 1
    BY <2>3, <2>4
  <2>6. QED
    BY <1>2, <2>1, <2>2, <2>3, <2>5 DEF Sends
<1>3. QED
  BY <1>1, <1>2

\* A request that ends is one less.
LEMMA Ending ==
  ASSUME LoopInv, NEW i \in UnderWay, Ends(i)
  PROVE  /\ requests' \in [Slots -> Request \union {None}]
         /\ requests' = [requests EXCEPT ![i] = None]
         /\ UnderWay' = UnderWay \ {i}
         /\ Cardinality(UnderWay)' = Cardinality(UnderWay) - 1
         /\ Poller!Answer
<1>0. requests \in [Slots -> Request \union {None}]
  BY DEF LoopInv
<1>1. requests' = [requests EXCEPT ![i] = None] /\ i \in Slots /\ Poller!Answer
  BY DEF Ends, UnderWay
<1>2. requests' \in [Slots -> Request \union {None}]
  BY <1>0, <1>1
<1>3. UnderWay' = UnderWay \ {i}
  BY <1>0, <1>1 DEF UnderWay, Slots
<1>4. Cardinality(UnderWay \ {i}) = Cardinality(UnderWay) - 1
  BY Counting, FS_RemoveElement
<1>5. Cardinality(UnderWay)' = Cardinality(UnderWay) - 1
  BY <1>3, <1>4
<1>6. QED
  BY <1>1, <1>2, <1>3, <1>5

\* A request that is served is still under way.
Answer(i) ==
  [requests[i] EXCEPT !.reply = IF newest = requests[i].since THEN 0 ELSE newest]

LEMMA Serving ==
  ASSUME LoopInv, newest \in Nat, NEW i \in Slots, Serve(i)
  PROVE  /\ requests' \in [Slots -> Request \union {None}]
         /\ i \in UnderWay /\ requests' = [requests EXCEPT ![i] = Answer(i)]
         /\ Answer(i) \in Request /\ Answer(i).reply \in {0, newest}
         /\ Answer(i).since = requests[i].since
         /\ UnderWay' = UnderWay
         /\ Cardinality(UnderWay)' = Cardinality(UnderWay)
<1>0. requests \in [Slots -> Request \union {None}]
  BY DEF LoopInv
<1>1. i \in UnderWay /\ requests[i] \in Request
  BY <1>0 DEF Serve, UnderWay
<1>2. requests' = [requests EXCEPT ![i] = Answer(i)]
  BY <1>0, <1>1 DEF Serve, Answer
<1>3. Answer(i) \in Request /\ Answer(i).reply \in {0, newest}
      /\ Answer(i).since = requests[i].since
  BY <1>1 DEF Answer, Request
<1>4. Answer(i) # None
  BY <1>3, ScopeAssumption DEF Request
<1> HIDE DEF Answer
<1>5. requests' \in [Slots -> Request \union {None}]
  BY <1>0, <1>2, <1>3
<1>6. UnderWay' = UnderWay
  BY <1>0, <1>1, <1>2, <1>4 DEF UnderWay, Slots
<1>7. QED
  BY <1>1, <1>2, <1>3, <1>5, <1>6

PollerStep ==
  \/ Poller!Fire \/ Poller!Answer \/ Poller!Hide \/ Poller!Show
  \/ Poller!Pause \/ Poller!Resume \/ Poller!Unload

\* A step of the loop is one of ScopePoll.
LEMMA PollerMoves ==
  ASSUME PollerStep \/ UNCHANGED <<loop, Cardinality(UnderWay)>>
  PROVE  [LoopProofs!Scope!Next]_(LoopProofs!Scope!vars)
<1>1. PollerStep => LoopProofs!Scope!Next
  BY DEF PollerStep, LoopProofs!Scope!Next, LoopProofs!Scope!Loop,
         Poller!Fire, Poller!Answer, Poller!Hide, Poller!Show, Poller!Pause, Poller!Resume,
         Poller!Unload, Poller!Tick, Poller!Chains,
         LoopProofs!Scope!Fire, LoopProofs!Scope!Answer, LoopProofs!Scope!Hide,
         LoopProofs!Scope!Show, LoopProofs!Scope!Pause, LoopProofs!Scope!Resume,
         LoopProofs!Scope!Unload, LoopProofs!Scope!Tick, LoopProofs!Scope!Chains
<1>2. UNCHANGED <<loop, Cardinality(UnderWay)>> => UNCHANGED LoopProofs!Scope!vars
  BY DEF loop, LoopProofs!Scope!vars
<1>3. QED
  BY <1>1, <1>2

\* What a step of the poller leaves of its own state.
LEMMA PollerKeeps ==
  ASSUME LoopProofs!IInv, PollerStep \/ UNCHANGED <<loop, Cardinality(UnderWay)>>
  PROVE  LoopProofs!IInv'
BY PollerMoves, LoopProofs!NextScope

-----------------------------------------------------------------------------
(* The steps, and what each does to the state. *)

\* A step of the page that is not the tab's.
StaysPut == UNCHANGED <<loop, requests, state, stored, buffer, overlapped, blank>>

ScopeStep ==
  \/ Build \/ StaysPut \/ Unload \/ MakesPlots \/ Resumes \/ Pauses \/ Expires
  \/ \E i \in Slots : Serve(i) \/ Arrive(i) \/ Fail(i)
  \/ \E ch \in state.known : Toggle(ch)
  \/ Write

LEMMA NextSteps == [Next]_vars => ScopeStep
<1> SUFFICES ASSUME [Next]_vars
             PROVE  ScopeStep
  OBVIOUS
<1>1. CASE Boots \/ \E tab \in Tabs : Click(tab)
  <2>1. UNCHANGED scopeVars \/ \E tab : Shows(tab)
    BY <1>1 DEF Boots, Click
  <2>2. Build \/ StaysPut
    BY <2>1 DEF Shows, StaysPut, scopeVars
  <2>3. QED
    BY <2>2 DEF ScopeStep
<1>2. CASE Probed \/ UNCHANGED vars
  BY <1>2 DEF Probed, vars, scopeVars, StaysPut, ScopeStep
<1>3. CASE Reload
  BY <1>3 DEF Reload, ScopeStep
<1>4. CASE ScopeNext
  BY <1>4 DEF ScopeNext, Settle, ScopeStep
<1>5. QED
  BY <1>1, <1>2, <1>3, <1>4 DEF Next

\* The state keeps its fields, whichever other is assigned.
Kept(s, t) ==
  t \in StateRecord(t) /\ t.lastHeader = s.lastHeader /\ t.shown = s.shown

LEMMA StageSet ==
  ASSUME NEW s, s \in StateRecord(s), NEW stage \in Stages,
         NEW t, t = [s EXCEPT !.stage = stage]
  PROVE  Kept(s, t) /\ t.stage = stage
BY DEF StateRecord, Kept

LEMMA OtherSet ==
  ASSUME NEW s, s \in StateRecord(s), NEW x, NEW t,
         \/ t = [s EXCEPT !.layerMap = x]
         \/ t = [s EXCEPT !.excluded = x]
         \/ t = [s EXCEPT !.error = TRUE]
  PROVE  Kept(s, t) /\ t.stage = s.stage
<1>1. CASE t = [s EXCEPT !.layerMap = x]
  BY <1>1 DEF StateRecord, Kept
<1>2. CASE t = [s EXCEPT !.excluded = x]
  BY <1>2 DEF StateRecord, Kept
<1>3. CASE t = [s EXCEPT !.error = TRUE]
  BY <1>3 DEF StateRecord, Kept
<1>4. QED
  BY <1>1, <1>2, <1>3

\* An event that came is the last; it is shown, or the one before stays.
LEMMA EventTaken ==
  ASSUME state \in StateRecord(state), NEW e \in Nat, NEW decoded
  PROVE  LET t == OnEvent(e, decoded) IN
         /\ t \in StateRecord(t) /\ t.stage = state.stage
         /\ t.lastHeader = e /\ t.shown \in {state.shown, e}
<1> DEFINE headed == [state EXCEPT !.lastHeader = e]
           seen == [state EXCEPT !.lastHeader = e, !.error = FALSE]
           t == OnEvent(e, decoded)
<1>1. /\ headed \in StateRecord(headed) /\ headed.stage = state.stage
      /\ headed.lastHeader = e /\ headed.shown = state.shown
  BY DEF StateRecord
<1>2. seen = [headed EXCEPT !.error = FALSE]
  OBVIOUS
<1> DEFINE failed == [seen EXCEPT !.error = TRUE]
           shown == [seen EXCEPT !.shown = e, !.event = decoded,
                                 !.known = @ \union decoded.channels]
<1>3. /\ decoded = Broken => t = failed
      /\ decoded # Broken /\ decoded = NotOurs => t = seen
      /\ decoded # Broken /\ decoded # NotOurs => t = shown
  <2>1. t = CASE decoded = Broken -> failed
              [] decoded = NotOurs -> seen
              [] OTHER -> shown
    BY DEF OnEvent
  <2> HIDE DEF t, failed, shown, seen
  <2>2. QED
    BY <2>1, OutcomesAssumption
<1> HIDE DEF headed, seen, t
<1>4. /\ seen \in StateRecord(seen) /\ seen.stage = state.stage
      /\ seen.lastHeader = e /\ seen.shown = state.shown
  BY <1>1, <1>2 DEF StateRecord
<1>5. CASE decoded = Broken
  <2>1. t = [seen EXCEPT !.error = TRUE]
    BY <1>3, <1>5
  <2>2. /\ t \in StateRecord(t) /\ t.stage = seen.stage
        /\ t.lastHeader = seen.lastHeader /\ t.shown = seen.shown
    BY <1>4, <2>1 DEF StateRecord
  <2>3. QED
    BY <1>4, <2>2 DEF t
<1>6. CASE decoded # Broken /\ decoded = NotOurs
  <2>1. t = seen
    BY <1>3, <1>6
  <2>2. QED
    BY <1>4, <2>1 DEF t
<1>7. CASE decoded # Broken /\ decoded # NotOurs
  <2> DEFINE one == [seen EXCEPT !.shown = e]
             two == [one EXCEPT !.event = decoded]
             known == seen.known \union decoded.channels
  <2>1. t = [two EXCEPT !.known = known]
    BY <1>3, <1>7
  <2>2. /\ one \in StateRecord(one) /\ one.stage = state.stage
        /\ one.lastHeader = e /\ one.shown = e
    BY <1>4 DEF StateRecord
  <2> HIDE DEF one
  <2>3. /\ two \in StateRecord(two) /\ two.stage = state.stage
        /\ two.lastHeader = e /\ two.shown = e
    BY <2>2 DEF StateRecord
  <2> HIDE DEF two, known
  <2>4. /\ t \in StateRecord(t) /\ t.stage = two.stage
        /\ t.lastHeader = two.lastHeader /\ t.shown = two.shown
    BY <2>1, <2>3 DEF StateRecord
  <2>5. QED
    BY <2>3, <2>4 DEF t
<1>8. QED
  BY <1>5, <1>6, <1>7

-----------------------------------------------------------------------------
(* The loop in a step. *)

StateInv ==
  /\ state \in StateRecord(state)
  /\ newest \in Nat /\ Len(events) \in Nat /\ newest <= Len(events) /\ losses \in Nat
  /\ state.lastHeader <= newest /\ state.shown <= newest

\* No request and no reply is ahead of the buffer.
RequestsInv ==
  \A i \in UnderWay : /\ requests[i].since <= newest
                      /\ requests[i].reply # None => requests[i].reply <= newest

ScopeInv == LoopInv /\ StateInv /\ RequestsInv

\* Every step sends, answers or leaves alone requests, and the loop takes one of its own
\* steps or none.
LEMMA LoopMoves ==
  ASSUME ScopeInv, ScopeStep
  PROVE  /\ requests' \in [Slots -> Request \union {None}]
         /\ PollerStep \/ UNCHANGED <<loop, Cardinality(UnderWay)>>
<1>0. /\ LoopInv /\ state \in StateRecord(state) /\ newest \in Nat
      /\ LoopProofs!IInv /\ requests \in [Slots -> Request \union {None}]
  BY DEF ScopeInv, StateInv, LoopInv
<1>1. CASE Build
  BY <1>0, <1>1, Sending DEF Build, PollerStep
<1>2. CASE Resumes
  BY <1>0, <1>2, Sending DEF Resumes, PollerStep
<1>3. CASE Expires
  BY <1>0, <1>3, Sending DEF Expires, PollerStep
<1>4. CASE Pauses
  BY <1>0, <1>4 DEF Pauses, PollerStep
<1>5. CASE StaysPut \/ MakesPlots \/ Write \/ \E ch \in state.known : Toggle(ch)
  <2>1. UNCHANGED <<loop, requests>>
    BY <1>5 DEF StaysPut, MakesPlots, GraphTimer, MapRead, NoMapRead, Plots, Write, Toggle
  <2>2. UNCHANGED UnderWay
    BY <2>1 DEF UnderWay, Slots
  <2>3. QED
    BY <1>0, <2>1, <2>2
<1>6. CASE Unload
  <2>1. requests' = NoRequests /\ Poller!Unload
    BY <1>6 DEF Unload
  <2>2. NoRequests \in [Slots -> Request \union {None}]
    BY DEF NoRequests
  <2>3. QED
    BY <2>1, <2>2 DEF PollerStep
<1>7. ASSUME NEW i \in Slots, Serve(i)
      PROVE  /\ requests' \in [Slots -> Request \union {None}]
             /\ UNCHANGED <<loop, Cardinality(UnderWay)>>
  BY <1>0, <1>7, Serving DEF Serve
<1>8. ASSUME NEW i \in Slots, Arrive(i) \/ Fail(i)
      PROVE  requests' \in [Slots -> Request \union {None}] /\ PollerStep
  <2>1. i \in UnderWay /\ Ends(i)
    BY <1>8 DEF Arrive, Fail
  <2>2. QED
    BY <1>0, <2>1, Ending DEF PollerStep
<1>9. QED
  BY <1>1, <1>2, <1>3, <1>4, <1>5, <1>6, <1>7, <1>8 DEF ScopeStep

LEMMA NextLoop == ScopeInv /\ ScopeStep => LoopInv'
<1>1. ScopeInv => LoopInv /\ LoopProofs!IInv
  BY DEF ScopeInv, LoopInv
<1>2. QED
  BY <1>1, LoopMoves, PollerKeeps DEF LoopInv, Slots

\* What a request under way holds.
LEMMA Replies ==
  ASSUME LoopInv, RequestsInv
  PROVE  \A i \in UnderWay :
           /\ i \in Slots /\ requests[i] \in Request /\ requests[i].since \in Nat
           /\ requests[i].reply # None => requests[i].reply \in Nat
BY DEF LoopInv, UnderWay, Request

\* An event that arrives is one of the buffer.
LEMMA Arriving ==
  ASSUME ScopeInv, NEW i \in Slots, Arrive(i)
  PROVE  /\ i \in UnderWay /\ Ends(i) /\ requests[i].reply \in Nat /\ requests[i].reply <= newest
         /\ requests[i].reply # None
         /\ UNCHANGED <<buffer, stored, overlapped, blank, left>>
         /\ \/ requests[i].reply = 0 /\ state' = state
            \/ /\ requests[i].reply # 0
               /\ state' \in StateRecord(state') /\ state'.stage = state.stage
               /\ state'.lastHeader = requests[i].reply
               /\ state'.shown \in {state.shown, requests[i].reply}
<1>1. /\ i \in UnderWay /\ Ends(i) /\ requests[i].reply # None
      /\ UNCHANGED <<buffer, stored, overlapped, blank, left>>
  BY DEF Arrive
<1>2. requests[i].reply \in Nat /\ requests[i].reply <= newest
  BY <1>1, Replies DEF ScopeInv, RequestsInv
<1>3. \/ requests[i].reply = 0 /\ state' = state
      \/ /\ requests[i].reply # 0
         /\ \E decoded : state' = OnEvent(requests[i].reply, decoded)
  BY DEF Arrive
<1>4. state \in StateRecord(state)
  BY DEF ScopeInv, StateInv
<1>5. QED
  BY <1>1, <1>2, <1>3, <1>4, EventTaken

LEMMA FreshStateIsAState ==
  FreshState \in StateRecord(FreshState) /\ FreshState.stage = "closed"
  /\ FreshState.lastHeader = 0 /\ FreshState.shown = 0
BY DEF FreshState, StateRecord, Stages

\* Only an event's arrival, or a reload, changes which is shown.
LEMMA StateKept ==
  ASSUME StateInv,
         Build \/ StaysPut \/ MakesPlots \/ Resumes \/ Pauses \/ Expires \/ Write
         \/ (\E i \in Slots : Serve(i) \/ Fail(i)) \/ \E ch \in state.known : Toggle(ch)
  PROVE  Kept(state, state')
<1>0. state \in StateRecord(state)
  BY DEF StateInv
<1>1. CASE UNCHANGED state
  BY <1>0, <1>1 DEF Kept
<1>2. CASE \E i \in Slots : Fail(i)
  <2>1. state' = [state EXCEPT !.error = TRUE]
    BY <1>2 DEF Fail
  <2>2. QED
    BY <1>0, <2>1, OtherSet
<1>3. ASSUME NEW ch \in state.known, Toggle(ch)
      PROVE  Kept(state, state')
  <2>1. PICK off : state' = [state EXCEPT !.excluded = off]
    BY <1>3 DEF Toggle
  <2>2. QED
    BY <1>0, <2>1, OtherSet
<1>4. CASE Build \/ MakesPlots
  <2>1. \E stage \in Stages : \E map, off :
          \/ state' = [state EXCEPT !.stage = stage]
          \/ state' = [state EXCEPT !.stage = stage, !.layerMap = map]
          \/ state' = [state EXCEPT !.stage = stage, !.excluded = off]
    BY <1>4 DEF Build, MakesPlots, GraphTimer, MapRead, NoMapRead, Stages
  <2>2. PICK stage \in Stages : \E map, off :
          \/ state' = [state EXCEPT !.stage = stage]
          \/ state' = [state EXCEPT !.stage = stage, !.layerMap = map]
          \/ state' = [state EXCEPT !.stage = stage, !.excluded = off]
    BY <2>1
  <2>3. PICK map, off :
          \/ state' = [state EXCEPT !.stage = stage]
          \/ state' = [state EXCEPT !.stage = stage, !.layerMap = map]
          \/ state' = [state EXCEPT !.stage = stage, !.excluded = off]
    BY <2>2
  <2> DEFINE staged == [state EXCEPT !.stage = stage]
  <2>4. Kept(state, staged)
    BY <1>0, StageSet
  <2>5. \/ state' = staged
        \/ state' = [staged EXCEPT !.layerMap = map]
        \/ state' = [staged EXCEPT !.excluded = off]
    BY <2>3
  <2> HIDE DEF staged
  <2>6. state' = staged \/ Kept(staged, state')
    BY <2>4, <2>5, OtherSet DEF Kept
  <2>7. QED
    BY <2>4, <2>6 DEF Kept
<1>5. QED
  BY <1>1, <1>2, <1>3, <1>4 DEF StaysPut, Resumes, Pauses, Expires, Write, Serve

LEMMA NextState == ScopeInv /\ ScopeStep => StateInv'
<1> SUFFICES ASSUME ScopeInv, ScopeStep
             PROVE  StateInv'
  OBVIOUS
<1>0. /\ StateInv /\ state \in StateRecord(state) /\ newest \in Nat /\ Len(events) \in Nat
      /\ newest <= Len(events) /\ losses \in Nat
      /\ state.lastHeader \in Nat /\ state.shown \in Nat
      /\ state.lastHeader <= newest /\ state.shown <= newest
  BY DEF ScopeInv, StateInv, StateRecord
<1>1. ASSUME NEW i \in Slots, Arrive(i)
      PROVE  StateInv'
  <2>1. UNCHANGED <<events, newest, losses>>
    BY <1>1, Arriving DEF buffer
  <2>2. /\ state' \in StateRecord(state') /\ state'.lastHeader <= newest /\ state'.shown <= newest
    BY <1>0, <1>1, Arriving
  <2>3. QED
    BY <1>0, <2>1, <2>2 DEF StateInv, StateRecord
<1>2. CASE Unload
  <2>1. UNCHANGED <<events, newest, losses>> /\ state' = FreshState
    BY <1>2 DEF Unload, buffer
  <2>2. state' \in StateRecord(state') /\ state'.lastHeader = 0 /\ state'.shown = 0
    BY <2>1, FreshStateIsAState
  <2>3. QED
    BY <1>0, <2>1, <2>2 DEF StateInv, StateRecord
<1>3. ASSUME Kept(state, state'), newest' \in {newest, newest + 1}, newest' <= Len(events),
             losses' \in Nat, events' = events
      PROVE  StateInv'
  <2>1. state.lastHeader <= newest' /\ state.shown <= newest' /\ newest' \in Nat
    BY <1>0, <1>3
  <2>2. state' \in StateRecord(state') /\ state'.lastHeader = state.lastHeader
        /\ state'.shown = state.shown
    BY <1>3 DEF Kept
  <2>3. QED
    BY <1>0, <1>3, <2>1, <2>2 DEF StateInv, StateRecord
<1>4. CASE Write
  <2>1. newest' = newest + 1 /\ newest < Len(events) /\ UNCHANGED <<events, losses>>
    BY <1>4 DEF Write
  <2>2. newest' <= Len(events)
    BY <1>0, <2>1
  <2>3. QED
    BY <1>0, <1>3, <1>4, <2>1, <2>2, StateKept
<1>5. ASSUME NEW i \in Slots, Fail(i)
      PROVE  StateInv'
  <2>1. losses > 0 /\ losses' = losses - 1 /\ UNCHANGED <<events, newest>>
    BY <1>5 DEF Fail
  <2>2. losses' \in Nat
    BY <1>0, <2>1
  <2>3. QED
    BY <1>0, <1>3, <1>5, <2>1, <2>2, StateKept
<1>6. CASE Build \/ StaysPut \/ MakesPlots \/ Resumes \/ Pauses \/ Expires
           \/ (\E i \in Slots : Serve(i)) \/ \E ch \in state.known : Toggle(ch)
  <2>1. UNCHANGED <<events, newest, losses>>
    BY <1>6 DEF Build, StaysPut, MakesPlots, GraphTimer, MapRead, NoMapRead, Plots, Resumes,
                Pauses, Expires, Serve, Toggle, buffer
  <2>2. Kept(state, state')
    BY <1>0, <1>6, StateKept
  <2>3. QED
    BY <1>0, <1>3, <2>1, <2>2
<1>7. QED
  BY <1>1, <1>2, <1>4, <1>5, <1>6 DEF ScopeStep

LEMMA NextRequests == ScopeInv /\ ScopeStep => RequestsInv'
<1> SUFFICES ASSUME ScopeInv, ScopeStep
             PROVE  RequestsInv'
  OBVIOUS
<1>0. /\ LoopInv /\ StateInv /\ RequestsInv /\ state \in StateRecord(state) /\ newest \in Nat
      /\ state.lastHeader \in Nat /\ state.lastHeader <= newest
      /\ requests \in [Slots -> Request \union {None}]
  BY DEF ScopeInv, StateInv, StateRecord, LoopInv
<1>1. ASSUME newest' = newest,
             \A i \in UnderWay' : \/ i \in UnderWay /\ requests'[i] = requests[i]
                                  \/ requests'[i] = Fresh
      PROVE  RequestsInv'
  <2>1. \A i \in UnderWay : requests[i].since <= newest
                            /\ (requests[i].reply # None => requests[i].reply <= newest)
    BY <1>0 DEF RequestsInv
  <2>2. Fresh.since <= newest /\ Fresh.reply = None
    BY <1>0, FreshIsARequest
  <2>3. QED
    BY <1>1, <2>1, <2>2 DEF RequestsInv
<1>2. CASE Build \/ Resumes \/ Expires
  <2>1. MaySend /\ newest' = newest
    BY <1>2 DEF Build, Resumes, Expires, buffer
  <2>2. \/ requests' = requests /\ UnderWay' = UnderWay
        \/ \E i \in Slots \ UnderWay : Sends(i)
    BY <1>0, <2>1, Sending
  <2>3. CASE \E i \in Slots \ UnderWay : Sends(i)
    BY <1>0, <1>1, <2>1, <2>3 DEF Sends, UnderWay
  <2>4. QED
    BY <1>1, <2>1, <2>2, <2>3
<1>3. CASE Pauses \/ StaysPut \/ MakesPlots \/ \E ch \in state.known : Toggle(ch)
  <2>1. requests' = requests /\ newest' = newest
    BY <1>3 DEF Pauses, StaysPut, MakesPlots, GraphTimer, MapRead, NoMapRead, Plots, Toggle, buffer
  <2>2. UnderWay' = UnderWay
    BY <2>1 DEF UnderWay, Slots
  <2>3. QED
    BY <1>1, <2>1, <2>2
<1>4. CASE Unload
  <2>1. UnderWay' = {}
    BY <1>4 DEF Unload, NoRequests, UnderWay, Slots
  <2>2. QED
    BY <2>1 DEF RequestsInv
<1>5. ASSUME NEW i \in Slots, Serve(i)
      PROVE  RequestsInv'
  <2>1. /\ newest' = newest /\ UnderWay' = UnderWay /\ i \in UnderWay
        /\ requests' = [requests EXCEPT ![i] = Answer(i)]
        /\ Answer(i).reply \in {0, newest} /\ Answer(i).since = requests[i].since
    BY <1>0, <1>5, Serving DEF Serve, buffer
  <2>2. /\ requests'[i] = Answer(i) /\ Answer(i).reply <= newest
        /\ \A j \in UnderWay \ {i} : requests'[j] = requests[j]
    BY <1>0, <2>1 DEF UnderWay
  <2>3. QED
    BY <1>0, <2>1, <2>2 DEF RequestsInv
<1>6. ASSUME NEW i \in Slots, Arrive(i) \/ Fail(i)
      PROVE  RequestsInv'
  <2>1. i \in UnderWay /\ Ends(i) /\ newest' = newest
    BY <1>6 DEF Arrive, Fail, buffer
  <2>2. UnderWay' = UnderWay \ {i} /\ requests' = [requests EXCEPT ![i] = None]
    BY <1>0, <2>1, Ending
  <2>3. \A j \in UnderWay' : j \in UnderWay /\ requests'[j] = requests[j]
    BY <1>0, <2>2 DEF UnderWay
  <2>4. QED
    BY <1>1, <2>1, <2>3
<1>7. CASE Write
  <2>1. requests' = requests /\ newest' = newest + 1
    BY <1>7 DEF Write
  <2>2. UnderWay' = UnderWay
    BY <2>1 DEF UnderWay, Slots
  <2>3. \A n \in Nat : n <= newest => n <= newest'
    BY <1>0, <2>1
  <2>4. QED
    BY <1>0, <2>1, <2>2, <2>3, Replies DEF RequestsInv
<1>8. QED
  BY <1>2, <1>3, <1>4, <1>5, <1>6, <1>7 DEF ScopeStep

LEMMA NextScope == ScopeInv /\ [Next]_vars => ScopeInv'
BY NextSteps, NextLoop, NextState, NextRequests DEF ScopeInv

LEMMA InitScope == Init => ScopeInv
<1> SUFFICES ASSUME Init
             PROVE  ScopeInv
  OBVIOUS
<1>1. /\ requests = NoRequests /\ Poller!Init /\ state = FreshState /\ newest = 0
      /\ Len(events) \in Nat /\ losses \in Nat
  BY WorldsAssumption DEF Init, ScopeInit
<1>2. LoopProofs!Begun
  BY <1>1 DEF Poller!Init, LoopProofs!Begun
<1>3. UnderWay = {}
  BY <1>1 DEF UnderWay, NoRequests
<1>4. LoopInv
  BY <1>1, <1>2, LoopProofs!InitIInv DEF LoopInv, NoRequests
<1>5. StateInv
  BY <1>1, FreshStateIsAState DEF StateInv
<1>6. QED
  BY <1>3, <1>4, <1>5 DEF ScopeInv, RequestsInv

\* The Scope tab's loop never stalls: any order of building, pausing, hiding, loading
\* again and answering, and any number of requests.
THEOREM LoopNeverStalls == Spec => []NeverStalls
<1>1. ScopeInv => NeverStalls
  BY DEF ScopeInv, LoopInv, NeverStalls, LoopProofs!IInv, LoopProofs!NeverStalls,
         LoopProofs!Chains, Poller!NeverStalls, Poller!Chains
<1>2. QED
  BY <1>1, InitScope, NextScope, PTL DEF Spec

\* The tab implements its loop: whatever is built, served, decoded, clicked or loaded
\* again in between, its timeouts and requests behave as those of ScopePoll.
THEOREM TabImplementsPoller == Spec => Poller!Init /\ [][Poller!Next]_(Poller!vars)
<1>1. Init => Poller!Init
  BY DEF Init, ScopeInit
<1>2. ScopeInv /\ [Next]_vars => [Poller!Next]_(Poller!vars)
  <2>1. PollerStep => Poller!Next
    BY DEF PollerStep, Poller!Next, Poller!Loop
  <2>2. UNCHANGED <<loop, Cardinality(UnderWay)>> => UNCHANGED Poller!vars
    BY DEF loop, Poller!vars
  <2>3. QED
    BY <2>1, <2>2, NextSteps, LoopMoves
<1>3. QED
  BY <1>1, <1>2, InitScope, NextScope, PTL DEF Spec

\* In a hidden page, or paused, the tab asks for nothing, and what is still owed runs
\* down: the safety half of FallsSilent.
THEOREM SilenceRunsDown == Spec => [][LoopProofs!RunsDown]_vars
<1>1. ScopeInv => LoopProofs!IInv
  BY DEF ScopeInv, LoopInv
<1>2. ScopeInv /\ [Next]_vars => LoopProofs!RunsDown
  BY <1>1, NextSteps, LoopMoves, PollerMoves, LoopProofs!ScopeStepRunsDown
<1>3. QED
  BY <1>2, InitScope, NextScope, PTL DEF Spec

-----------------------------------------------------------------------------
(* The tab among the tabs. *)

\* The tab has its tiles once it was shown; until then nothing runs.  Plots that are
\* still to be made are made in the tab that is shown, unless it was left.
TabInv ==
  /\ state.stage = "closed" <=> Scope \notin page.built
  /\ state.stage = "closed" => ~ running /\ timers = 0 /\ UnderWay = {} /\ state.shown = 0
  /\ blank => left
  /\ Pending /\ page.open # Scope => left

Inv == PageInv /\ ScopeInv /\ TabInv

\* What building the tab and showing another do.
LEMMA BuildOpens ==
  ASSUME StateInv, Build
  PROVE  state'.stage = "opened" /\ UNCHANGED <<blank, left>>
<1>1. PICK off : state' = [state EXCEPT !.stage = "opened", !.excluded = off]
  BY DEF Build
<1>2. state \in StateRecord(state)
  BY DEF StateInv
<1>3. state'.stage = "opened"
  BY <1>1, <1>2 DEF StateRecord
<1>4. QED
  BY <1>3 DEF Build

LEMMA ShowsKeeps ==
  ASSUME Inv, NEW tab \in Tabs, Shows(tab),
         page'.built = page.built \union {tab}, page'.open = tab
  PROVE  TabInv'
<1>1. CASE tab = Scope /\ Scope \notin page.built
  <2>1. state'.stage = "opened" /\ UNCHANGED <<blank, left>>
    BY <1>1, BuildOpens DEF Shows, Inv, ScopeInv
  <2>2. QED
    BY <1>1, <2>1 DEF TabInv, Inv, Pending
<1>2. CASE ~ (tab = Scope /\ Scope \notin page.built)
  <2>1. /\ left' = (left \/ (Pending /\ tab # Scope))
        /\ UNCHANGED <<running, timers, requests, state, blank>>
    BY <1>2 DEF Shows, loop
  <2>2. UnderWay' = UnderWay /\ Pending' = Pending
    BY <2>1 DEF UnderWay, Slots, Pending
  <2>3. Scope \in page'.built <=> Scope \in page.built
    BY <1>2
  <2>4. (blank' => left') /\ (Pending' /\ page'.open # Scope => left')
    BY <2>1, <2>2 DEF Inv, TabInv
  <2>5. QED
    BY <2>1, <2>2, <2>3, <2>4 DEF Inv, TabInv
<1>3. QED
  BY <1>1, <1>2

\* A tab that is not built has no request to answer and no timeout to expire.
LEMMA ClosedStaysClosed ==
  ASSUME Inv, state.stage = "closed", ScopeNext
  PROVE  /\ state'.stage = "closed" /\ state'.shown = 0
         /\ ~ running' /\ timers' = 0 /\ UnderWay' = {}
<1>0. /\ ~ running /\ timers = 0 /\ UnderWay = {} /\ state.shown = 0
      /\ LoopInv /\ StateInv /\ state \in StateRecord(state)
  BY DEF Inv, TabInv, ScopeInv, StateInv
<1>1. CASE Resumes
  <2>1. Poller!Show /\ MaySend /\ state' = state
    BY <1>0, <1>1 DEF Resumes
  <2>2. running' = running /\ timers' = timers /\ Cardinality(UnderWay)' = Cardinality(UnderWay)
    BY <1>0, <2>1 DEF Poller!Show
  <2>3. Cardinality(UnderWay) = 0 /\ Cardinality(UnderWay) \in Nat
    BY <1>0, Counting
  <2>4. requests' = requests /\ UnderWay' = UnderWay
    BY <1>0, <2>1, <2>2, <2>3, Sending
  <2>5. QED
    BY <1>0, <2>1, <2>2, <2>4
<1>2. CASE Pauses
  <2>1. running' = running /\ timers' = timers /\ requests' = requests /\ state' = state
    BY <1>0, <1>2 DEF Pauses, Poller!Pause, Poller!Hide
  <2>2. UnderWay' = UnderWay
    BY <2>1 DEF UnderWay, Slots
  <2>3. QED
    BY <1>0, <2>1, <2>2
<1>3. CASE Expires
  BY <1>0, <1>3 DEF Expires, Poller!Fire
<1>4. CASE MakesPlots
  BY <1>4 DEF MakesPlots, GraphTimer, MapRead, NoMapRead
<1>5. ASSUME NEW i \in Slots, Serve(i) \/ Settle(i)
      PROVE  FALSE
  BY <1>0, <1>5 DEF Serve, Settle, Arrive, Fail
<1>6. ASSUME NEW ch \in state.known, Toggle(ch)
      PROVE  state'.stage = "closed" /\ state'.shown = 0
             /\ UNCHANGED <<running, timers, requests>>
  <2>1. PICK off : state' = [state EXCEPT !.excluded = off]
    BY <1>6 DEF Toggle
  <2>2. Kept(state, state') /\ state'.stage = state.stage
    BY <1>0, <2>1, OtherSet
  <2>3. QED
    BY <1>0, <1>6, <2>2 DEF Kept, Toggle, loop
<1>7. CASE Write
  BY <1>0, <1>7 DEF Write, loop, UnderWay, Slots
<1>8. CASE \E ch \in state.known : Toggle(ch)
  BY <1>0, <1>6, <1>8 DEF UnderWay, Slots
<1>9. QED
  BY <1>1, <1>2, <1>3, <1>4, <1>5, <1>7, <1>8 DEF ScopeNext

\* What is done in a tab that is built does not close it.
LEMMA BuiltStaysBuilt ==
  ASSUME Inv, state.stage # "closed", ScopeNext, UNCHANGED pageVars
  PROVE  /\ state'.stage # "closed"
         /\ Pending' => Pending
         /\ (blank' => left')
         /\ left' = left
<1>0. /\ ScopeInv /\ StateInv /\ state \in StateRecord(state) /\ (blank => left)
      /\ page.open # Scope /\ Pending => left
  BY DEF Inv, TabInv, ScopeInv, StateInv
<1>1. CASE Resumes \/ Pauses \/ Expires \/ Write \/ \E i \in Slots : Serve(i)
  <2>1. UNCHANGED <<state, blank, left>>
    BY <1>1 DEF Resumes, Pauses, Expires, Write, Serve
  <2>2. QED
    BY <1>0, <2>1 DEF Pending
<1>2. ASSUME NEW i \in Slots, Arrive(i)
      PROVE  state'.stage = state.stage /\ UNCHANGED <<blank, left>>
  BY <1>0, <1>2, Arriving
<1>3. ASSUME NEW i \in Slots, Fail(i)
      PROVE  state'.stage = state.stage /\ UNCHANGED <<blank, left>>
  <2>1. state' = [state EXCEPT !.error = TRUE] /\ UNCHANGED <<blank, left>>
    BY <1>3 DEF Fail
  <2>2. QED
    BY <1>0, <2>1, OtherSet
<1>4. ASSUME NEW ch \in state.known, Toggle(ch)
      PROVE  state'.stage = state.stage /\ UNCHANGED <<blank, left>>
  <2>1. UNCHANGED <<blank, left>> /\ \E off : state' = [state EXCEPT !.excluded = off]
    BY <1>4 DEF Toggle
  <2>2. PICK off : state' = [state EXCEPT !.excluded = off]
    BY <2>1
  <2>3. QED
    BY <1>0, <2>1, <2>2, OtherSet
<1>5. CASE MakesPlots
  <2>1. Pending /\ left' = left /\ blank' \in {blank, blank \/ ~ Shown}
    BY <1>5 DEF MakesPlots, GraphTimer, MapRead, NoMapRead, Plots, Pending
  <2>2. ~ Shown => left
    BY <1>0, <2>1 DEF Shown
  <2>3. state'.stage # "closed"
    <3>1. CASE \E stage \in {"graph", "mapped", "unmapped"} :
                 state' = [state EXCEPT !.stage = stage]
      BY <1>0, <3>1 DEF StateRecord
    <3>2. CASE \E stage \in {"graph", "mapped", "unmapped"} : \E map :
                 state' = [state EXCEPT !.stage = stage, !.layerMap = map]
      BY <1>0, <3>2 DEF StateRecord
    <3>3. QED
      BY <1>5, <3>1, <3>2 DEF MakesPlots, GraphTimer, MapRead, NoMapRead
  <2>4. QED
    BY <1>0, <2>1, <2>2, <2>3
<1>6. QED
  BY <1>0, <1>1, <1>2, <1>3, <1>4, <1>5 DEF ScopeNext, Settle, Pending

LEMMA NextTab == Inv /\ [Next]_vars => TabInv'
<1> SUFFICES ASSUME Inv, [Next]_vars
             PROVE  TabInv'
  OBVIOUS
<1>0. PageInv /\ ScopeInv /\ StateInv /\ TabInv
  BY DEF Inv, ScopeInv
<1>1. CASE ReadCommon /\ UNCHANGED scopeVars
  <2>1. page.built = {} /\ page'.built = {}
    BY <1>0, <1>1, ReadCommonKeeps DEF ReadCommon, PageInv, Blank
  <2>2. UNCHANGED <<running, timers, requests, state, blank, left>>
    BY <1>1 DEF scopeVars, loop
  <2>3. UnderWay' = UnderWay /\ Pending' = Pending /\ state.stage = "closed"
    BY <1>0, <2>1, <2>2 DEF UnderWay, Slots, Pending, TabInv
  <2>4. QED
    BY <1>0, <2>1, <2>2, <2>3 DEF TabInv, Pending
<1>2. CASE ReadOwn /\ Shows(OpeningTab)
  <2>1. /\ page.built = {} /\ page'.built = page.built \union {OpeningTab}
        /\ page'.open = OpeningTab
    BY <1>0, <1>2, ReadOwnKeeps
  <2>2. OpeningTab \in Tabs
    BY <1>0, OpeningTabIsATab DEF PageInv
  <2>3. QED
    BY <1>2, <2>1, <2>2, ShowsKeeps
<1>3. CASE Probed \/ UNCHANGED vars
  <2>1. page'.built = page.built /\ page'.open = page.open
    BY <1>0, <1>3, ProbeAnswersKeeps DEF Probed, vars, pageVars
  <2>2. UNCHANGED <<running, timers, requests, state, blank, left>>
    BY <1>3 DEF Probed, vars, scopeVars, loop
  <2>3. UnderWay' = UnderWay /\ Pending' = Pending
    BY <2>2 DEF UnderWay, Slots, Pending
  <2>4. QED
    BY <1>0, <2>1, <2>2, <2>3 DEF TabInv
<1>4. CASE Reload
  <2>1. page'.built = {}
    BY <1>0, <1>4, LoadAgainKeeps DEF Reload
  <2>2. /\ running' = FALSE /\ timers' = 0 /\ requests' = NoRequests /\ state' = FreshState
        /\ blank' = FALSE /\ left' = FALSE
    BY <1>4 DEF Reload, Unload, Poller!Unload
  <2>3. UnderWay' = {}
    BY <2>2 DEF UnderWay, Slots, NoRequests
  <2>4. state'.stage = "closed" /\ state'.shown = 0 /\ ~ Pending'
    BY <2>2, FreshStateIsAState DEF Pending
  <2>5. QED
    BY <2>1, <2>2, <2>3, <2>4 DEF TabInv
<1>5. ASSUME NEW tab \in Tabs, Click(tab)
      PROVE  TabInv'
  BY <1>0, <1>5, ClickTabKeeps, ShowsKeeps DEF Click
<1>6. CASE ScopeNext /\ UNCHANGED pageVars
  <2>1. page' = page
    BY <1>6 DEF pageVars
  <2>2. CASE state.stage = "closed"
    <3>1. /\ state'.stage = "closed" /\ state'.shown = 0
          /\ ~ running' /\ timers' = 0 /\ UnderWay' = {}
      BY <1>6, <2>2, ClosedStaysClosed
    <3>2. blank' => left'
      <4>1. UNCHANGED <<blank, left>>
        BY <1>6, <2>2 DEF ScopeNext, MakesPlots, GraphTimer, MapRead, NoMapRead, Resumes,
             Pauses, Expires, Serve, Settle, Arrive, Fail, Toggle, Write
      <4>2. QED
        BY <1>0, <4>1 DEF TabInv
    <3>3. QED
      BY <1>0, <2>1, <2>2, <3>1, <3>2 DEF TabInv, Pending
  <2>3. CASE state.stage # "closed"
    <3>1. /\ state'.stage # "closed" /\ (Pending' => Pending)
          /\ (blank' => left') /\ left' = left
      BY <1>6, <2>3, BuiltStaysBuilt
    <3>2. Scope \in page'.built
      BY <1>0, <2>1, <2>3 DEF TabInv
    <3>3. Pending' /\ page'.open # Scope => left'
      BY <1>0, <2>1, <3>1 DEF TabInv
    <3>4. QED
      BY <3>1, <3>2, <3>3 DEF TabInv
  <2>4. QED
    BY <2>2, <2>3
<1>7. QED
  BY <1>1, <1>2, <1>3, <1>4, <1>5, <1>6 DEF Next, Boots

LEMMA InitInv == Init => Inv
<1> SUFFICES ASSUME Init
             PROVE  Inv
  OBVIOUS
<1>1. /\ page = FreshPage /\ state = FreshState /\ requests = NoRequests
      /\ running = FALSE /\ timers = 0 /\ blank = FALSE
  BY DEF Init, PageInit, ScopeInit, Poller!Init
<1>2. page.built = {} /\ state.stage = "closed" /\ state.shown = 0 /\ ~ Pending
  BY <1>1, FreshPageKeeps, FreshStateIsAState DEF Pending
<1>3. UnderWay = {}
  BY <1>1 DEF UnderWay, NoRequests
<1>4. TabInv
  BY <1>1, <1>2, <1>3 DEF TabInv
<1>5. QED
  BY <1>4, PageInitInv, InitScope DEF Inv

LEMMA NextInv == Inv /\ [Next]_vars => Inv'
BY PageNext, NextScope, NextTab DEF Inv

\* Type correctness, for any catalogue, events and number of chains.
THEOREM TypeCorrect == Spec => []TypeOK
<1>1. Inv => TypeOK
  <2> SUFFICES ASSUME Inv
               PROVE  TypeOK
    OBVIOUS
  <2>0. PageInv /\ LoopInv /\ StateInv /\ RequestsInv /\ TabInv
    BY DEF Inv, ScopeInv
  <2>1. PageTypeOK
    <3>1. OfPage \subseteq Tabs
      BY <2>0, OpeningTabIsATab DEF PageInv
    <3>2. page \in PageRecord(page.cfg)
      BY <2>0 DEF PageInv
    <3>3. QED
      BY <2>0, <3>1, <3>2 DEF PageInv, PageRecord, PageTypeOK
  <2>2. Poller!TypeOK
    BY <2>0 DEF LoopInv, LoopProofs!IInv, LoopProofs!TypeOK, Poller!TypeOK
  <2>3. \A i \in UnderWay : /\ requests[i].since \in 0 .. newest
                            /\ requests[i].reply \in {None} \union 0 .. newest
    <3> SUFFICES ASSUME NEW i \in UnderWay
                 PROVE  /\ requests[i].since \in 0 .. newest
                        /\ requests[i].reply \in {None} \union 0 .. newest
      OBVIOUS
    <3>1. /\ requests[i].since \in Nat /\ requests[i].since <= newest
          /\ requests[i].reply # None =>
               requests[i].reply \in Nat /\ requests[i].reply <= newest
      BY <2>0, Replies DEF RequestsInv
    <3>2. QED
      BY <2>0, <3>1 DEF StateInv
  <2>4. /\ state.stage \in Stages /\ state.lastHeader \in Nat /\ state.shown \in Nat
        /\ newest \in Nat /\ newest <= Len(events) /\ Len(events) \in Nat /\ losses \in Nat
        /\ state.lastHeader <= newest /\ state.shown <= newest
    BY <2>0 DEF StateInv, StateRecord
  <2>5. state.lastHeader \in 0 .. newest /\ state.shown \in 0 .. newest
        /\ newest \in 0 .. Len(events)
    BY <2>4
  <2>6. state.stage = "closed" <=> Scope \notin page.built
    BY <2>0 DEF TabInv
  <2>7. QED
    BY <2>1, <2>2, <2>3, <2>4, <2>5, <2>6 DEF TypeOK, Stages
<1>2. QED
  BY <1>1, InitInv, NextInv, PTL DEF Spec

\* Plots are made in a tab that has a size, unless it was left before they were.
THEOREM PlotsAreMadeShown == Spec => []PlotsHaveASize
<1>1. Inv => PlotsHaveASize
  BY DEF Inv, TabInv, PlotsHaveASize
<1>2. QED
  BY <1>1, InitInv, NextInv, PTL DEF Spec

-----------------------------------------------------------------------------
\* Unless requests were overlapped, there is one chain, and no reply under way is
\* older than what is shown.
OneChain == ~ overlapped => Cardinality(UnderWay) + timers <= 1

OnTime == ~ overlapped =>
  \A i \in UnderWay :
    requests[i].reply # None /\ requests[i].reply # 0 => state.shown <= requests[i].reply

InOrder == OneChain /\ OnTime

LEMMA NextOneChain == Inv /\ OneChain /\ ScopeStep => OneChain'
<1> SUFFICES ASSUME Inv, OneChain, ScopeStep, ~ overlapped'
             PROVE  (Cardinality(UnderWay) + timers <= 1)'
  BY DEF OneChain
<1>0. /\ LoopInv /\ StateInv /\ ScopeInv /\ TabInv /\ state \in StateRecord(state)
      /\ newest \in Nat
      /\ timers \in Nat /\ Cardinality(UnderWay) \in Nat
  BY Counting DEF Inv, ScopeInv, StateInv, LoopInv, LoopProofs!IInv, LoopProofs!TypeOK
<1>1. CASE Unload
  <2>1. timers' = 0 /\ requests' = NoRequests
    BY <1>1 DEF Unload, Poller!Unload
  <2>2. UnderWay' = {}
    BY <2>1 DEF UnderWay, NoRequests, Slots
  <2>3. Cardinality(UnderWay)' = 0
    BY <2>2, FS_EmptySet
  <2>4. QED
    BY <2>1, <2>3
<1>2. CASE Build
  <2>1. UnderWay = {} /\ timers = 0 /\ Cardinality(UnderWay) = 0
    BY <1>0, <1>2, Counting DEF Build, TabInv
  <2>2. timers' = timers
    BY <1>2 DEF Build, Poller!Resume, Poller!Tick
  <2>3. Cardinality(UnderWay)' \in {0, 1}
    BY <1>0, <1>2, <2>1, Sending DEF Build
  <2>4. QED
    BY <2>1, <2>2, <2>3
<1>3. ASSUME ~ Unload, ~ Build
      PROVE  ~ overlapped
  BY <1>3 DEF ScopeStep, StaysPut, MakesPlots, GraphTimer, MapRead, NoMapRead, Plots, Resumes,
              Overlaps, Pauses, Expires, Serve, Arrive, Fail, Toggle, Write
<1>4. CASE Resumes
  <2>1. Cardinality(UnderWay) + timers <= 1
    BY <1>3, <1>4 DEF OneChain, Resumes, Overlaps
  <2>2. timers' = timers
    BY <1>4 DEF Resumes, Poller!Show, Poller!Resume, Poller!Tick
  <2>3. CASE requests' = requests
    <3>1. UnderWay' = UnderWay
      BY <2>3 DEF UnderWay, Slots
    <3>2. QED
      BY <2>1, <2>2, <3>1
  <2>4. CASE requests' # requests
    <3>1. UnderWay = {} /\ ~ timers > 0
      BY <1>4, <2>4 DEF Resumes, Overlaps
    <3>2. Cardinality(UnderWay) = 0 /\ timers = 0
      BY <1>0, <3>1, Counting
    <3>3. Cardinality(UnderWay)' \in {0, 1}
      BY <1>0, <1>4, <3>2, Sending DEF Resumes
    <3>4. QED
      BY <2>2, <3>2, <3>3
  <2>5. QED
    BY <2>3, <2>4
<1>5. CASE Expires
  <2>1. UNCHANGED overlapped /\ timers > 0 /\ timers' = timers - 1 /\ MaySend
    BY <1>5 DEF Expires, Poller!Fire, Poller!Tick
  <2>2. Cardinality(UnderWay) + timers <= 1
    BY <2>1 DEF OneChain
  <2>3. Cardinality(UnderWay)' \in {Cardinality(UnderWay), Cardinality(UnderWay) + 1}
    BY <1>0, <2>1, Sending
  <2>4. QED
    BY <1>0, <2>1, <2>2, <2>3
<1>6. CASE Pauses
  <2>1. UNCHANGED <<overlapped, timers, requests>>
    BY <1>6 DEF Pauses, Poller!Pause, Poller!Hide
  <2>2. UnderWay' = UnderWay
    BY <2>1 DEF UnderWay, Slots
  <2>3. QED
    BY <2>1, <2>2 DEF OneChain
<1>7. CASE StaysPut \/ MakesPlots \/ Write \/ \E ch \in state.known : Toggle(ch)
  <2>1. UNCHANGED <<overlapped, timers, requests>>
    BY <1>7 DEF StaysPut, MakesPlots, GraphTimer, MapRead, NoMapRead, Plots, Write, Toggle, loop
  <2>2. UnderWay' = UnderWay
    BY <2>1 DEF UnderWay, Slots
  <2>3. QED
    BY <2>1, <2>2 DEF OneChain
<1>8. ASSUME NEW i \in Slots, Serve(i)
      PROVE  (Cardinality(UnderWay) + timers <= 1)'
  <2>1. UNCHANGED <<overlapped, timers>>
    BY <1>8 DEF Serve, loop
  <2>2. Cardinality(UnderWay)' = Cardinality(UnderWay)
    BY <1>0, <1>8, Serving
  <2>3. QED
    BY <2>1, <2>2 DEF OneChain
<1>9. ASSUME NEW i \in Slots, Arrive(i) \/ Fail(i)
      PROVE  (Cardinality(UnderWay) + timers <= 1)'
  <2>1. i \in UnderWay /\ Ends(i) /\ UNCHANGED overlapped
    BY <1>9 DEF Arrive, Fail
  <2>2. Cardinality(UnderWay)' = Cardinality(UnderWay) - 1 /\ Poller!Answer
    BY <1>0, <2>1, Ending
  <2>3. timers' \in {timers, timers + 1}
    BY <2>2 DEF Poller!Answer
  <2>4. QED
    BY <1>0, <2>1, <2>2, <2>3 DEF OneChain
<1>10. QED
  BY <1>1, <1>2, <1>4, <1>5, <1>6, <1>7, <1>8, <1>9 DEF ScopeStep

\* What is shown does not change but by a reload and by a reply, which is the only one.
LEMMA Ordered ==
  ASSUME Inv, InOrder, ScopeStep, ~ overlapped', state'.stage # "closed"
  PROVE  state'.shown >= state.shown
<1>0. /\ StateInv /\ ScopeInv /\ TabInv /\ state.shown \in Nat
  BY DEF Inv, ScopeInv, StateInv, StateRecord
<1>1. CASE Unload
  BY <1>1, FreshStateIsAState DEF Unload
<1>2. ASSUME NEW i \in Slots, Arrive(i)
      PROVE  state'.shown >= state.shown
  <2>1. /\ i \in UnderWay /\ requests[i].reply # None /\ requests[i].reply \in Nat
        /\ ~ overlapped
        /\ \/ state'.shown = state.shown
           \/ requests[i].reply # 0 /\ state'.shown = requests[i].reply
    BY <1>0, <1>2, Arriving
  <2>2. QED
    BY <1>0, <2>1 DEF InOrder, OnTime
<1>3. CASE Kept(state, state')
  BY <1>0, <1>3 DEF Kept
<1>4. QED
  BY <1>0, <1>1, <1>2, <1>3, StateKept DEF ScopeStep

LEMMA NextOnTime == Inv /\ InOrder /\ ScopeStep => OnTime'
<1> SUFFICES ASSUME Inv, InOrder, ScopeStep, ~ overlapped', NEW i \in UnderWay',
                    requests'[i].reply # None, requests'[i].reply # 0
             PROVE  state'.shown <= requests'[i].reply
  BY DEF OnTime
<1>0. /\ LoopInv /\ StateInv /\ ScopeInv /\ TabInv /\ RequestsInv
      /\ state \in StateRecord(state) /\ newest \in Nat /\ state.shown \in Nat
      /\ requests \in [Slots -> Request \union {None}] /\ state.shown <= newest
      /\ timers \in Nat /\ Cardinality(UnderWay) \in Nat
  BY Counting DEF Inv, ScopeInv, StateInv, StateRecord, LoopInv, LoopProofs!IInv, LoopProofs!TypeOK
<1>1. CASE Unload
  BY <1>1 DEF Unload, UnderWay, NoRequests, Slots
<1>2. ASSUME ~ Unload, ~ Build
      PROVE  ~ overlapped
  BY <1>2 DEF ScopeStep, StaysPut, MakesPlots, GraphTimer, MapRead, NoMapRead, Plots, Resumes,
              Overlaps, Pauses, Expires, Serve, Arrive, Fail, Toggle, Write
<1>3. ASSUME i \in UnderWay, requests'[i] = requests[i], ~ overlapped,
             Kept(state, state')
      PROVE  state'.shown <= requests'[i].reply
  <2>1. state.shown <= requests[i].reply
    BY <1>3 DEF InOrder, OnTime
  <2>2. QED
    BY <1>3, <2>1 DEF Kept
<1>4. CASE Build \/ Resumes \/ Expires
  <2>1. MaySend /\ Kept(state, state')
    BY <1>0, <1>4, StateKept DEF Build, Resumes, Expires
  <2>2. i \in UnderWay /\ requests'[i] = requests[i]
    <3>1. CASE requests' = requests /\ UnderWay' = UnderWay
      BY <3>1
    <3>2. CASE \E j \in Slots \ UnderWay : Sends(j)
      <4>1. PICK j \in Slots \ UnderWay : Sends(j)
        BY <3>2
      <4>2. requests'[j] = Fresh /\ \A k \in UnderWay : requests'[k] = requests[k]
        BY <1>0, <4>1 DEF Sends, UnderWay
      <4>3. i # j
        BY <1>0, <4>2, FreshIsARequest
      <4>4. QED
        BY <4>1, <4>2, <4>3 DEF Sends
    <3>3. QED
      BY <1>0, <2>1, <3>1, <3>2, Sending
  <2>3. CASE Build
    BY <1>0, <2>2, <2>3 DEF Build, TabInv
  <2>4. CASE Resumes \/ Expires
    <3>1. ~ overlapped
      BY <2>4 DEF Resumes, Overlaps, Expires
    <3>2. QED
      BY <1>3, <2>1, <2>2, <3>1
  <2>5. QED
    BY <1>4, <2>3, <2>4
<1>5. CASE StaysPut \/ Pauses \/ MakesPlots \/ Write \/ \E ch \in state.known : Toggle(ch)
  <2>1. UNCHANGED <<overlapped, requests>>
    BY <1>5 DEF StaysPut, Pauses, MakesPlots, GraphTimer, MapRead, NoMapRead, Plots, Write, Toggle
  <2>2. UnderWay' = UnderWay
    BY <2>1 DEF UnderWay, Slots
  <2>3. Kept(state, state')
    BY <1>0, <1>5, StateKept
  <2>4. QED
    BY <1>3, <2>1, <2>2, <2>3
<1>6. ASSUME NEW j \in Slots, Serve(j)
      PROVE  state'.shown <= requests'[i].reply
  <2>1. /\ j \in UnderWay /\ requests' = [requests EXCEPT ![j] = Answer(j)]
        /\ Answer(j).reply \in {0, newest} /\ UnderWay' = UnderWay
    BY <1>0, <1>6, Serving
  <2>2. UNCHANGED <<overlapped, state>> /\ Kept(state, state')
    BY <1>0, <1>6, StateKept DEF Serve
  <2>3. CASE i = j
    <3>1. requests'[i] = Answer(j)
      BY <1>0, <2>1, <2>3 DEF UnderWay
    <3>2. requests'[i].reply = newest
      BY <2>1, <3>1
    <3>3. QED
      BY <1>0, <2>2, <3>2
  <2>4. CASE i # j
    <3>1. requests'[i] = requests[i] /\ i \in UnderWay
      BY <1>0, <2>1, <2>4 DEF UnderWay
    <3>2. QED
      BY <1>3, <2>2, <3>1
  <2>5. QED
    BY <2>3, <2>4
<1>7. ASSUME NEW j \in Slots, Arrive(j) \/ Fail(j)
      PROVE  FALSE
  <2>1. j \in UnderWay /\ Ends(j) /\ ~ overlapped
    BY <1>7 DEF Arrive, Fail
  <2>2. UnderWay' = UnderWay \ {j}
    BY <1>0, <2>1, Ending
  <2>3. Cardinality(UnderWay) <= 1
    BY <1>0, <2>1 DEF InOrder, OneChain
  <2>4. QED
    BY <2>1, <2>2, <2>3, Counting
<1>8. QED
  BY <1>1, <1>4, <1>5, <1>6, <1>7 DEF ScopeStep

\* The event shown is never followed by an older one, unless requests were overlapped.
THEOREM ShownInOrder == Spec => NeverGoesBack
<1>1. Init => InOrder
  <2> SUFFICES ASSUME Init
               PROVE  InOrder
    OBVIOUS
  <2>1. UnderWay = {} /\ timers = 0
    BY DEF Init, ScopeInit, Poller!Init, UnderWay, NoRequests
  <2>2. Cardinality(UnderWay) = 0
    BY <2>1, Counting
  <2>3. QED
    BY <2>1, <2>2 DEF InOrder, OneChain, OnTime
<1>2. Inv /\ InOrder /\ [Next]_vars => InOrder'
  BY NextSteps, NextOneChain, NextOnTime DEF InOrder
<1>3. Inv /\ InOrder /\ [Next]_vars
      => [~ overlapped' /\ state'.stage # "closed" => state'.shown >= state.shown]_vars
  BY NextSteps, Ordered
<1>4. QED
  BY <1>1, <1>2, <1>3, InitInv, NextInv, PTL DEF Spec, NeverGoesBack

-----------------------------------------------------------------------------
(* What stands in the document. *)

\* The ODB and the events are those of a world.
Given ==
  /\ \A e \in 1 .. Len(events) : IsEvent(events[e])
  /\ settings # Missing => Numeric(settings)
  /\ \A plots \in SUBSET (LayersOf(Decode(settings)) \union {Fallback}) :
       None \notin [plots -> SUBSET Nat]

\* The state holds the event it says is shown, its channels among those known; the
\* map once it was read; and the last event, if it was one to be shown.
Taken(s) ==
  s.shown # 0 => /\ s.event = Event(s.shown) /\ s.event # Broken /\ s.event # NotOurs
                 /\ s.event.channels \subseteq s.known
                 /\ s.known \subseteq Nat /\ IsFiniteSet(s.known)

Mapped(s) ==
  /\ s.stage = "mapped" => s.layerMap = Decode(settings) /\ s.layerMap # NoMap
  /\ s.stage # "mapped" => s.layerMap = NoMap

Headed(s) ==
  s.lastHeader # 0 /\ events[s.lastHeader].id = page.cfg.eventId
    /\ events[s.lastHeader].banks.AD # Absent
    => s.error \/ s.shown = s.lastHeader

\* The document shows what the functions that write it would write now.
PickerOf(s) == [boxes |-> s.known, ticked |-> s.known \ s.excluded, hiding |-> Hiding(s)]

Picked(s, d) == d.picker = IF s.shown = 0 THEN None ELSE PickerOf(s)

Drawn(s, d) ==
  s.shown # 0 /\ s.stage \notin {"closed", "opened"} =>
    /\ d.traces = Traces(s) /\ d.white = White(s)
    /\ s.layerMap # NoMap => d.charge = Charge(s)

StatusOf(s) ==
  [error |-> s.error, event |-> IF s.error THEN 0 ELSE s.shown,
   red |-> /\ ~ s.error /\ s.shown # 0
           /\ \/ Differs(s.event.timing, s.event.hits)
              \/ Differs(s.event.collector, s.event.hits)]

StateFields(s) ==
  s = [stage |-> s.stage, layerMap |-> s.layerMap, lastHeader |-> s.lastHeader,
       shown |-> s.shown, event |-> s.event, error |-> s.error, known |-> s.known,
       excluded |-> s.excluded]

DocFields(d) ==
  d = [picker |-> d.picker, traces |-> d.traces, white |-> d.white, charge |-> d.charge,
       status |-> d.status]

\* The parts that do not depend on the document.
Holds(s) ==
  /\ StateFields(s)
  /\ s.shown = 0 => s.known = {}
  /\ Taken(s) /\ Mapped(s) /\ Headed(s)

Screen(s, d) ==
  /\ s.stage = "closed" => s = FreshState /\ d = FreshDoc
  /\ Holds(s) /\ DocFields(d)
  /\ Picked(s, d) /\ Drawn(s, d) /\ d.status = StatusOf(s)

ScreenInv == Given /\ Screen(state, doc)

LEMMA DrawShows ==
  ASSUME NEW s, NEW d, DocFields(d)
  PROVE  LET t == Draw(s, d) IN
         /\ DocFields(t) /\ t.picker = d.picker /\ t.status = d.status /\ Drawn(s, t)
<1> DEFINE t == Draw(s, d)
           traces == Traces(s)
           white == White(s)
           charge == IF s.layerMap = NoMap THEN d.charge ELSE Charge(s)
<1>1. CASE s.stage \in {"closed", "opened"} \/ s.shown = 0
  <2>1. t = d
    BY <1>1 DEF Draw
  <2>2. QED
    BY <1>1, <2>1 DEF Drawn
<1>2. CASE ~ (s.stage \in {"closed", "opened"} \/ s.shown = 0)
  <2>1. t = [d EXCEPT !.traces = traces, !.white = white, !.charge = charge]
    BY <1>2 DEF Draw
  <2> HIDE DEF traces, white, charge, t
  <2>2. t = [picker |-> d.picker, traces |-> traces, white |-> white, charge |-> charge,
             status |-> d.status]
    BY <2>1 DEF DocFields
  <2>3. /\ DocFields(t) /\ t.picker = d.picker /\ t.status = d.status
        /\ t.traces = traces /\ t.white = white /\ t.charge = charge
    BY <2>2 DEF DocFields
  <2>4. QED
    BY <2>3 DEF t, traces, white, charge, Drawn
<1>3. QED
  BY <1>1, <1>2

LEMMA UpdateShows ==
  ASSUME NEW s, NEW d, DocFields(d)
  PROVE  LET t == Update(s, d) IN
         /\ DocFields(t) /\ t.picker = d.picker /\ t.traces = d.traces /\ t.white = d.white
         /\ t.charge = d.charge /\ t.status = StatusOf(s)
<1> DEFINE t == Update(s, d)
<1>1. t = [d EXCEPT !.status = StatusOf(s)]
  BY DEF Update, StatusOf
<1> HIDE DEF t
<1>2. t = [picker |-> d.picker, traces |-> d.traces, white |-> d.white, charge |-> d.charge,
           status |-> StatusOf(s)]
  BY <1>1 DEF DocFields
<1>3. QED
  BY <1>2 DEF DocFields, t

\* A picker that has the boxes of some channels, rightly ticked, gets those known.
LEMMA RenderShows ==
  ASSUME NEW s, NEW d, DocFields(d), NEW known, NEW hiding,
         \/ d.picker = None
         \/ d.picker = [boxes |-> known, ticked |-> known \ s.excluded, hiding |-> hiding]
  PROVE  LET t == RenderPicker(s, d) IN
         /\ DocFields(t) /\ t.picker = PickerOf(s) /\ t.traces = d.traces
         /\ t.white = d.white /\ t.charge = d.charge /\ t.status = d.status
<1> DEFINE t == RenderPicker(s, d)
           picker == IF d.picker # None /\ d.picker.boxes = s.known
                       THEN [d.picker EXCEPT !.hiding = Hiding(s)]
                       ELSE PickerOf(s)
<1>1. t = [d EXCEPT !.picker = picker]
  BY DEF RenderPicker, PickerOf
<1>2. picker = PickerOf(s)
  <2>1. CASE d.picker # None /\ d.picker.boxes = s.known
    <3>1. d.picker = [boxes |-> s.known, ticked |-> s.known \ s.excluded, hiding |-> hiding]
      BY <2>1
    <3>2. QED
      BY <2>1, <3>1 DEF PickerOf
  <2>2. CASE ~ (d.picker # None /\ d.picker.boxes = s.known)
    BY <2>2
  <2>3. QED
    BY <2>1, <2>2
<1> HIDE DEF t, picker
<1>3. t = [picker |-> PickerOf(s), traces |-> d.traces, white |-> d.white,
           charge |-> d.charge, status |-> d.status]
  BY <1>1, <1>2 DEF DocFields
<1>4. QED
  BY <1>3 DEF DocFields, t

\* Plots, maps and profile depend on the event, the map and the channels left out.
LEMMA DrawingDepends ==
  ASSUME NEW s, NEW t,
         t.event = s.event, t.excluded = s.excluded, t.layerMap = s.layerMap
  PROVE  Traces(t) = Traces(s) /\ White(t) = White(s) /\ Charge(t) = Charge(s)
BY DEF Traces, White, Charge, ChargeIn, HitsOn, Marked, Ticked

\* Drawing brings plots up to date, and an update the status line.
LEMMA DrawScreen ==
  ASSUME NEW s, NEW d, Holds(s), s.stage # "closed",
         DocFields(d), Picked(s, d), d.status = StatusOf(s)
  PROVE  Screen(s, Draw(s, d))
<1> DEFINE t == Draw(s, d)
<1>1. /\ DocFields(t) /\ t.picker = d.picker /\ t.status = d.status /\ Drawn(s, t)
  BY DrawShows
<1> HIDE DEF t
<1>2. Screen(s, t)
  BY <1>1 DEF Screen, Picked
<1>3. QED
  BY <1>2 DEF t

LEMMA UpdateScreen ==
  ASSUME NEW s, NEW d, Holds(s), s.stage # "closed",
         DocFields(d), Picked(s, d), Drawn(s, d)
  PROVE  Screen(s, Update(s, d))
<1> DEFINE t == Update(s, d)
<1>1. /\ DocFields(t) /\ t.picker = d.picker /\ t.traces = d.traces /\ t.white = d.white
      /\ t.charge = d.charge /\ t.status = StatusOf(s)
  BY UpdateShows
<1> HIDE DEF t
<1>2. Screen(s, t)
  BY <1>1 DEF Screen, Picked, Drawn
<1>3. QED
  BY <1>2 DEF t

-----------------------------------------------------------------------------
(* What an event that is decoded comes to. *)

LEMMA SmallerAndLarger ==
  ASSUME NEW a \in Int, NEW b \in Int
  PROVE  /\ Min({a, b}) \in {a, b} /\ Min({a, b}) <= a /\ Min({a, b}) <= b
         /\ Max({a, b}) \in {a, b} /\ Max({a, b}) >= a /\ Max({a, b}) >= b
<1>1. \E x \in {a, b} : \A y \in {a, b} : x <= y
  BY a <= b \/ b <= a
<1>2. \E x \in {a, b} : \A y \in {a, b} : x >= y
  BY a <= b \/ b <= a
<1>3. Min({a, b}) \in {a, b} /\ \A y \in {a, b} : Min({a, b}) <= y
  BY <1>1 DEF Min
<1>4. Max({a, b}) \in {a, b} /\ \A y \in {a, b} : Max({a, b}) >= y
  BY <1>2 DEF Max
<1>5. QED
  BY <1>3, <1>4

LEMMA CutToLength ==
  ASSUME NEW a \in Int, NEW b \in Nat
  PROVE  LET n == Max({0, Min({a, b})}) IN
         n \in 0 .. b /\ {slot \in 1 .. b : slot <= a} = 1 .. n
<1> DEFINE m == Min({a, b})
           n == Max({0, m})
<1>1. m \in {a, b} /\ m <= a /\ m <= b
  BY SmallerAndLarger
<1> HIDE DEF m
<1>2. m \in Int
  BY <1>1
<1>3. n \in {0, m} /\ n >= 0 /\ n >= m
  BY <1>2, SmallerAndLarger
<1> HIDE DEF n
<1>4. n \in 0 .. b /\ {slot \in 1 .. b : slot <= a} = 1 .. n
  BY <1>1, <1>2, <1>3
<1>5. QED
  BY <1>4 DEF n, m

\* The samples of a record: the slots up to data_size.
LEMMA WaveformIs ==
  ASSUME NEW rec \in HitRecord
  PROVE  LET n == Max({0, Min({rec.data_size, AD_MAX_SAMPLES})}) IN
         /\ n \in 0 .. AD_MAX_SAMPLES
         /\ Waveform(rec) \in Seq(Int) /\ DOMAIN Waveform(rec) = 1 .. n
         /\ \A k \in 1 .. n : Waveform(rec)[k] = rec.slots[k]
         /\ {slot \in 1 .. AD_MAX_SAMPLES : slot <= rec.data_size} = 1 .. n
<1> DEFINE n == Max({0, Min({rec.data_size, AD_MAX_SAMPLES})})
<1>1. rec.data_size \in Int /\ AD_MAX_SAMPLES \in Nat /\ rec.slots \in [1 .. AD_MAX_SAMPLES -> Int]
  BY LayoutAssumption DEF HitRecord
<1>2. n \in 0 .. AD_MAX_SAMPLES /\ {slot \in 1 .. AD_MAX_SAMPLES : slot <= rec.data_size} = 1 .. n
  BY <1>1, CutToLength
<1>3. Waveform(rec) = SubSeq(rec.slots, 1, n)
  BY DEF Waveform
<1> HIDE DEF n
<1>4. rec.slots \in Seq(Int) /\ Len(rec.slots) = AD_MAX_SAMPLES
  BY <1>1
<1>5. /\ SubSeq(rec.slots, 1, n) \in Seq(Int)
      /\ Len(SubSeq(rec.slots, 1, n)) = n
      /\ \A k \in 1 .. n : SubSeq(rec.slots, 1, n)[k] = rec.slots[k]
  BY <1>1, <1>2, <1>4
<1>6. DOMAIN Waveform(rec) = 1 .. n
  BY <1>2, <1>3, <1>5
<1>7. QED
  BY <1>2, <1>3, <1>5, <1>6 DEF n

LEMMA DecodedIs ==
  ASSUME NEW banks, NEW event, event.banks = banks, IsEvent(event),
         banks.AD # Absent, DecodeEvent(banks) # Broken
  PROVE  LET n == banks.AD.bytes \div AD_HIT_BYTES
             counted(bank) == IF bank = Absent THEN Absent ELSE bank.hits
         IN /\ n \in Nat
            /\ \A k \in 1 .. n : banks.AD.records[k] \in HitRecord
            /\ DecodeEvent(banks) =
                 [hits |-> [k \in 1 .. n |-> DecodeHit(banks.AD.records[k])],
                  timing |-> counted(banks.AT), collector |-> counted(banks.AC),
                  channels |-> {GlobalChannel(banks.AD.records[k]) : k \in 1 .. n}]
            /\ DecodeEvent(banks) \in Decoded
<1> DEFINE n == banks.AD.bytes \div AD_HIT_BYTES
           counted(bank) == IF bank = Absent THEN Absent ELSE bank.hits
           hits == DecodeAD(banks.AD)
           timing == IF banks.AT = Absent THEN Absent ELSE DecodeAT(banks.AT)
           collector == IF banks.AC = Absent THEN Absent ELSE DecodeAC(banks.AC)
           list == [k \in 1 .. n |-> DecodeHit(banks.AD.records[k])]
           channels == {GlobalChannel(banks.AD.records[k]) : k \in 1 .. n}
<1>1. n \in Nat /\ \A k \in 1 .. n : banks.AD.records[k] \in HitRecord
  BY LayoutAssumption DEF IsEvent
<1>2. /\ timing # Broken /\ collector # Broken /\ hits # Broken
      /\ DecodeEvent(banks) = [hits |-> hits, timing |-> timing, collector |-> collector,
                               channels |-> {hits[k].channel : k \in DOMAIN hits}]
  BY DEF DecodeEvent
<1>3. hits = list
  BY <1>2 DEF DecodeAD
<1>4. timing = counted(banks.AT) /\ collector = counted(banks.AC)
  BY <1>2 DEF DecodeAT, DecodeAC
<1>5. timing \in Nat \union {Absent} /\ collector \in Nat \union {Absent}
  BY <1>4 DEF IsEvent, Count
<1>6. \A k \in 1 .. n : /\ list[k] \in [channel : Nat, waveform : Seq(Int), baseline : Int]
                        /\ list[k].channel = GlobalChannel(banks.AD.records[k])
  <2> SUFFICES ASSUME NEW k \in 1 .. n, NEW rec \in HitRecord, rec = banks.AD.records[k]
               PROVE  /\ DecodeHit(rec) \in [channel : Nat, waveform : Seq(Int), baseline : Int]
                      /\ DecodeHit(rec).channel = GlobalChannel(rec)
    BY <1>1
  <2>1. Waveform(rec) \in Seq(Int)
    BY WaveformIs
  <2>2. GlobalChannel(rec) \in Nat
    <3>1. rec.board \in Nat /\ rec.channel \in Nat /\ CHANNELS_PER_BOARD \in Nat
      BY LayoutAssumption DEF HitRecord
    <3>2. rec.board * CHANNELS_PER_BOARD \in Nat
      BY <3>1
    <3>3. QED
      BY <3>1, <3>2 DEF GlobalChannel
  <2>3. rec.baseline \in Int
    BY DEF HitRecord
  <2>4. QED
    BY <2>1, <2>2, <2>3 DEF DecodeHit
<1>7. {hits[k].channel : k \in DOMAIN hits} = channels
  <2>1. DOMAIN list = 1 .. n /\ \A k \in 1 .. n : list[k].channel = GlobalChannel(banks.AD.records[k])
    BY <1>6
  <2> HIDE DEF list, n, hits
  <2>2. {list[k].channel : k \in DOMAIN list} = channels
    BY <2>1
  <2>3. QED
    BY <1>3, <2>2
<1>8. channels \subseteq Nat
  BY <1>6
<1>9. list \in Seq([channel : Nat, waveform : Seq(Int), baseline : Int])
  <2> DEFINE shape == [channel : Nat, waveform : Seq(Int), baseline : Int]
  <2>1. list \in [1 .. n -> shape]
    BY <1>6
  <2> HIDE DEF shape, list, n
  <2>2. list \in Seq(shape)
    BY <1>1, <2>1
  <2>3. QED
    BY <2>2 DEF shape
<1> HIDE DEF hits, timing, collector, list, channels
<1>10. DecodeEvent(banks) = [hits |-> list, timing |-> timing, collector |-> collector,
                             channels |-> channels]
  BY <1>2, <1>3, <1>7
<1>11. DecodeEvent(banks) \in Decoded
  BY <1>5, <1>8, <1>9, <1>10 DEF Decoded
<1>12. QED
  BY <1>1, <1>4, <1>10, <1>11 DEF list, channels

\* An event that is shown was decoded; one of the page's own id that is not ours has
\* no AD.
LEMMA EventIs ==
  ASSUME Given, NEW e \in 1 .. Len(events)
  PROVE  /\ Event(e) # Broken /\ Event(e) # NotOurs =>
              /\ events[e].banks.AD # Absent /\ DecodeEvent(events[e].banks) # Broken
              /\ Event(e) = DecodeEvent(events[e].banks) /\ Event(e) \in Decoded
         /\ Event(e) = NotOurs /\ events[e].id = page.cfg.eventId =>
              events[e].banks.AD = Absent
<1> DEFINE banks == events[e].banks
<1>1. IsEvent(events[e])
  BY DEF Given
<1>2. ASSUME banks.AD # Absent, DecodeEvent(banks) # Broken
      PROVE  DecodeEvent(banks) \in Decoded
  BY <1>1, <1>2, DecodedIs
<1>3. ASSUME Event(e) # Broken, Event(e) # NotOurs
      PROVE  banks.AD # Absent /\ DecodeEvent(banks) # Broken /\ Event(e) = DecodeEvent(banks)
  BY <1>3 DEF Event, FromEvent
<1>4. ASSUME Event(e) = NotOurs, events[e].id = page.cfg.eventId, banks.AD # Absent
      PROVE  FALSE
  <2>1. DecodeEvent(banks) # Broken /\ DecodeEvent(banks) = NotOurs
    BY <1>4, OutcomesAssumption DEF Event, FromEvent
  <2>2. QED
    BY <1>2, <1>4, <2>1, OutcomesAssumption
<1>5. QED
  BY <1>2, <1>3, <1>4

LEMMA FiniteRange ==
  ASSUME NEW n \in Nat, NEW f
  PROVE  IsFiniteSet({f[k] : k \in 1 .. n})
<1> DEFINE T == {f[k] : k \in 1 .. n}
           g == [k \in 1 .. n |-> f[k]]
<1>1. IsFiniteSet(1 .. n)
  BY FS_Interval
<1>2. g \in Surjection(1 .. n, T)
  BY DEF Surjection
<1> HIDE DEF g, T
<1>3. IsFiniteSet(T)
  BY <1>1, <1>2, FS_Surjection
<1>4. QED
  BY <1>3 DEF T

\* An event has finitely many hits, so it makes finitely many channels known.
LEMMA ChannelsAreFew ==
  ASSUME Given, NEW e \in 1 .. Len(events), Event(e) # Broken, Event(e) # NotOurs
  PROVE  IsFiniteSet(Event(e).channels)
<1> DEFINE banks == events[e].banks
           n == banks.AD.bytes \div AD_HIT_BYTES
           f == [k \in 1 .. n |-> GlobalChannel(banks.AD.records[k])]
<1>1. IsEvent(events[e]) /\ banks.AD # Absent /\ DecodeEvent(banks) # Broken
  BY EventIs DEF Given
<1>2. Event(e) = DecodeEvent(banks)
  BY EventIs
<1> DEFINE counted(bank) == IF bank = Absent THEN Absent ELSE bank.hits
           hits == [k \in 1 .. n |-> DecodeHit(banks.AD.records[k])]
           timing == counted(banks.AT)
           collector == counted(banks.AC)
           channels == {GlobalChannel(banks.AD.records[k]) : k \in 1 .. n}
<1>a. /\ n \in Nat
      /\ DecodeEvent(banks) = [hits |-> hits, timing |-> timing, collector |-> collector,
                               channels |-> channels]
  BY <1>1, DecodedIs
<1>3. n \in Nat /\ DecodeEvent(banks).channels = channels
  <2> HIDE DEF n, hits, timing, collector, channels
  <2>1. QED
    BY <1>a
<1>4. channels = {f[k] : k \in 1 .. n}
  OBVIOUS
<1> HIDE DEF n, f, channels
<1>5. IsFiniteSet({f[k] : k \in 1 .. n})
  BY <1>3, FiniteRange
<1>6. QED
  BY <1>2, <1>3, <1>4, <1>5

-----------------------------------------------------------------------------
(* Each step leaves the document as it should be. *)

\* A record with a state's fields is one.
LEMMA StateIs ==
  ASSUME NEW stage, NEW map, NEW last, NEW shown, NEW event, NEW error, NEW known, NEW excluded,
         NEW t, t = [stage |-> stage, layerMap |-> map, lastHeader |-> last, shown |-> shown,
                     event |-> event, error |-> error, known |-> known, excluded |-> excluded]
  PROVE  /\ t.stage = stage /\ t.layerMap = map /\ t.lastHeader = last /\ t.shown = shown
         /\ t.event = event /\ t.error = error /\ t.known = known /\ t.excluded = excluded
         /\ StateFields(t)
BY DEF StateFields

\* A change of one field.
LEMMA StageField ==
  ASSUME NEW s, StateFields(s), NEW x
  PROVE  LET t == [s EXCEPT !.stage = x] IN
         /\ StateFields(t) /\ t.stage = x /\ t.layerMap = s.layerMap /\ t.lastHeader = s.lastHeader
         /\ t.shown = s.shown /\ t.event = s.event /\ t.error = s.error
         /\ t.known = s.known /\ t.excluded = s.excluded
<1> DEFINE t == [s EXCEPT !.stage = x]
<1>1. t = [stage |-> x, layerMap |-> s.layerMap, lastHeader |-> s.lastHeader,
           shown |-> s.shown, event |-> s.event, error |-> s.error,
           known |-> s.known, excluded |-> s.excluded]
  BY DEF StateFields
<1> HIDE DEF t
<1>2. /\ StateFields(t) /\ t.stage = x /\ t.layerMap = s.layerMap /\ t.lastHeader = s.lastHeader
      /\ t.shown = s.shown /\ t.event = s.event /\ t.error = s.error
      /\ t.known = s.known /\ t.excluded = s.excluded
  BY <1>1, StateIs
<1>3. QED
  BY <1>2 DEF t

LEMMA MapField ==
  ASSUME NEW s, StateFields(s), NEW x
  PROVE  LET t == [s EXCEPT !.layerMap = x] IN
         /\ StateFields(t) /\ t.stage = s.stage /\ t.layerMap = x /\ t.lastHeader = s.lastHeader
         /\ t.shown = s.shown /\ t.event = s.event /\ t.error = s.error
         /\ t.known = s.known /\ t.excluded = s.excluded
<1> DEFINE t == [s EXCEPT !.layerMap = x]
<1>1. t = [stage |-> s.stage, layerMap |-> x, lastHeader |-> s.lastHeader,
           shown |-> s.shown, event |-> s.event, error |-> s.error,
           known |-> s.known, excluded |-> s.excluded]
  BY DEF StateFields
<1> HIDE DEF t
<1>2. /\ StateFields(t) /\ t.stage = s.stage /\ t.layerMap = x /\ t.lastHeader = s.lastHeader
      /\ t.shown = s.shown /\ t.event = s.event /\ t.error = s.error
      /\ t.known = s.known /\ t.excluded = s.excluded
  BY <1>1, StateIs
<1>3. QED
  BY <1>2 DEF t

LEMMA ErrorField ==
  ASSUME NEW s, StateFields(s), NEW x
  PROVE  LET t == [s EXCEPT !.error = x] IN
         /\ StateFields(t) /\ t.stage = s.stage /\ t.layerMap = s.layerMap /\ t.lastHeader = s.lastHeader
         /\ t.shown = s.shown /\ t.event = s.event /\ t.error = x
         /\ t.known = s.known /\ t.excluded = s.excluded
<1> DEFINE t == [s EXCEPT !.error = x]
<1>1. t = [stage |-> s.stage, layerMap |-> s.layerMap, lastHeader |-> s.lastHeader,
           shown |-> s.shown, event |-> s.event, error |-> x,
           known |-> s.known, excluded |-> s.excluded]
  BY DEF StateFields
<1> HIDE DEF t
<1>2. /\ StateFields(t) /\ t.stage = s.stage /\ t.layerMap = s.layerMap /\ t.lastHeader = s.lastHeader
      /\ t.shown = s.shown /\ t.event = s.event /\ t.error = x
      /\ t.known = s.known /\ t.excluded = s.excluded
  BY <1>1, StateIs
<1>3. QED
  BY <1>2 DEF t

LEMMA ExcludedField ==
  ASSUME NEW s, StateFields(s), NEW x
  PROVE  LET t == [s EXCEPT !.excluded = x] IN
         /\ StateFields(t) /\ t.stage = s.stage /\ t.layerMap = s.layerMap /\ t.lastHeader = s.lastHeader
         /\ t.shown = s.shown /\ t.event = s.event /\ t.error = s.error
         /\ t.known = s.known /\ t.excluded = x
<1> DEFINE t == [s EXCEPT !.excluded = x]
<1>1. t = [stage |-> s.stage, layerMap |-> s.layerMap, lastHeader |-> s.lastHeader,
           shown |-> s.shown, event |-> s.event, error |-> s.error,
           known |-> s.known, excluded |-> x]
  BY DEF StateFields
<1> HIDE DEF t
<1>2. /\ StateFields(t) /\ t.stage = s.stage /\ t.layerMap = s.layerMap /\ t.lastHeader = s.lastHeader
      /\ t.shown = s.shown /\ t.event = s.event /\ t.error = s.error
      /\ t.known = s.known /\ t.excluded = x
  BY <1>1, StateIs
<1>3. QED
  BY <1>2 DEF t

LEMMA HeaderField ==
  ASSUME NEW s, StateFields(s), NEW x
  PROVE  LET t == [s EXCEPT !.lastHeader = x] IN
         /\ StateFields(t) /\ t.stage = s.stage /\ t.layerMap = s.layerMap /\ t.lastHeader = x
         /\ t.shown = s.shown /\ t.event = s.event /\ t.error = s.error
         /\ t.known = s.known /\ t.excluded = s.excluded
<1> DEFINE t == [s EXCEPT !.lastHeader = x]
<1>1. t = [stage |-> s.stage, layerMap |-> s.layerMap, lastHeader |-> x,
           shown |-> s.shown, event |-> s.event, error |-> s.error,
           known |-> s.known, excluded |-> s.excluded]
  BY DEF StateFields
<1> HIDE DEF t
<1>2. /\ StateFields(t) /\ t.stage = s.stage /\ t.layerMap = s.layerMap /\ t.lastHeader = x
      /\ t.shown = s.shown /\ t.event = s.event /\ t.error = s.error
      /\ t.known = s.known /\ t.excluded = s.excluded
  BY <1>1, StateIs
<1>3. QED
  BY <1>2 DEF t

LEMMA ShownField ==
  ASSUME NEW s, StateFields(s), NEW x
  PROVE  LET t == [s EXCEPT !.shown = x] IN
         /\ StateFields(t) /\ t.stage = s.stage /\ t.layerMap = s.layerMap /\ t.lastHeader = s.lastHeader
         /\ t.shown = x /\ t.event = s.event /\ t.error = s.error
         /\ t.known = s.known /\ t.excluded = s.excluded
<1> DEFINE t == [s EXCEPT !.shown = x]
<1>1. t = [stage |-> s.stage, layerMap |-> s.layerMap, lastHeader |-> s.lastHeader,
           shown |-> x, event |-> s.event, error |-> s.error,
           known |-> s.known, excluded |-> s.excluded]
  BY DEF StateFields
<1> HIDE DEF t
<1>2. /\ StateFields(t) /\ t.stage = s.stage /\ t.layerMap = s.layerMap /\ t.lastHeader = s.lastHeader
      /\ t.shown = x /\ t.event = s.event /\ t.error = s.error
      /\ t.known = s.known /\ t.excluded = s.excluded
  BY <1>1, StateIs
<1>3. QED
  BY <1>2 DEF t

LEMMA EventField ==
  ASSUME NEW s, StateFields(s), NEW x
  PROVE  LET t == [s EXCEPT !.event = x] IN
         /\ StateFields(t) /\ t.stage = s.stage /\ t.layerMap = s.layerMap /\ t.lastHeader = s.lastHeader
         /\ t.shown = s.shown /\ t.event = x /\ t.error = s.error
         /\ t.known = s.known /\ t.excluded = s.excluded
<1> DEFINE t == [s EXCEPT !.event = x]
<1>1. t = [stage |-> s.stage, layerMap |-> s.layerMap, lastHeader |-> s.lastHeader,
           shown |-> s.shown, event |-> x, error |-> s.error,
           known |-> s.known, excluded |-> s.excluded]
  BY DEF StateFields
<1> HIDE DEF t
<1>2. /\ StateFields(t) /\ t.stage = s.stage /\ t.layerMap = s.layerMap /\ t.lastHeader = s.lastHeader
      /\ t.shown = s.shown /\ t.event = x /\ t.error = s.error
      /\ t.known = s.known /\ t.excluded = s.excluded
  BY <1>1, StateIs
<1>3. QED
  BY <1>2 DEF t

LEMMA KnownField ==
  ASSUME NEW s, StateFields(s), NEW x
  PROVE  LET t == [s EXCEPT !.known = x] IN
         /\ StateFields(t) /\ t.stage = s.stage /\ t.layerMap = s.layerMap /\ t.lastHeader = s.lastHeader
         /\ t.shown = s.shown /\ t.event = s.event /\ t.error = s.error
         /\ t.known = x /\ t.excluded = s.excluded
<1> DEFINE t == [s EXCEPT !.known = x]
<1>1. t = [stage |-> s.stage, layerMap |-> s.layerMap, lastHeader |-> s.lastHeader,
           shown |-> s.shown, event |-> s.event, error |-> s.error,
           known |-> x, excluded |-> s.excluded]
  BY DEF StateFields
<1> HIDE DEF t
<1>2. /\ StateFields(t) /\ t.stage = s.stage /\ t.layerMap = s.layerMap /\ t.lastHeader = s.lastHeader
      /\ t.shown = s.shown /\ t.event = s.event /\ t.error = s.error
      /\ t.known = x /\ t.excluded = s.excluded
  BY <1>1, StateIs
<1>3. QED
  BY <1>2 DEF t

LEMMA FreshScreen == Screen(FreshState, FreshDoc)
<1>1. /\ FreshState.stage = "closed" /\ FreshState.layerMap = NoMap
      /\ FreshState.lastHeader = 0 /\ FreshState.shown = 0 /\ FreshState.known = {}
      /\ FreshState.error = FALSE /\ StateFields(FreshState)
  BY DEF FreshState, StateFields
<1>2. /\ FreshDoc.picker = None /\ DocFields(FreshDoc)
      /\ FreshDoc.status = [error |-> FALSE, event |-> 0, red |-> FALSE]
  BY DEF FreshDoc, DocFields
<1>3. Holds(FreshState) /\ Picked(FreshState, FreshDoc) /\ Drawn(FreshState, FreshDoc)
  BY <1>1, <1>2 DEF Holds, Taken, Mapped, Headed, Picked, Drawn
<1>4. StatusOf(FreshState) = [error |-> FALSE, event |-> 0, red |-> FALSE]
  BY <1>1 DEF StatusOf
<1>5. QED
  BY <1>2, <1>3, <1>4 DEF Screen

\* The tab is built.
LEMMA OpenScreen ==
  ASSUME NEW off
  PROVE  Screen([FreshState EXCEPT !.stage = "opened", !.excluded = off], FreshDoc)
<1> DEFINE t == [FreshState EXCEPT !.stage = "opened", !.excluded = off]
<1>a. /\ StateFields(FreshState) /\ FreshState.layerMap = NoMap /\ FreshState.lastHeader = 0
      /\ FreshState.shown = 0 /\ FreshState.error = FALSE /\ FreshState.known = {}
  BY StateIs DEF FreshState
<1>1. /\ t.stage = "opened" /\ t.layerMap = NoMap /\ t.lastHeader = 0 /\ t.shown = 0
      /\ t.known = {} /\ t.error = FALSE /\ StateFields(t)
  <2> DEFINE u == [FreshState EXCEPT !.stage = "opened"]
  <2>1. t = [u EXCEPT !.excluded = off]
    OBVIOUS
  <2>2. /\ u.stage = "opened" /\ u.layerMap = NoMap /\ u.lastHeader = 0 /\ u.shown = 0
        /\ u.known = {} /\ u.error = FALSE /\ StateFields(u)
    BY <1>a, StageField
  <2> HIDE DEF u, t
  <2>3. QED
    BY <2>1, <2>2, ExcludedField
<1> HIDE DEF t
<1>2. /\ FreshDoc.picker = None /\ DocFields(FreshDoc)
      /\ FreshDoc.status = [error |-> FALSE, event |-> 0, red |-> FALSE]
  BY DEF FreshDoc, DocFields
<1>3. Holds(t) /\ Picked(t, FreshDoc) /\ Drawn(t, FreshDoc)
  BY <1>1, <1>2 DEF Holds, Taken, Mapped, Headed, Picked, Drawn
<1>4. StatusOf(t) = [error |-> FALSE, event |-> 0, red |-> FALSE]
  BY <1>1 DEF StatusOf
<1>5. Screen(t, FreshDoc)
  BY <1>1, <1>2, <1>3, <1>4 DEF Screen
<1>6. QED
  BY <1>5 DEF t

\* A change that leaves event, last event, error and channels alone.
Alike(s, t) ==
  /\ StateFields(t)
  /\ t.lastHeader = s.lastHeader /\ t.shown = s.shown /\ t.event = s.event
  /\ t.error = s.error /\ t.known = s.known

LEMMA AlikeHolds ==
  ASSUME NEW s, NEW t, Holds(s), Alike(s, t), Mapped(t)
  PROVE  Holds(t) /\ StatusOf(t) = StatusOf(s)
BY DEF Holds, Alike, Taken, Headed, StatusOf

\* Plots are made, and the map may have come with them; or there is none.
LEMMA PlotsScreen ==
  ASSUME NEW s, NEW d, Screen(s, d), NEW stage \in {"graph", "mapped"}, NEW map,
         stage = "mapped" => map = Decode(settings) /\ map # NoMap,
         stage # "mapped" => map = NoMap
  PROVE  LET t == [s EXCEPT !.stage = stage, !.layerMap = map] IN Screen(t, Draw(t, d))
<1> DEFINE t == [s EXCEPT !.stage = stage, !.layerMap = map]
<1>1. StateFields(s) /\ DocFields(d) /\ Picked(s, d) /\ d.status = StatusOf(s) /\ Holds(s)
  BY DEF Screen, Holds
<1>2. /\ t.stage = stage /\ t.layerMap = map /\ t.excluded = s.excluded /\ Alike(s, t)
  <2> DEFINE u == [s EXCEPT !.stage = stage]
  <2>1. t = [u EXCEPT !.layerMap = map]
    OBVIOUS
  <2>2. u.stage = stage /\ u.excluded = s.excluded /\ Alike(s, u)
    BY <1>1, StageField DEF Alike
  <2> HIDE DEF u, t
  <2>3. QED
    BY <2>1, <2>2, MapField DEF Alike
<1> HIDE DEF t
<1>3. Mapped(t)
  BY <1>2 DEF Mapped
<1>4. Holds(t) /\ StatusOf(t) = StatusOf(s)
  BY <1>1, <1>2, <1>3, AlikeHolds
<1>5. Picked(t, d)
  BY <1>1, <1>2 DEF Picked, PickerOf, Hiding, Alike
<1>6. Screen(t, Draw(t, d))
  BY <1>1, <1>2, <1>4, <1>5, DrawScreen
<1>7. QED
  BY <1>6 DEF t

LEMMA NoMapScreen ==
  ASSUME NEW s, NEW d, Screen(s, d), s.stage = "graph"
  PROVE  Screen([s EXCEPT !.stage = "unmapped"], d)
<1> DEFINE t == [s EXCEPT !.stage = "unmapped"]
<1>1. /\ StateFields(s) /\ DocFields(d) /\ Picked(s, d) /\ Drawn(s, d) /\ d.status = StatusOf(s)
      /\ Holds(s) /\ s.layerMap = NoMap
  BY DEF Screen, Holds, Mapped
<1>2. /\ t.stage = "unmapped" /\ t.layerMap = s.layerMap /\ t.excluded = s.excluded
      /\ Alike(s, t)
  BY <1>1 DEF StateFields, Alike
<1> HIDE DEF t
<1>3. Mapped(t)
  BY <1>1, <1>2 DEF Mapped
<1>4. Holds(t) /\ StatusOf(t) = StatusOf(s)
  BY <1>1, <1>2, <1>3, AlikeHolds
<1>5. Picked(t, d)
  BY <1>1, <1>2 DEF Picked, PickerOf, Hiding, Alike
<1>6. Traces(t) = Traces(s) /\ White(t) = White(s)
  BY <1>2, DrawingDepends DEF Alike
<1>7. Drawn(t, d)
  BY <1>1, <1>2, <1>6 DEF Drawn, Alike
<1>8. Screen(t, d)
  BY <1>1, <1>2, <1>4, <1>5, <1>7 DEF Screen
<1>9. QED
  BY <1>8 DEF t

\* A request failed, or gave nothing new.
LEMMA FailScreen ==
  ASSUME NEW s, NEW d, Screen(s, d), s.stage # "closed"
  PROVE  /\ Screen(s, Update(s, d))
         /\ LET t == [s EXCEPT !.error = TRUE] IN Screen(t, Update(t, d))
<1> DEFINE t == [s EXCEPT !.error = TRUE]
<1>1. StateFields(s) /\ DocFields(d) /\ Picked(s, d) /\ Drawn(s, d) /\ Holds(s)
  BY DEF Screen, Holds
<1>2. /\ StateFields(t) /\ t.error = TRUE
      /\ t.stage = s.stage /\ t.layerMap = s.layerMap /\ t.lastHeader = s.lastHeader
      /\ t.shown = s.shown /\ t.event = s.event /\ t.known = s.known /\ t.excluded = s.excluded
  BY <1>1, ErrorField
<1> HIDE DEF t
<1>3. Holds(t)
  BY <1>1, <1>2 DEF Holds, Taken, Mapped, Headed
<1>4. Picked(t, d)
  BY <1>1, <1>2 DEF Picked, PickerOf, Hiding
<1>5. Drawn(t, d)
  BY <1>1, <1>2, DrawingDepends DEF Drawn
<1>6. Screen(t, Update(t, d)) /\ Screen(s, Update(s, d))
  BY <1>1, <1>2, <1>3, <1>4, <1>5, UpdateScreen
<1>7. QED
  BY <1>6 DEF t

\* A box is clicked.
LEMMA ToggleScreen ==
  ASSUME NEW s, NEW d, Screen(s, d), s.stage # "closed",
         d.picker # None, NEW ch, ch \in d.picker.boxes
  PROVE  LET ticks == ch \notin d.picker.ticked
             off == IF ticks THEN s.excluded \ {ch} ELSE s.excluded \union {ch}
             box == [d EXCEPT !.picker.ticked = IF ticks THEN @ \union {ch} ELSE @ \ {ch}]
             t == [s EXCEPT !.excluded = off]
         IN Screen(t, Draw(t, [box EXCEPT !.picker.hiding = Hiding(t)]))
<1> DEFINE ticks == ch \notin d.picker.ticked
           off == IF ticks THEN s.excluded \ {ch} ELSE s.excluded \union {ch}
           ticked == IF ticks THEN d.picker.ticked \union {ch} ELSE d.picker.ticked \ {ch}
           box == [d EXCEPT !.picker.ticked = IF ticks THEN @ \union {ch} ELSE @ \ {ch}]
           t == [s EXCEPT !.excluded = off]
           hidden1 == Hiding(t)
           e == [box EXCEPT !.picker.hiding = hidden1]
<1>1. /\ StateFields(s) /\ DocFields(d) /\ Picked(s, d) /\ Holds(s) /\ d.status = StatusOf(s)
  BY DEF Screen, Holds
<1>2. s.shown # 0 /\ d.picker = PickerOf(s)
  BY <1>1 DEF Picked
<1>3. ch \in s.known /\ d.picker.ticked = s.known \ s.excluded
  BY <1>2 DEF PickerOf
<1>4. ticked = s.known \ off
  BY <1>3
<1> HIDE DEF off
<1>5. /\ t.stage = s.stage /\ t.layerMap = s.layerMap /\ t.excluded = off /\ Alike(s, t)
  BY <1>1 DEF StateFields, Alike
<1> HIDE DEF t, hidden1
<1>6. e = [d EXCEPT !.picker = [boxes |-> s.known, ticked |-> s.known \ off, hiding |-> hidden1]]
  <2>1. box = [d EXCEPT !.picker = [d.picker EXCEPT !.ticked = ticked]]
    BY <1>1 DEF DocFields
  <2> HIDE DEF ticked, box
  <2>2. e = [box EXCEPT !.picker = [box.picker EXCEPT !.hiding = hidden1]]
    OBVIOUS
  <2>3. /\ DocFields(box) /\ box.picker = [d.picker EXCEPT !.ticked = ticked]
        /\ box.traces = d.traces /\ box.white = d.white /\ box.charge = d.charge
        /\ box.status = d.status
    BY <1>1, <2>1 DEF DocFields
  <2>4. box.picker = [boxes |-> s.known, ticked |-> s.known \ off, hiding |-> Hiding(s)]
    BY <1>2, <1>4, <2>3 DEF PickerOf
  <2>5. [box.picker EXCEPT !.hiding = hidden1] =
          [boxes |-> s.known, ticked |-> s.known \ off, hiding |-> hidden1]
    BY <2>4
  <2>6. QED
    BY <1>1, <2>2, <2>3, <2>5 DEF DocFields
<1> HIDE DEF e, box, ticked
<1>7. DocFields(e) /\ e.status = d.status
      /\ e.picker = [boxes |-> s.known, ticked |-> s.known \ off, hiding |-> hidden1]
  BY <1>1, <1>6 DEF DocFields
<1>8. Mapped(t)
  BY <1>1, <1>5 DEF Mapped, Holds
<1>9. Holds(t) /\ StatusOf(t) = StatusOf(s)
  BY <1>1, <1>5, <1>8, AlikeHolds
<1>10. Picked(t, e)
  BY <1>2, <1>5, <1>7 DEF Picked, PickerOf, Alike, hidden1
<1>11. Screen(t, Draw(t, e))
  BY <1>1, <1>5, <1>7, <1>9, <1>10, DrawScreen
<1>12. QED
  BY <1>11 DEF t, e, box, off, hidden1

\* What an event that arrives does to the state.
LEMMA TakenFields ==
  ASSUME StateFields(state), NEW e, NEW decoded
  PROVE  LET t == OnEvent(e, decoded) IN
         /\ StateFields(t) /\ t.stage = state.stage /\ t.layerMap = state.layerMap
         /\ t.excluded = state.excluded /\ t.lastHeader = e
         /\ decoded = Broken => t.error
         /\ IF decoded # Broken /\ decoded # NotOurs
              THEN /\ t.shown = e /\ t.event = decoded
                   /\ t.known = state.known \union decoded.channels
              ELSE t.shown = state.shown /\ t.event = state.event /\ t.known = state.known
<1> DEFINE headed == [state EXCEPT !.lastHeader = e]
           seen == [state EXCEPT !.lastHeader = e, !.error = FALSE]
           failed == [seen EXCEPT !.error = TRUE]
           took == [seen EXCEPT !.shown = e, !.event = decoded,
                                !.known = @ \union decoded.channels]
           t == OnEvent(e, decoded)
<1>1. /\ decoded = Broken => t = failed
      /\ decoded # Broken /\ decoded = NotOurs => t = seen
      /\ decoded # Broken /\ decoded # NotOurs => t = took
  <2>1. t = CASE decoded = Broken -> failed
              [] decoded = NotOurs -> seen
              [] OTHER -> took
    BY DEF OnEvent
  <2> HIDE DEF t, failed, took, seen
  <2>2. QED
    BY <2>1, OutcomesAssumption
<1>2. /\ StateFields(seen) /\ seen.stage = state.stage /\ seen.layerMap = state.layerMap
      /\ seen.excluded = state.excluded /\ seen.lastHeader = e /\ seen.shown = state.shown
      /\ seen.event = state.event /\ seen.known = state.known
  <2> DEFINE none == FALSE
  <2>1. seen = [headed EXCEPT !.error = none]
    OBVIOUS
  <2>2. /\ StateFields(headed) /\ headed.stage = state.stage
        /\ headed.layerMap = state.layerMap /\ headed.excluded = state.excluded
        /\ headed.lastHeader = e /\ headed.shown = state.shown
        /\ headed.event = state.event /\ headed.known = state.known
    BY HeaderField
  <2> HIDE DEF headed, seen, none
  <2>3. QED
    BY <2>1, <2>2, ErrorField
<1> HIDE DEF seen
<1>3. /\ StateFields(failed) /\ failed.stage = seen.stage /\ failed.layerMap = seen.layerMap
      /\ failed.excluded = seen.excluded /\ failed.lastHeader = seen.lastHeader
      /\ failed.shown = seen.shown /\ failed.event = seen.event /\ failed.known = seen.known
      /\ failed.error
  BY <1>2, ErrorField
<1>4. /\ StateFields(took) /\ took.stage = seen.stage /\ took.layerMap = seen.layerMap
      /\ took.excluded = seen.excluded /\ took.lastHeader = seen.lastHeader
      /\ took.shown = e /\ took.event = decoded
      /\ took.known = seen.known \union decoded.channels
  <2> DEFINE one == [seen EXCEPT !.shown = e]
             two == [one EXCEPT !.event = decoded]
             known == seen.known \union decoded.channels
  <2>1. took = [two EXCEPT !.known = known]
    OBVIOUS
  <2>2. /\ StateFields(one) /\ one.stage = seen.stage /\ one.layerMap = seen.layerMap
        /\ one.excluded = seen.excluded /\ one.lastHeader = seen.lastHeader
        /\ one.shown = e /\ one.known = seen.known
    BY <1>2, ShownField
  <2> HIDE DEF one, took, known
  <2>3. /\ StateFields(two) /\ two.stage = seen.stage /\ two.layerMap = seen.layerMap
        /\ two.excluded = seen.excluded /\ two.lastHeader = seen.lastHeader
        /\ two.shown = e /\ two.event = decoded
    BY <2>2, EventField
  <2> HIDE DEF two
  <2>4. QED
    BY <2>1, <2>3, KnownField DEF known
<1> HIDE DEF t, failed, took
<1>5. /\ StateFields(t) /\ t.stage = state.stage /\ t.layerMap = state.layerMap
      /\ t.excluded = state.excluded /\ t.lastHeader = e
      /\ decoded = Broken => t.error
      /\ IF decoded # Broken /\ decoded # NotOurs
           THEN /\ t.shown = e /\ t.event = decoded
                /\ t.known = state.known \union decoded.channels
           ELSE t.shown = state.shown /\ t.event = state.event /\ t.known = state.known
  BY <1>1, <1>2, <1>3, <1>4
<1>6. QED
  BY <1>5 DEF t

\* An event arrives.
LEMMA ArriveScreen ==
  ASSUME Given, Screen(state, doc), state.stage # "closed", NEW e \in 1 .. Len(events),
         Len(events) \in Nat
  PROVE  LET t == OnEvent(e, Event(e)) IN
         Screen(t, Update(t, IF t.shown = e THEN Draw(t, RenderPicker(t, doc)) ELSE doc))
<1> DEFINE t == OnEvent(e, Event(e))
           took == Event(e) # Broken /\ Event(e) # NotOurs
           d == IF t.shown = e THEN Draw(t, RenderPicker(t, doc)) ELSE doc
<1>1. /\ Holds(state) /\ StateFields(state) /\ Taken(state) /\ Mapped(state)
      /\ (state.shown = 0 => state.known = {})
      /\ DocFields(doc) /\ Picked(state, doc) /\ Drawn(state, doc)
  BY DEF Screen, Holds
<1>2. /\ StateFields(t) /\ t.stage = state.stage /\ t.layerMap = state.layerMap
      /\ t.excluded = state.excluded /\ t.lastHeader = e
      /\ Event(e) = Broken => t.error
      /\ IF took
           THEN /\ t.shown = e /\ t.event = Event(e)
                /\ t.known = state.known \union Event(e).channels
           ELSE t.shown = state.shown /\ t.event = state.event /\ t.known = state.known
  BY <1>1, TakenFields
<1> HIDE DEF t
<1>3. e # 0 /\ (took => Event(e).channels \subseteq Nat /\ IsFiniteSet(Event(e).channels))
  <2>1. took => Event(e) \in Decoded /\ IsFiniteSet(Event(e).channels)
    BY EventIs, ChannelsAreFew
  <2>2. QED
    BY <2>1 DEF Decoded
<1>4. Mapped(t)
  BY <1>1, <1>2 DEF Mapped
<1>5. CASE took
  <2> DEFINE made == RenderPicker(t, doc)
  <2>1. Taken(t)
    <3>1. IsFiniteSet(state.known) /\ state.known \subseteq Nat
      BY <1>1, FS_EmptySet DEF Taken
    <3>2. /\ t.known = state.known \union Event(e).channels
          /\ Event(e).channels \subseteq Nat /\ IsFiniteSet(Event(e).channels)
      BY <1>2, <1>3, <1>5
    <3>3. IsFiniteSet(t.known)
      BY <3>1, <3>2, FS_Union
    <3>4. QED
      BY <1>2, <1>5, <3>1, <3>2, <3>3 DEF Taken
  <2>2. Holds(t)
    BY <1>2, <1>3, <1>4, <1>5, <2>1 DEF Holds, Headed
  <2>3. DocFields(made) /\ made.picker = PickerOf(t)
    <3>1. \/ doc.picker = None
          \/ doc.picker = [boxes |-> state.known, ticked |-> state.known \ t.excluded,
                           hiding |-> Hiding(state)]
      BY <1>1, <1>2 DEF Picked, PickerOf
    <3>2. QED
      BY <1>1, <3>1, RenderShows
  <2> HIDE DEF made
  <2>4. /\ DocFields(Draw(t, made)) /\ Draw(t, made).picker = PickerOf(t)
        /\ Drawn(t, Draw(t, made))
    BY <2>3, DrawShows
  <2>5. d = Draw(t, made)
    BY <1>2, <1>5 DEF made
  <2> HIDE DEF d
  <2>6. DocFields(d) /\ Picked(t, d) /\ Drawn(t, d)
    BY <1>2, <1>3, <1>5, <2>4, <2>5 DEF Picked
  <2>7. Screen(t, Update(t, d))
    BY <1>2, <2>2, <2>6, UpdateScreen
  <2>8. QED
    BY <2>7 DEF d, t
<1>6. CASE ~ took
  <2>1. t.shown # e
    BY <1>1, <1>2, <1>3, <1>6 DEF Taken
  <2>2. Headed(t)
    <3>1. Event(e) # Broken /\ events[e].id = page.cfg.eventId => events[e].banks.AD = Absent
      BY <1>6, EventIs
    <3>2. QED
      BY <1>2, <3>1 DEF Headed
  <2>3. Holds(t)
    BY <1>1, <1>2, <1>4, <1>6, <2>2 DEF Holds, Taken
  <2>4. Picked(t, doc)
    BY <1>1, <1>2, <1>6 DEF Picked, PickerOf, Hiding
  <2>5. Drawn(t, doc)
    BY <1>1, <1>2, <1>6, DrawingDepends DEF Drawn
  <2>6. d = doc
    BY <2>1
  <2> HIDE DEF d
  <2>7. Screen(t, Update(t, d))
    BY <1>1, <1>2, <2>3, <2>4, <2>5, <2>6, UpdateScreen
  <2>8. QED
    BY <2>7 DEF d, t
<1>7. QED
  BY <1>5, <1>6

\* The events and the settings do not change while the page is looked at, and its
\* configuration not once the tab has taken an event.
LEMMA ScreenCarries ==
  ASSUME Screen(state', doc'), UNCHANGED <<events, settings>>,
         page'.cfg = page.cfg \/ (state'.shown = 0 /\ state'.lastHeader = 0)
  PROVE  Screen(state, doc)'
<1>1. /\ Traces(state)' = Traces(state') /\ White(state)' = White(state')
      /\ Hiding(state)' = Hiding(state')
  BY DEF Traces, White, HitsOn, Ticked, Hiding
<1>2. \A map : LeftMap(map)' = LeftMap(map)
  BY DEF LeftMap, OrientationOf
<1>3. Charge(state)' = Charge(state')
  BY <1>2 DEF Charge, ChargeIn, Marked, HitsOn, Ticked
<1>4. StatusOf(state)' = StatusOf(state') /\ PickerOf(state)' = PickerOf(state')
  BY <1>1 DEF StatusOf, PickerOf
<1>5. Taken(state)'
  BY DEF Screen, Holds, Taken, Event
<1>6. Headed(state)'
  BY DEF Screen, Holds, Headed
<1>7. Mapped(state)'
  BY DEF Screen, Holds, Mapped
<1>8. Picked(state, doc)' /\ Drawn(state, doc)'
  BY <1>1, <1>3, <1>4 DEF Screen, Picked, Drawn
<1>9. Holds(state)' /\ DocFields(doc)'
  BY <1>5, <1>6, <1>7 DEF Screen, Holds, StateFields, DocFields
<1>10. QED
  BY <1>4, <1>8, <1>9 DEF Screen

LEMMA InitScreen == Init => ScreenInv
<1> SUFFICES ASSUME Init
             PROVE  ScreenInv
  OBVIOUS
<1>1. PICK w \in Worlds : settings = w.settings /\ events = w.events
  BY DEF Init
<1>2. Given
  BY <1>1, WorldsAssumption DEF Given
<1>3. state = FreshState /\ doc = FreshDoc
  BY DEF Init, ScopeInit
<1>4. QED
  BY <1>2, <1>3, FreshScreen DEF ScreenInv

LEMMA GivenStays ==
  ASSUME Given, UNCHANGED <<events, settings>>
  PROVE  Given'
BY DEF Given

\* The configuration is that of the page that came up, until it is loaded again.
LEMMA PageKeepsItsCfg ==
  ASSUME Inv, NEW tab \in Tabs, ClickTab(tab) \/ ProbeAnswers
  PROVE  page'.cfg = page.cfg
<1>1. page \in PageRecord(page.cfg) /\ Noted(page) /\ Asking(page)
  BY DEF Inv, PageInv
<1>2. page' \in PageRecord(page.cfg)
  <2>1. CASE ClickTab(tab)
    BY <1>1, <2>1, TabShown DEF ClickTab
  <2>2. CASE ProbeAnswers
    BY <1>1, <2>2, AnswerApplied DEF ProbeAnswers, Asking
  <2>3. QED
    BY <2>1, <2>2
<1>3. QED
  BY <1>2 DEF PageRecord

LEMMA NextScreen == Inv /\ ScreenInv /\ [Next]_vars => ScreenInv'
<1> SUFFICES ASSUME Inv, ScreenInv, [Next]_vars
             PROVE  ScreenInv'
  OBVIOUS
<1>0. /\ Given /\ Screen(state, doc) /\ TabInv /\ StateInv /\ ScopeInv /\ PageInv
      /\ StateFields(state)
  BY DEF ScreenInv, Inv, ScopeInv, Screen, Holds
<1>1. UNCHANGED <<events, settings>>
  BY DEF Next, Boots, Probed, Reload, Click, Shows, Build, Unload, ScopeNext, MakesPlots,
     GraphTimer, MapRead, NoMapRead, Plots, Resumes, Pauses, Expires, Serve, Settle,
     Arrive, Fail, Toggle, Write, buffer, scopeVars, vars
<1>2. Given'
  BY <1>0, <1>1, GivenStays
<1>3. SUFFICES /\ Screen(state', doc')
               /\ page'.cfg = page.cfg \/ (state'.shown = 0 /\ state'.lastHeader = 0)
  BY <1>1, <1>2, ScreenCarries DEF ScreenInv
<1>4. state.stage = "closed" => state = FreshState /\ doc = FreshDoc
  BY <1>0 DEF Screen
<1>5. state.stage # "closed" => page.phase = "up"
  BY <1>0 DEF TabInv, PageInv, Blank
<1>6. ASSUME Build
      PROVE  Screen(state', doc') /\ state'.shown = 0 /\ state'.lastHeader = 0
  <2>1. state' = [FreshState EXCEPT !.stage = "opened", !.excluded = Restored] /\ doc' = FreshDoc
    BY <1>4, <1>6 DEF Build
  <2>2. Screen(state', doc')
    BY <2>1, OpenScreen
  <2>3. Kept(state, state')
    BY <1>0, <1>6, StateKept
  <2>4. QED
    BY <1>4, <1>6, <2>2, <2>3, FreshStateIsAState DEF Kept, Build
<1>7. CASE Boots
  <2>1. state.stage = "closed"
    BY <1>5, <1>7 DEF Boots, ReadCommon, ReadOwn
  <2>2. Build \/ UNCHANGED <<state, doc>>
    BY <1>7 DEF Boots, Shows, scopeVars
  <2>3. QED
    BY <1>0, <1>4, <1>6, <2>1, <2>2, FreshStateIsAState
<1>8. CASE Reload
  <2>1. state' = FreshState /\ doc' = FreshDoc
    BY <1>8 DEF Reload, Unload
  <2>2. QED
    BY <2>1, FreshScreen, FreshStateIsAState
<1>9. CASE Probed \/ \E tab \in Tabs : Click(tab)
  <2>1. page'.cfg = page.cfg
    BY <1>9, PageKeepsItsCfg, WorldsAssumption DEF Probed, Click
  <2>2. Build \/ UNCHANGED <<state, doc>>
    BY <1>9 DEF Probed, Click, Shows, scopeVars
  <2>3. QED
    BY <1>0, <1>6, <2>1, <2>2
<1>10. CASE ScopeNext /\ UNCHANGED pageVars
  <2> SUFFICES Screen(state', doc')
    BY <1>10 DEF pageVars
  <2>1. CASE GraphTimer(Shown)
    <3>1. /\ state.stage = "opened" /\ state' = [state EXCEPT !.stage = "graph"]
          /\ doc' = Draw(state', doc)
      BY <2>1 DEF GraphTimer
    <3>2. state.layerMap = NoMap
      BY <1>0, <3>1 DEF Screen, Holds, Mapped
    <3>3. state' = [state EXCEPT !.stage = "graph", !.layerMap = NoMap]
      BY <1>0, <3>1, <3>2 DEF StateFields
    <3> DEFINE stage == "graph"
               map == NoMap
    <3>4. /\ stage \in {"graph", "mapped"} /\ stage # "mapped"
          /\ state' = [state EXCEPT !.stage = stage, !.layerMap = map] /\ map = NoMap
      BY <3>3
    <3> HIDE DEF stage, map
    <3> DEFINE t == [state EXCEPT !.stage = stage, !.layerMap = map]
    <3>5. Screen(t, Draw(t, doc))
      BY <1>0, <3>4, PlotsScreen
    <3> HIDE DEF t
    <3>6. state' = t
      BY <3>4 DEF t
    <3>7. QED
      BY <3>1, <3>5, <3>6
  <2>2. CASE MapRead(Shown)
    <3>1. /\ state' = [state EXCEPT !.stage = "mapped", !.layerMap = Decode(settings)]
          /\ doc' = Draw(state', doc) /\ Decode(settings) # NoMap
      BY <2>2 DEF MapRead
    <3>2. QED
      BY <1>0, <3>1, PlotsScreen
  <2>3. CASE NoMapRead
    <3>1. /\ state.stage = "graph" /\ state' = [state EXCEPT !.stage = "unmapped"]
          /\ doc' = doc
      BY <2>3 DEF NoMapRead
    <3>2. QED
      BY <1>0, <3>1, NoMapScreen
  <2>4. CASE Resumes \/ Pauses \/ Expires \/ Write \/ \E i \in Slots : Serve(i)
    BY <1>0, <2>4 DEF Resumes, Pauses, Expires, Write, Serve
  <2>5. ASSUME NEW i \in Slots, Arrive(i)
        PROVE  Screen(state', doc')
    <3>1. i \in UnderWay /\ requests[i].reply \in Nat /\ requests[i].reply <= newest
      BY <1>0, <2>5, Arriving
    <3>2. state.stage # "closed"
      BY <1>0, <3>1 DEF TabInv
    <3>3. CASE state' = state /\ doc' = Update(state, doc)
      BY <1>0, <3>2, <3>3, FailScreen
    <3>4. CASE \E e \in {requests[i].reply} \ {0} :
                 /\ state' = OnEvent(e, Event(e))
                 /\ doc' = Update(state', IF state'.shown = e
                                           THEN Draw(state', RenderPicker(state', doc))
                                           ELSE doc)
      <4>1. PICK e \in {requests[i].reply} \ {0} :
              /\ state' = OnEvent(e, Event(e))
              /\ doc' = Update(state', IF state'.shown = e
                                        THEN Draw(state', RenderPicker(state', doc))
                                        ELSE doc)
        BY <3>4
      <4>2. e \in 1 .. Len(events) /\ Len(events) \in Nat
        BY <1>0, <3>1, <4>1 DEF StateInv
      <4>3. QED
        BY <1>0, <3>2, <4>1, <4>2, ArriveScreen
    <3>5. QED
      BY <2>5, <3>3, <3>4 DEF Arrive
  <2>6. ASSUME NEW i \in Slots, Fail(i)
        PROVE  Screen(state', doc')
    <3>1. /\ i \in UnderWay /\ state' = [state EXCEPT !.error = TRUE]
          /\ doc' = Update(state', doc)
      BY <2>6 DEF Fail
    <3>2. state.stage # "closed"
      BY <1>0, <3>1 DEF TabInv
    <3>3. QED
      BY <1>0, <3>1, <3>2, FailScreen
  <2>7. ASSUME NEW ch \in state.known, Toggle(ch)
        PROVE  Screen(state', doc')
    <3>1. state.stage # "closed"
      BY <1>4, <2>7 DEF Toggle, FreshDoc
    <3>2. QED
      BY <1>0, <2>7, <3>1, ToggleScreen DEF Toggle
  <2>8. QED
    BY <1>10, <2>1, <2>2, <2>3, <2>4, <2>5, <2>6, <2>7 DEF ScopeNext, MakesPlots, Settle
<1>11. CASE UNCHANGED vars
  BY <1>0, <1>11 DEF vars, scopeVars, pageVars
<1>12. QED
  BY <1>7, <1>8, <1>9, <1>10, <1>11 DEF Next

-----------------------------------------------------------------------------
(* What the three sections and the status line tell of the event. *)

\* The event that is shown, as it was written and as it was decoded.
LEMMA ShownIs ==
  ASSUME ScreenInv, StateInv, state.shown # 0
  PROVE  LET e == state.shown
             n == events[e].banks.AD.bytes \div AD_HIT_BYTES
             counted(bank) == IF bank = Absent THEN Absent ELSE bank.hits
         IN /\ n \in Nat /\ RecordsOf(e) = 1 .. n
            /\ \A k \in 1 .. n : Records(e)[k] \in HitRecord
            /\ state.event.hits = [k \in 1 .. n |-> DecodeHit(Records(e)[k])]
            /\ state.event.timing = counted(events[e].banks.AT)
            /\ state.event.collector = counted(events[e].banks.AC)
            /\ \A k \in 1 .. n : ChannelOf(Records(e)[k]) \in state.known
            /\ IsEvent(events[e]) /\ state.known \subseteq Nat /\ IsFiniteSet(state.known)
<1> DEFINE e == state.shown
           banks == events[e].banks
           n == banks.AD.bytes \div AD_HIT_BYTES
           counted(bank) == IF bank = Absent THEN Absent ELSE bank.hits
<1>1. Given /\ Taken(state)
  BY DEF ScreenInv, Screen, Holds
<1>2. e \in 1 .. Len(events)
  BY DEF StateInv, StateRecord
<1>3. /\ state.event = Event(e) /\ Event(e) # Broken /\ Event(e) # NotOurs
      /\ state.event.channels \subseteq state.known /\ state.known \subseteq Nat
      /\ IsFiniteSet(state.known)
  BY <1>1 DEF Taken
<1>4. banks.AD # Absent /\ DecodeEvent(banks) # Broken /\ Event(e) = DecodeEvent(banks)
  BY <1>1, <1>2, <1>3, EventIs
<1>5. IsEvent(events[e])
  BY <1>1, <1>2 DEF Given
<1>6. /\ n \in Nat
      /\ \A k \in 1 .. n : banks.AD.records[k] \in HitRecord
      /\ DecodeEvent(banks) =
           [hits |-> [k \in 1 .. n |-> DecodeHit(banks.AD.records[k])],
            timing |-> counted(banks.AT), collector |-> counted(banks.AC),
            channels |-> {GlobalChannel(banks.AD.records[k]) : k \in 1 .. n}]
  BY <1>4, <1>5, DecodedIs
<1> DEFINE hits == [k \in 1 .. n |-> DecodeHit(banks.AD.records[k])]
           channels == {GlobalChannel(banks.AD.records[k]) : k \in 1 .. n}
<1> HIDE DEF e, n
<1>a. state.event = [hits |-> hits, timing |-> counted(banks.AT),
                     collector |-> counted(banks.AC), channels |-> channels]
  BY <1>3, <1>4, <1>6
<1> HIDE DEF hits, counted, channels
<1>b. /\ state.event.hits = hits /\ state.event.channels = channels
      /\ state.event.timing = counted(banks.AT) /\ state.event.collector = counted(banks.AC)
  BY <1>a
<1>7. /\ state.event.hits = [k \in 1 .. n |-> DecodeHit(banks.AD.records[k])]
      /\ state.event.timing = counted(banks.AT) /\ state.event.collector = counted(banks.AC)
      /\ state.event.channels = {GlobalChannel(banks.AD.records[k]) : k \in 1 .. n}
  BY <1>b DEF hits, counted, channels
<1>8. Records(e) = banks.AD.records /\ RecordsOf(e) = 1 .. n
  BY DEF Records, RecordsOf, n
<1>9. \A k \in 1 .. n : ChannelOf(Records(e)[k]) \in state.known
  BY <1>3, <1>7, <1>8 DEF ChannelOf, GlobalChannel
<1>10. /\ \A k \in 1 .. n : Records(e)[k] \in HitRecord
       /\ state.event.hits = [k \in 1 .. n |-> DecodeHit(Records(e)[k])]
  BY <1>6, <1>7, <1>8
<1>11. QED
  BY <1>3, <1>5, <1>6, <1>7, <1>8, <1>9, <1>10 DEF e, n, counted

\* The status line tells of the event that is shown, and marks a count that is not
\* that of its hits.
THEOREM StatusIsTrue == Spec => []StatusFits
<1>1. Inv /\ ScreenInv => StatusFits
  <2> SUFFICES ASSUME Inv, ScreenInv
               PROVE  StatusFits
    OBVIOUS
  <2>1. doc.status = StatusOf(state) /\ Headed(state) /\ StateInv /\ state.error \in BOOLEAN
    BY DEF ScreenInv, Screen, Holds, Inv, ScopeInv, StateInv, StateRecord
  <2>2. /\ doc.status.error = state.error
        /\ ~ state.error => doc.status.event = state.shown
    BY <2>1 DEF StatusOf
  <2>3. ASSUME ~ state.error, state.shown # 0
        PROVE  doc.status.red <=>
                 LET n == Cardinality(RecordsOf(state.shown))
                     banks == events[state.shown].banks
                 IN \/ banks.AT # Absent /\ banks.AT.hits # n
                    \/ banks.AC # Absent /\ banks.AC.hits # n
    <3> DEFINE banks == events[state.shown].banks
               n == banks.AD.bytes \div AD_HIT_BYTES
               counted(bank) == IF bank = Absent THEN Absent ELSE bank.hits
    <3>1. /\ n \in Nat /\ RecordsOf(state.shown) = 1 .. n
          /\ state.event.hits = [k \in 1 .. n |-> DecodeHit(Records(state.shown)[k])]
          /\ state.event.timing = counted(banks.AT) /\ state.event.collector = counted(banks.AC)
          /\ IsEvent(events[state.shown])
      BY <2>1, <2>3, ShownIs
    <3> HIDE DEF n
    <3>2. Cardinality(RecordsOf(state.shown)) = n
      BY <3>1, FS_Interval
    <3>3. Len(state.event.hits) = n
      BY <3>1
    <3>4. ASSUME NEW bank \in Count \union {Absent}
          PROVE  Differs(counted(bank), state.event.hits) <=> bank # Absent /\ bank.hits # n
      BY <3>3, OutcomesAssumption DEF Differs, Count
    <3>5. banks.AT \in Count \union {Absent} /\ banks.AC \in Count \union {Absent}
      BY <3>1 DEF IsEvent
    <3>6. doc.status.red <=> \/ Differs(state.event.timing, state.event.hits)
                             \/ Differs(state.event.collector, state.event.hits)
      BY <2>1, <2>3 DEF StatusOf
    <3>7. QED
      BY <3>1, <3>2, <3>4, <3>5, <3>6
  <2>4. QED
    BY <2>1, <2>2, <2>3 DEF StatusFits, Headed
<1>2. QED
  BY <1>1, InitInv, NextInv, InitScreen, NextScreen, PTL DEF Spec

\* Which plot a hit is on.
LEMMA MapIs ==
  ASSUME Mapped(state)
  PROVE  /\ state.stage = "mapped" => /\ settings # Missing /\ Num(settings.stride) > 0
                                      /\ DOMAIN state.layerMap = Placed(settings)
                                      /\ \A ch \in Placed(settings) :
                                           state.layerMap[ch] = Position(settings, ch)
         /\ LayersOf(state.layerMap) \subseteq LayersOf(Decode(settings))
         /\ \A ch : Covers(state.layerMap, ch) <=>
                      state.stage = "mapped" /\ ch \in Placed(settings)
BY DEF Mapped, Decode, LayersOf, Covers

LEMMA TracesAre ==
  ASSUME NEW s
  PROVE  LET own == {q \in {Fallback} : HitsOn(s, q) # {}} IN
         /\ DOMAIN Traces(s) = LayersOf(s.layerMap) \union own
         /\ \A p \in DOMAIN Traces(s) : Traces(s)[p] = HitsOn(s, p)
         /\ \A k \in Ticked(s) : PanelOf(s.layerMap, s.event.hits[k].channel) \in DOMAIN Traces(s)
<1> DEFINE own == {q \in {Fallback} : HitsOn(s, q) # {}}
<1>1. /\ DOMAIN Traces(s) = LayersOf(s.layerMap) \union own
      /\ \A p \in DOMAIN Traces(s) : Traces(s)[p] = HitsOn(s, p)
  BY DEF Traces
<1>2. ASSUME NEW k \in Ticked(s)
      PROVE  PanelOf(s.layerMap, s.event.hits[k].channel) \in LayersOf(s.layerMap) \union own
  <2> DEFINE ch == s.event.hits[k].channel
  <2>1. CASE Covers(s.layerMap, ch)
    BY <2>1 DEF PanelOf, Covers, LayersOf
  <2>2. CASE ~ Covers(s.layerMap, ch)
    <3>1. k \in HitsOn(s, Fallback)
      BY <2>2 DEF HitsOn, PanelOf
    <3>2. QED
      BY <2>2, <3>1 DEF PanelOf
  <2>3. QED
    BY <2>1, <2>2
<1>3. QED
  BY <1>1, <1>2

\* The members of a finite set that have fewer than m below them: m of them, or all.
LEMMA FirstOnes ==
  ASSUME NEW S \in SUBSET Nat, IsFiniteSet(S), NEW m \in Nat
  PROVE  LET first == {x \in S : Cardinality({y \in S : y < x}) < m} IN
         Cardinality(first) = IF m < Cardinality(S) THEN m ELSE Cardinality(S)
<1> DEFINE N == Cardinality(S)
           below(x) == {y \in S : y < x}
           rank == [x \in S |-> Cardinality(below(x))]
           first == {x \in S : Cardinality(below(x)) < m}
<1>1. N \in Nat
  BY FS_CardinalityType
<1>2. \A x \in S : IsFiniteSet(below(x)) /\ below(x) # S
  BY FS_Subset
<1>3. \A x \in S : Cardinality(below(x)) \in 0 .. N - 1
  <2> TAKE x \in S
  <2> DEFINE B == below(x)
  <2>1. B \in SUBSET S /\ B # S /\ IsFiniteSet(B)
    BY <1>2
  <2> HIDE DEF B
  <2>2. Cardinality(B) <= Cardinality(S) /\ Cardinality(B) # Cardinality(S)
    BY <2>1, FS_Subset
  <2>3. Cardinality(B) \in Nat
    BY <2>1, FS_CardinalityType
  <2>4. QED
    BY <1>1, <2>2, <2>3 DEF B
<1>4. ASSUME NEW x \in S, NEW z \in S, x < z
      PROVE  Cardinality(below(x)) < Cardinality(below(z))
  <2> DEFINE B == below(x)
             C == below(z)
  <2>1. B \in SUBSET C /\ IsFiniteSet(C) /\ IsFiniteSet(B) /\ C # B
    <3>1. x \in Nat /\ z \in Nat /\ \A y \in S : y \in Nat
      OBVIOUS
    <3>2. \A y \in B : y \in C
      BY <1>4, <3>1
    <3>3. x \in C /\ x \notin B
      BY <1>4, <3>1
    <3>4. QED
      BY <1>2, <3>2, <3>3
  <2> HIDE DEF B, C
  <2>2. Cardinality(B) <= Cardinality(C) /\ Cardinality(B) # Cardinality(C)
    BY <2>1, FS_Subset
  <2>3. Cardinality(B) \in Nat /\ Cardinality(C) \in Nat
    BY <2>1, FS_CardinalityType
  <2>4. QED
    BY <2>2, <2>3 DEF B, C
<1> HIDE DEF N, below
<1>5. rank \in [S -> 0 .. N - 1] /\ \A x, z \in S : rank[x] = rank[z] => x = z
  <2>1. rank \in [S -> 0 .. N - 1]
    BY <1>3
  <2>2. ASSUME NEW x \in S, NEW z \in S, rank[x] = rank[z]
        PROVE  x = z
    <3>1. Cardinality(below(x)) = Cardinality(below(z)) /\ Cardinality(below(x)) \in Nat
      BY <1>3, <2>2
    <3>2. ~ (x < z) /\ ~ (z < x)
      BY <1>4, <3>1
    <3>3. QED
      BY <3>2
  <2>3. QED
    BY <2>1, <2>2
<1>6. \A x \in S : x \in first <=> rank[x] < m
  OBVIOUS
<1>7. first \in SUBSET S
  OBVIOUS
<1>8. \A x \in S : rank[x] \in 0 .. N - 1
  BY <1>5
<1> HIDE DEF rank, first
<1>9. \A t \in 0 .. N - 1 : \E x \in S : rank[x] = t
  <2>1. rank \in Injection(S, 0 .. N - 1)
    BY <1>5 DEF Injection, IsInjective
  <2>2. IsFiniteSet(0 .. N - 1) /\ Cardinality(0 .. N - 1) = N
    BY <1>1, FS_Interval
  <2>3. rank \in Surjection(S, 0 .. N - 1)
    BY <2>1, <2>2, FS_Injection DEF N
  <2>4. QED
    BY <2>3 DEF Surjection
<1>10. CASE m < N
  <2> DEFINE f == [x \in first |-> rank[x]]
  <2>1. f \in [first -> 0 .. m - 1]
    BY <1>6, <1>7, <1>8
  <2>2. f \in Injection(first, 0 .. m - 1)
    BY <1>5, <1>7, <2>1 DEF Injection, IsInjective
  <2>3. f \in Surjection(first, 0 .. m - 1)
    <3> SUFFICES ASSUME NEW t \in 0 .. m - 1
                 PROVE  \E x \in first : f[x] = t
      BY <2>1 DEF Surjection
    <3>1. t \in 0 .. N - 1 /\ t < m
      BY <1>1, <1>10
    <3>2. PICK x \in S : rank[x] = t
      BY <1>9, <3>1
    <3>3. x \in first
      BY <1>6, <3>1, <3>2
    <3>4. QED
      BY <3>2, <3>3
  <2>4. IsFiniteSet(0 .. m - 1) /\ Cardinality(0 .. m - 1) = m
    BY FS_Interval
  <2> HIDE DEF f
  <2>5. Cardinality(first) = m
    BY <2>2, <2>3, <2>4, FS_Injection
  <2>6. QED
    BY <1>10, <2>5 DEF N, first, below
<1>11. CASE ~ (m < N)
  <2>1. \A x \in S : rank[x] < m
    BY <1>1, <1>8, <1>11
  <2>2. first = S
    BY <1>6, <1>7, <2>1
  <2>3. QED
    BY <1>11, <2>2 DEF N, first, below
<1>12. QED
  BY <1>10, <1>11

\* The closed line accounts for every channel that is hidden.
LEMMA LineAccounts ==
  ASSUME NEW s, s.known \subseteq Nat, IsFiniteSet(s.known)
  PROVE  LET off == s.known \cap s.excluded
             line == Hiding(s)
         IN /\ line \in [named : SUBSET Nat, more : Nat]
            /\ line.named \subseteq off
            /\ Cardinality(line.named) + line.more = Cardinality(off)
            /\ line.more > 0 => Cardinality(line.named) = PICKER_NAMED
<1> DEFINE off == s.known \cap s.excluded
           named == {ch \in off : Cardinality({c \in off : c < ch}) < PICKER_NAMED}
           N == Cardinality(off)
           more == Max({0, N - PICKER_NAMED})
<1>1. Hiding(s) = [named |-> named, more |-> more]
  BY DEF Hiding
<1>2. off \in SUBSET Nat /\ IsFiniteSet(off)
  BY FS_Subset
<1>3. N \in Nat /\ PICKER_NAMED \in Nat
  BY <1>2, FS_CardinalityType, ScopeAssumption
<1> HIDE DEF off
<1>4. Cardinality(named) = IF PICKER_NAMED < N THEN PICKER_NAMED ELSE N
  BY <1>2, <1>3, FirstOnes
<1>5. named \subseteq off
  OBVIOUS
<1> HIDE DEF named, N
<1>6. more \in {0, N - PICKER_NAMED} /\ more >= 0 /\ more >= N - PICKER_NAMED
  <2> DEFINE rest == N - PICKER_NAMED
  <2>1. rest \in Int /\ 0 \in Int
    BY <1>3
  <2> HIDE DEF rest
  <2>2. Max({0, rest}) \in {0, rest} /\ Max({0, rest}) >= 0 /\ Max({0, rest}) >= rest
    BY <2>1, SmallerAndLarger
  <2>3. QED
    BY <2>2 DEF rest
<1> HIDE DEF more
<1>7. /\ more \in Nat /\ Cardinality(named) + more = N
      /\ more > 0 => Cardinality(named) = PICKER_NAMED
  BY <1>3, <1>4, <1>6
<1>8. Hiding(s).named = named /\ Hiding(s).more = more
  BY <1>1
<1>9. Hiding(s) \in [named : SUBSET Nat, more : Nat]
  BY <1>1, <1>2, <1>5, <1>7
<1>10. QED
  BY <1>5, <1>7, <1>8, <1>9 DEF N, off

\* Every hit of the event is on the one plot it belongs to, which has axes if the hit
\* has samples, unless the box of its channel is clear, which the closed line tells.
THEOREM EveryHitIsShown == Spec => []EveryHitIsTold
<1>1. Inv /\ ScreenInv => EveryHitIsTold
  <2> SUFFICES ASSUME Inv, ScreenInv,
                      state.shown # 0, state.stage \notin {"closed", "opened"}
               PROVE  /\ doc.traces # None /\ doc.picker # None /\ LineFits
                      /\ \A k \in RecordsOf(state.shown) : Told(k)
    BY DEF EveryHitIsTold
  <2> DEFINE records == Records(state.shown)
             n == events[state.shown].banks.AD.bytes \div AD_HIT_BYTES
  <2>1. /\ Given /\ doc.picker = PickerOf(state) /\ doc.traces = Traces(state)
        /\ doc.white = White(state) /\ Mapped(state) /\ StateInv
    BY DEF ScreenInv, Screen, Holds, Picked, Drawn, Inv, ScopeInv
  <2>2. /\ n \in Nat /\ RecordsOf(state.shown) = 1 .. n
        /\ \A k \in 1 .. n : records[k] \in HitRecord
        /\ state.event.hits = [k \in 1 .. n |-> DecodeHit(records[k])]
        /\ \A k \in 1 .. n : ChannelOf(records[k]) \in state.known
        /\ state.known \subseteq Nat /\ IsFiniteSet(state.known)
    BY <2>1, ShownIs
  <2> HIDE DEF n, records
  <2>a. /\ doc.picker.boxes = state.known /\ doc.picker.ticked = state.known \ state.excluded
        /\ doc.picker.hiding = Hiding(state)
    BY <2>1 DEF PickerOf
  <2>b. ClearBoxes = state.known \cap state.excluded
    BY <2>a DEF ClearBoxes
  <2>3. doc.picker # None /\ LineFits
    <3>1. /\ Hiding(state) \in [named : SUBSET Nat, more : Nat]
          /\ Hiding(state).named \subseteq ClearBoxes
          /\ Cardinality(Hiding(state).named) + Hiding(state).more = Cardinality(ClearBoxes)
          /\ Hiding(state).more > 0 => Cardinality(Hiding(state).named) = PICKER_NAMED
      BY <2>2, <2>b, LineAccounts
    <3>2. doc.picker \in [boxes : SUBSET Nat, ticked : SUBSET Nat,
                          hiding : [named : SUBSET Nat, more : Nat]]
      BY <2>1, <2>2, <3>1 DEF PickerOf
    <3>3. doc.picker # None
      BY <3>2, ScopeAssumption
    <3>4. QED
      BY <2>a, <3>1, <3>3 DEF LineFits
  <2>4. DOMAIN state.event.hits = 1 .. n
        /\ \A k \in 1 .. n : state.event.hits[k].channel = ChannelOf(records[k])
    BY <2>2 DEF DecodeHit, ChannelOf, GlobalChannel
  <2>5. doc.traces # None
    <3> DEFINE plots == DOMAIN Traces(state)
               some == LayersOf(Decode(settings)) \union {Fallback}
    <3>1. plots \in SUBSET some
      BY <2>1, MapIs, TracesAre
    <3>a. \A p : HitsOn(state, p) \subseteq 1 .. n
      BY <2>4 DEF HitsOn, Ticked
    <3>b. \A p \in plots : Traces(state)[p] = HitsOn(state, p)
      BY TracesAre
    <3>2. \A p \in plots : Traces(state)[p] \in SUBSET Nat
      BY <3>a, <3>b
    <3>3. Traces(state) \in [plots -> SUBSET Nat]
      BY <3>2 DEF Traces
    <3>4. None \notin [plots -> SUBSET Nat]
      BY <2>1, <3>1 DEF Given
    <3>5. QED
      BY <2>1, <3>3, <3>4
  <2>6. ASSUME NEW k \in RecordsOf(state.shown)
        PROVE  Told(k)
    <3> DEFINE rec == records[k]
               ch == ChannelOf(rec)
               panel == PanelOf(state.layerMap, ch)
               its == IF state.stage = "mapped" /\ ch \in Placed(settings)
                        THEN Position(settings, ch).layer
                        ELSE Fallback
               on == {p \in DOMAIN doc.traces : k \in doc.traces[p]}
    <3>1. panel = its
      BY <2>1, MapIs DEF PanelOf
    <3>2. ch \in ClearBoxes <=> ch \in state.excluded
      BY <2>2, <2>6, <2>b
    <3>3. k \in Ticked(state) <=> ch \notin state.excluded
      BY <2>2, <2>4, <2>6 DEF Ticked
    <3>a. state.event.hits[k].channel = ch
      BY <2>2, <2>4, <2>6
    <3>b. \A p \in DOMAIN doc.traces : doc.traces[p] = HitsOn(state, p)
      BY <2>1, TracesAre
    <3>4. \A p \in DOMAIN doc.traces :
            k \in doc.traces[p] <=> k \in Ticked(state) /\ panel = p
      BY <3>a, <3>b DEF HitsOn
    <3>5. k \in Ticked(state) => panel \in DOMAIN doc.traces
      BY <2>1, <3>a, TracesAre
    <3>6. ASSUME HasSamples(rec), its \in doc.white, k \in Ticked(state)
          PROVE  FALSE
      <4>1. \A h \in HitsOn(state, its) : state.event.hits[h].waveform = << >>
        BY <2>1, <3>6 DEF White
      <4>2. k \in HitsOn(state, its)
        BY <3>1, <3>6, <3>a DEF HitsOn
      <4>3. state.event.hits[k].waveform = Waveform(rec) /\ rec \in HitRecord
        BY <2>2, <2>6 DEF DecodeHit
      <4>4. DOMAIN Waveform(rec) = {slot \in 1 .. AD_MAX_SAMPLES : slot <= rec.data_size}
        BY <4>3, WaveformIs
      <4>5. DOMAIN Waveform(rec) = {}
        BY <4>1, <4>2, <4>3
      <4>6. QED
        BY <3>6, <4>4, <4>5 DEF HasSamples
    <3> HIDE DEF panel, its, ch, rec
    <3>7. IF ch \in ClearBoxes
            THEN on = {}
            ELSE on = {its} /\ (HasSamples(rec) => its \notin doc.white)
      BY <3>1, <3>2, <3>3, <3>4, <3>5, <3>6
    <3>8. QED
      BY <3>7 DEF Told, records, its, ch, rec
  <2>7. QED
    BY <2>3, <2>5, <2>6
<1>2. QED
  BY <1>1, InitInv, NextInv, InitScreen, NextScreen, PTL DEF Spec

\* A set of natural numbers that has any has a least.
LEMMA LeastOne ==
  ASSUME NEW S \in SUBSET Nat, S # {}
  PROVE  Min(S) \in S /\ \A y \in S : Min(S) <= y
<1>1. PICK x \in S : \A y \in S : <<y, x>> \notin OpToRel(<, Nat)
  BY NatLessThanWellFounded, WFMin, Zenon
<1>2. x \in Nat /\ \A y \in S : y \in Nat
  OBVIOUS
<1>3. \A y \in S : ~ (y < x)
  BY <1>1, <1>2, Zenon DEF OpToRel
<1>4. \A y \in S : x <= y
  BY <1>2, <1>3
<1>5. QED
  BY <1>4 DEF Min

\* A record's area is the charge of its hit.
LEMMA AreaIsCharge ==
  ASSUME NEW rec \in HitRecord
  PROVE  ChargeOf(DecodeHit(rec)) = Area(rec)
<1> DEFINE n == Max({0, Min({rec.data_size, AD_MAX_SAMPLES})})
           hit == DecodeHit(rec)
<1>1. /\ DOMAIN Waveform(rec) = 1 .. n
      /\ \A k \in 1 .. n : Waveform(rec)[k] = rec.slots[k]
      /\ {slot \in 1 .. AD_MAX_SAMPLES : slot <= rec.data_size} = 1 .. n
  BY WaveformIs
<1>2. hit.waveform = Waveform(rec) /\ hit.baseline = rec.baseline
  BY DEF DecodeHit
<1> HIDE DEF n, hit
<1>3. [k \in DOMAIN hit.waveform |-> hit.baseline - hit.waveform[k]] =
        [k \in 1 .. n |-> rec.baseline - rec.slots[k]]
  BY <1>1, <1>2
<1>4. [k \in {slot \in 1 .. AD_MAX_SAMPLES : slot <= rec.data_size} |->
          rec.baseline - rec.slots[k]] = [k \in 1 .. n |-> rec.baseline - rec.slots[k]]
  BY <1>1
<1>5. QED
  BY <1>3, <1>4 DEF ChargeOf, Area, hit

LEMMA LayersAreNatural ==
  ASSUME settings # Missing => Numeric(settings), Mapped(state), state.stage = "mapped"
  PROVE  LayersOf(state.layerMap) \subseteq Nat
<1> SUFFICES ASSUME NEW ch \in Placed(settings)
             PROVE  Position(settings, ch).layer \in Nat
  BY MapIs DEF LayersOf
<1>1. settings # Missing /\ Num(settings.stride) > 0
  BY MapIs
<1>2. Index(settings, ch) \in Nat
  BY <1>1 DEF Placed, Numeric, Index
<1>3. settings.stride \in Nat \ {0}
  BY <1>1 DEF Num, Numeric
<1>4. QED
  BY <1>2, <1>3 DEF Position

\* The layers on the left, unless the first is a horizontal one.
LEMMA LeftIsEven ==
  ASSUME NEW map, LayersOf(map) \subseteq Nat, settings.first # "horizontal"
  PROVE  LeftMap(map) = LeftColumn(map)
<1> DEFINE evens == {layer \in LayersOf(map) : layer % 2 = 0}
<1>1. CASE evens = {}
  BY <1>1 DEF LeftMap, LeftColumn
<1>2. CASE evens # {}
  <2>1. Min(evens) \in evens
    BY <1>2, LeastOne
  <2>2. Min(evens) % 2 = 0
    BY <2>1
  <2> HIDE DEF evens
  <2>3. OrientationOf(settings, Min(evens)) # "horizontal"
    BY <2>2 DEF OrientationOf
  <2>4. QED
    BY <2>3 DEF LeftMap, LeftColumn, evens
<1>3. QED
  BY <1>1, <1>2

\* Plots, maps and profile tell of the same hits and the same charge.
THEOREM SectionsTellTheSame == Spec => []SectionsAgree
<1>1. Inv /\ ScreenInv => SectionsAgree
  <2> DEFINE layers == DOMAIN doc.traces \ {Fallback}
             shown(some) == UNION {doc.traces[layer] : layer \in some}
             charge(layer) ==
               SumFunction([k \in doc.traces[layer] |-> Area(Records(state.shown)[k])])
             map == state.layerMap
             layer(k) == map[state.event.hits[k].channel].layer
             view(some) == {k \in Marked(state) : layer(k) \in some}
  <2> SUFFICES ASSUME Inv, ScreenInv, state.shown # 0, state.stage = "mapped"
               PROVE  /\ doc.charge.left \union doc.charge.right = shown(layers)
                      /\ settings.first # "horizontal" =>
                           doc.charge.left = shown(LeftColumn(map) \cap layers)
                      /\ doc.charge.depth =
                           [l \in {m \in layers : charge(m) > 0} |-> charge(l)]
    BY DEF SectionsAgree
  <2>1. /\ Given /\ StateInv /\ Mapped(state) /\ map # NoMap
        /\ doc.traces = Traces(state) /\ doc.charge = Charge(state)
    BY DEF ScreenInv, Screen, Holds, Drawn, Mapped, Inv, ScopeInv
  <2>2. LayersOf(map) \subseteq Nat /\ Fallback \notin Nat
    BY <2>1, LayersAreNatural, FallbackAssumption DEF Given
  <2>3. layers = LayersOf(map)
    BY <2>1, <2>2, TracesAre
  <2>4. \A l \in layers : doc.traces[l] = HitsOn(state, l)
    BY <2>1, TracesAre
  <2>5. \A l \in layers : HitsOn(state, l) = {k \in Marked(state) : layer(k) = l}
    BY <2>2, <2>3 DEF HitsOn, PanelOf, Marked
  <2>6. \A k \in Marked(state) : layer(k) \in layers
    BY <2>3 DEF Marked, Covers, LayersOf
  <2>7. /\ doc.charge.left = view(LeftMap(map))
        /\ doc.charge.right = view(LayersOf(map) \ LeftMap(map))
        /\ doc.charge.depth =
             [l \in {m \in LayersOf(map) : ChargeIn(state, m) > 0} |-> ChargeIn(state, l)]
    <3> DEFINE onLeft == view(LeftMap(map))
               onRight == view(LayersOf(map) \ LeftMap(map))
               depth == [l \in {m \in LayersOf(map) : ChargeIn(state, m) > 0} |->
                           ChargeIn(state, l)]
    <3>1. doc.charge = [left |-> onLeft, right |-> onRight, depth |-> depth]
      BY <2>1 DEF Charge
    <3> HIDE DEF onLeft, onRight, depth
    <3>2. doc.charge.left = onLeft /\ doc.charge.right = onRight /\ doc.charge.depth = depth
      BY <3>1
    <3>3. QED
      BY <3>2 DEF onLeft, onRight, depth
  <2>8. ASSUME NEW some, some \subseteq layers
        PROVE  shown(some) = view(some)
    BY <2>4, <2>5, <2>8
  <2>9. ASSUME NEW l \in layers
        PROVE  ChargeIn(state, l) = charge(l)
    <3> DEFINE n == events[state.shown].banks.AD.bytes \div AD_HIT_BYTES
               hits == state.event.hits
               records == Records(state.shown)
    <3>1. /\ hits = [k \in 1 .. n |-> DecodeHit(records[k])]
          /\ \A k \in 1 .. n : records[k] \in HitRecord
      BY <2>1, ShownIs
    <3>2. Marked(state) \cap HitsOn(state, l) = doc.traces[l]
      BY <2>4, <2>5
    <3>3. doc.traces[l] \subseteq 1 .. n
      BY <2>4, <3>1 DEF HitsOn, Ticked
    <3> HIDE DEF n, hits, records
    <3>4. \A k \in doc.traces[l] : ChargeOf(hits[k]) = Area(records[k])
      BY <3>1, <3>3, AreaIsCharge
    <3>5. [k \in Marked(state) \cap HitsOn(state, l) |-> ChargeOf(hits[k])] =
            [k \in doc.traces[l] |-> Area(records[k])]
      BY <3>2, <3>4
    <3>6. QED
      BY <3>5 DEF ChargeIn, hits, records
  <2> HIDE DEF layers, shown, charge, layer, map
  <2>10. doc.charge.left \union doc.charge.right = shown(layers)
    <3>1. doc.charge.left \union doc.charge.right = view(layers)
      BY <2>3, <2>6, <2>7
    <3>2. QED
      BY <2>8, <3>1
  <2>11. settings.first # "horizontal" => doc.charge.left = shown(LeftColumn(map) \cap layers)
    <3> SUFFICES ASSUME settings.first # "horizontal"
                 PROVE  doc.charge.left = shown(LeftColumn(map) \cap layers)
      OBVIOUS
    <3>1. LeftMap(map) = LeftColumn(map)
      BY <2>2, LeftIsEven
    <3>2. LeftColumn(map) \cap layers = LeftColumn(map)
      BY <2>3 DEF LeftColumn
    <3>3. QED
      BY <2>7, <2>8, <3>1, <3>2
  <2>12. doc.charge.depth = [l \in {m \in layers : charge(m) > 0} |-> charge(l)]
    <3>1. {m \in layers : charge(m) > 0} = {m \in layers : ChargeIn(state, m) > 0}
      BY <2>9
    <3>2. [l \in {m \in layers : charge(m) > 0} |-> charge(l)] =
            [l \in {m \in layers : ChargeIn(state, m) > 0} |-> ChargeIn(state, l)]
      BY <2>9, <3>1
    <3>3. QED
      BY <2>3, <2>7, <3>2
  <2>13. QED
    BY <2>10, <2>11, <2>12 DEF map, layers, shown, charge
<1>2. QED
  BY <1>1, InitInv, NextInv, InitScreen, NextScreen, PTL DEF Spec
=============================================================================
