------------------------------- MODULE DqmPage -------------------------------
(***************************************************************************)
(* The page with its Scope tab: a tab is built, and its loop started, when *)
(* it is first shown; leaving it stops nothing; loading the page again     *)
(* starts all over but for what the URL and localStorage keep.             *)
(***************************************************************************)
EXTENDS ScopeTab

CONSTANTS
  Scope,    \* the tab
  Worlds    \* what the page may meet: the ODB, the events, the catalogue and localStorage

ASSUME WorldsAssumption ==
  /\ Scope \in Tabs
  /\ \A w \in Worlds : /\ w.tabs \in Seq(Tabs) \ {<< >>}
                       /\ w.kind \in [Elements -> Kinds]
                       /\ Len(w.events) \in Nat /\ w.losses \in Nat
                       /\ \A e \in 1 .. Len(w.events) : IsEvent(w.events[e])
                       /\ w.settings # Missing => Numeric(w.settings)
                       /\ \A plots \in SUBSET (LayersOf(Decode(w.settings)) \union {Fallback}) :
                            None \notin [plots -> SUBSET Nat]

vars == <<pageVars, scopeVars>>

Init ==
  /\ PageInit /\ ScopeInit
  /\ \E w \in Worlds : /\ odb = w.odb /\ settings = w.settings /\ events = w.events
                       /\ tabs = w.tabs /\ kind = w.kind /\ stored = w.stored
                       /\ losses = w.losses

Shown == page.open = Scope

\* The tab was opened and its plots are still to be made.
Pending == state.stage \in {"opened", "graph"}

\* Slip: the tab is built with the page, whichever is shown.
ShowsNone(tab) ==
  IF state.stage = "closed"
    THEN Build
    ELSE UNCHANGED scopeVars

\* showTab() as far as the Scope tab is concerned.
Shows(tab) ==
  IF tab = Scope /\ Scope \notin page.built
    THEN Build
    ELSE /\ left' = (left \/ (Pending /\ tab # Scope))
         /\ UNCHANGED <<loop, requests, state, doc, stored, buffer, overlapped, blank>>

Boots ==
  \/ ReadCommon /\ UNCHANGED scopeVars
  \/ ReadOwn /\ Shows(OpeningTab)

Probed == ProbeAnswers /\ UNCHANGED scopeVars

Click(tab) == ClickTab(tab) /\ Shows(tab)

Reload == LoadAgain /\ Unload

Settle(i) == Arrive(i) \/ Fail(i)

MakesPlots == GraphTimer(Shown) \/ MapRead(Shown) \/ NoMapRead

ScopeNext ==
  \/ MakesPlots
  \/ Resumes \/ Pauses \/ Expires
  \/ \E i \in Slots : Serve(i) \/ Settle(i)
  \/ \E ch \in state.known : Toggle(ch)
  \/ Write

Next ==
  \/ Boots \/ Probed \/ Reload
  \/ \E tab \in Tabs : Click(tab)
  \/ ScopeNext /\ UNCHANGED pageVars

\* Timeouts expire, and requests and reads come to an end.
Fairness ==
  /\ WF_vars(MakesPlots /\ UNCHANGED pageVars)
  /\ WF_vars(Expires /\ UNCHANGED pageVars)
  /\ \A i \in Slots :
       /\ WF_vars(Serve(i) /\ UNCHANGED pageVars)
       /\ WF_vars(Settle(i) /\ UNCHANGED pageVars)

Spec == Init /\ [][Next]_vars /\ Fairness

-----------------------------------------------------------------------------
\* What a hit record of an event holds, read from the bank.
Records(e) == events[e].banks.AD.records

RecordsOf(e) == 1 .. events[e].banks.AD.bytes \div AD_HIT_BYTES

\* A record's area below its baseline, over the samples it has.
Area(rec) ==
  SumFunction([k \in {slot \in 1 .. AD_MAX_SAMPLES : slot <= rec.data_size} |->
                 rec.baseline - rec.slots[k]])

ChannelOf(rec) == rec.board * CHANNELS_PER_BOARD + rec.channel

HasSamples(rec) == \E slot \in 1 .. AD_MAX_SAMPLES : slot <= rec.data_size

\* The channels whose boxes are clear, and the closed line that tells of them.
ClearBoxes == doc.picker.boxes \ doc.picker.ticked

LineFits ==
  LET line == doc.picker.hiding
  IN /\ line.named \subseteq ClearBoxes
     /\ Cardinality(line.named) + line.more = Cardinality(ClearBoxes)
     /\ line.more > 0 => Cardinality(line.named) = PICKER_NAMED

\* A hit of the event is on its plot, which has axes if the hit has a sample, unless
\* the box of its channel is clear.
Told(k) ==
  LET rec == Records(state.shown)[k]
      ch == ChannelOf(rec)
      on == {p \in DOMAIN doc.traces : k \in doc.traces[p]}
      its == IF state.stage = "mapped" /\ ch \in Placed(settings)
               THEN Position(settings, ch).layer
               ELSE Fallback
  IN IF ch \in ClearBoxes
       THEN on = {}
       ELSE on = {its} /\ (HasSamples(rec) => its \notin doc.white)

-----------------------------------------------------------------------------
\* Every variable keeps its range.
TypeOK ==
  /\ PageTypeOK
  /\ Poller!TypeOK
  /\ \A i \in UnderWay : /\ requests[i].since \in 0 .. newest
                         /\ requests[i].reply \in {None} \union 0 .. newest
  /\ state.stage \in {"closed", "opened", "graph", "mapped", "unmapped"}
  /\ state.lastHeader \in 0 .. newest /\ state.shown \in 0 .. newest
  /\ newest \in 0 .. Len(events) /\ losses \in Nat
  /\ state.stage = "closed" <=> Scope \notin page.built

\* A loop that runs in a visible page has a request under way or a timeout that will
\* send one, whatever the order of building, pausing, hiding and answering.
NeverStalls == Poller!NeverStalls

\* "A hidden tab must not go on pulling events out of a shared buffer", nor a
\* paused one, nor one that was never opened.
FallsSilent == Poller!FallsSilent

\* "A hit the page does not draw is a hit nobody sees": once there are plots, each
\* hit of the event the status line tells of is on one plot that is displayed, its
\* layer's or the last, and the plot is not the white one of the bounds' comment if the
\* hit has a sample; unless the box of its channel is clear, and the picker's closed
\* line accounts for every clear box.
\* So it is whether the event came before the plots, between them or after, and
\* whatever was unticked in an earlier load of the page.
\* Less than two comments say: a hit with no sample gets no trace, and alone on its
\* plot leaves that white, "which is this page set's own stated failure mode"
\* (dqm-scope.js:605-611); and the line names the hidden channels only up to
\* PICKER_NAMED of them, and counts the others.
EveryHitIsTold ==
  state.shown # 0 /\ state.stage \notin {"closed", "opened"} =>
    /\ doc.traces # None /\ doc.picker # None /\ LineFits
    /\ \A k \in RecordsOf(state.shown) : Told(k)

\* "The number and the plot cannot disagree about what this event means", nor "two
\* sections of one page ... about which coordinate is which side": the maps mark the
\* hits the layers' plots show, the one on the left those of the left column, if the
\* first layer is not a horizontal one; the profile has the charge of just these,
\* over the samples they have, in each layer where it comes to anything.
SectionsAgree ==
  state.shown # 0 /\ state.stage = "mapped" =>
    LET layers == DOMAIN doc.traces \ {Fallback}
        shown(some) == UNION {doc.traces[layer] : layer \in some}
        charge(layer) ==
          SumFunction([k \in doc.traces[layer] |-> Area(Records(state.shown)[k])])
    IN /\ doc.charge.left \union doc.charge.right = shown(layers)
       /\ settings.first # "horizontal" =>
            doc.charge.left = shown(LeftColumn(state.layerMap) \cap layers)
       /\ doc.charge.depth =
            [layer \in {l \in layers : charge(l) > 0} |-> charge(layer)]

\* The status line tells of the event that is shown, in red if one of its counts is
\* not that of its hits; of an error, from an event that could not be decoded or a
\* request that failed to the next event.
StatusFits ==
  /\ doc.status.error = state.error
  /\ ~ state.error => doc.status.event = state.shown
  /\ ~ state.error /\ state.shown # 0 =>
       (doc.status.red <=>
          LET n == Cardinality(RecordsOf(state.shown))
              banks == events[state.shown].banks
          IN \/ banks.AT # Absent /\ banks.AT.hits # n
             \/ banks.AC # Absent /\ banks.AC.hits # n)
  /\ state.lastHeader # 0 /\ events[state.lastHeader].id = page.cfg.eventId
       /\ events[state.lastHeader].banks.AD # Absent
       => state.error \/ state.shown = state.lastHeader

\* "Every renderer runs against a host that has a size": no plot is made in a tab
\* that is not shown, unless the tab was left before its plots were made.
PlotsHaveASize == blank => left

\* The event that is shown is never followed by an older one, unless Resume or the
\* page being shown again sent a request beside another.
NeverGoesBack == [][~ overlapped' /\ state'.stage # "closed" => state'.shown >= state.shown]_vars

\* However requests failed, overlapped or came late: a tab that runs in a visible
\* page comes to hold the newest event, shown if it can be decoded and reported if
\* it cannot.
SettlesOnTheNewest ==
  <>[](running /\ ~ hidden) =>
    <>[](state.lastHeader = newest
         /\ (newest # 0 => CASE Event(newest) = Broken -> state.error
                             [] Event(newest) = NotOurs -> TRUE
                             [] OTHER -> state.shown = newest))
=============================================================================
