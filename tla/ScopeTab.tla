------------------------------ MODULE ScopeTab ------------------------------
(***************************************************************************)
(* The Scope tab, dqm-scope.js: it asks mhttpd for the newest event of the *)
(* buffer, over and over, and shows it three ways: the waveforms, one plot *)
(* per layer of the target; the hits on two maps of the target; the charge *)
(* against depth.  The plots are made in steps of their own after the tab  *)
(* is built, the layers' when the channel map was read, so an event may    *)
(* come before, between or after them; requests may overlap.               *)
(*                                                                         *)
(* The variable `state` is the object of that name, `doc` what stands in   *)
(* the document, and the operators on them are the functions of the code.  *)
(* An event is the number it has in `events`, in the order written; zero   *)
(* is none.                                                                *)
(***************************************************************************)
EXTENDS AdBanks, AtarGeom, PageTabs

CONSTANTS
  Fallback,     \* the plot for the channels the map does not place
  None,
  PICKER_NAMED, \* how many hidden channels the closed picker names
  MaxChains     \* Bound: timers and requests of the loop, together.

ASSUME ScopeAssumption ==
  /\ MaxChains \in Nat /\ PICKER_NAMED \in Nat
  /\ None \notin Nat \union [since : Nat, reply : Nat \union {None}]
               \union [boxes : SUBSET Nat, ticked : SUBSET Nat,
                       hiding : [named : SUBSET Nat, more : Nat]]

ASSUME FallbackAssumption == Fallback \notin Int

VARIABLES
  running, hidden, timers, handle,  \* the loop: see PollLoop
  requests,    \* the requests that await a reply: what event they are to be newer
               \* than, and the reply once it was served
  state, doc,
  stored,      \* localStorage: the channels to be left out, or None if it is blocked
  events,      \* the events frontends write
  newest,      \* how many of them were written
  settings,    \* /Equipment/SAMPIC/Settings
  losses,      \* Bound: requests that may still fail
  overlapped,  \* history: a request was sent by Resume or by the page being shown
               \* while another was under way or a timeout was pending
  blank,       \* history: plots were made in a tab that was not shown
  left         \* history: the tab was left before its plots were made

loop == <<running, hidden, timers, handle>>
buffer == <<events, newest, settings, losses>>
scopeVars == <<loop, requests, state, doc, stored, buffer, overlapped, blank, left>>

Slots == 1 .. MaxChains

UnderWay == {i \in Slots : requests[i] # None}

Poller == INSTANCE ScopePoll WITH inflight <- Cardinality(UnderWay)

FreshState ==
  [stage |-> "closed", layerMap |-> NoMap, lastHeader |-> 0, shown |-> 0,
   event |-> None, error |-> FALSE, known |-> {}, excluded |-> {}]

FreshDoc == [picker |-> None, traces |-> None, white |-> {}, charge |-> None,
             status |-> [error |-> FALSE, event |-> 0, red |-> FALSE]]

NoRequests == [i \in Slots |-> None]

ScopeInit ==
  /\ requests = NoRequests /\ Poller!Init
  /\ state = FreshState /\ doc = FreshDoc
  /\ newest = 0
  /\ overlapped = FALSE /\ blank = FALSE /\ left = FALSE

-----------------------------------------------------------------------------
\* What fromEvent() makes of an event.
Event(e) == FromEvent(events[e], page.cfg.eventId)

\* The hits that are to be drawn.
Ticked(s) ==
  {k \in DOMAIN s.event.hits : s.event.hits[k].channel \notin s.excluded}

\* The plot a hit is drawn on.
PanelOf(map, ch) == IF Covers(map, ch) THEN map[ch].layer ELSE Fallback

HitsOn(s, panel) ==
  {k \in Ticked(s) : PanelOf(s.layerMap, s.event.hits[k].channel) = panel}

\* draw(): the plots that are displayed and the hits on each.  A layer's is there
\* with or without hits, the last one only with.
Traces(s) ==
  [p \in LayersOf(s.layerMap) \union {q \in {Fallback} : HitsOn(s, q) # {}} |-> HitsOn(s, p)]

\* The plots that are left without bounds, which mplot paints white: all the traces
\* they have are of hits with no samples.
White(s) ==
  {p \in DOMAIN Traces(s) : /\ HitsOn(s, p) # {}
                            /\ \A k \in HitsOn(s, p) : s.event.hits[k].waveform = << >>}

\* buildHitMaps(): the layers of the map on the left.
LeftMap(map) ==
  LET evens == {layer \in LayersOf(map) : layer % 2 = 0}
      leftIsEven == evens = {} \/ OrientationOf(settings, Min(evens)) # "horizontal"
  IN IF leftIsEven THEN evens ELSE LayersOf(map) \ evens

\* The hits the maps can place.
Marked(s) == {k \in Ticked(s) : Covers(s.layerMap, s.event.hits[k].channel)}

ChargeIn(s, layer) ==
  SumFunction([k \in Marked(s) \cap HitsOn(s, layer) |-> ChargeOf(s.event.hits[k])])

\* drawChargeDisplay(): the two maps, and the profile, which leaves out a layer
\* that has no charge.
Charge(s) ==
  LET layers == LayersOf(s.layerMap)
      view(shown) == {k \in Marked(s) : s.layerMap[s.event.hits[k].channel].layer \in shown}
  IN [left |-> view(LeftMap(s.layerMap)), right |-> view(layers \ LeftMap(s.layerMap)),
      depth |-> [layer \in {l \in layers : ChargeIn(s, l) > 0} |-> ChargeIn(s, layer)]]

\* draw() and drawChargeDisplay(): nothing before there is a graph and an event.
Draw(s, d) ==
  IF s.stage \in {"closed", "opened"} \/ s.shown = 0
    THEN d
    ELSE [d EXCEPT !.traces = Traces(s), !.white = White(s),
                   !.charge = IF s.layerMap = NoMap THEN @ ELSE Charge(s)]

\* summarisePicker(): the closed line names the first of the hidden channels and
\* counts the rest.
Hiding(s) ==
  LET off == s.known \cap s.excluded
  IN [named |-> {ch \in off : Cardinality({c \in off : c < ch}) < PICKER_NAMED},
      more |-> Max({0, Cardinality(off) - PICKER_NAMED})]

\* renderChannelPicker(), with the event's channels in `known`: the boxes are made
\* anew when there are more of them.
RenderPicker(s, d) ==
  [d EXCEPT !.picker =
     IF @ # None /\ @.boxes = s.known
       THEN [@ EXCEPT !.hiding = Hiding(s)]
       ELSE [boxes |-> s.known, ticked |-> s.known \ s.excluded, hiding |-> Hiding(s)]]

\* Slip: a bank that is not there counts other than AD carries.
DiffersAnyway(count, hits) == count # Len(hits)

\* A bank that counts other than AD carries.
Differs(count, hits) == count # Absent /\ count # Len(hits)

\* update(): the status line.
Update(s, d) ==
  [d EXCEPT !.status =
     [error |-> s.error,
      event |-> IF s.error THEN 0 ELSE s.shown,
      red |-> /\ ~ s.error /\ s.shown # 0
              /\ \/ Differs(s.event.timing, s.event.hits)
                 \/ Differs(s.event.collector, s.event.hits)]]

-----------------------------------------------------------------------------
\* poll() sends a request for an event other than the last, into the first slot
\* that is free, or none.
MaySend ==
  \/ UNCHANGED requests
  \/ \E i \in Slots \ UnderWay :
       /\ \A j \in Slots \ UnderWay : i <= j
       /\ requests' = [requests EXCEPT ![i] = [since |-> state.lastHeader, reply |-> None]]

Overlaps ==
  overlapped' = (overlapped \/ (requests' # requests /\ (UnderWay # {} \/ timers > 0)))

\* restore()
Restored == IF stored = None THEN {} ELSE stored

\* The three tiles are built.  The plots come later; the loop starts at once.
Build ==
  /\ state.stage = "closed"
  /\ state' = [state EXCEPT !.stage = "opened", !.excluded = Restored]
  /\ MaySend /\ Poller!Resume
  /\ UNCHANGED <<doc, stored, buffer, overlapped, blank, left>>

\* The Pause button, on Resume, or the browser's tab is shown again, which nothing
\* hears of before the tab is built.
Resumes ==
  /\ MaySend /\ Overlaps
  /\ Poller!Show \/ (state.stage # "closed" /\ Poller!Resume)
  /\ UNCHANGED <<state, doc, stored, buffer, blank, left>>

Pauses ==
  /\ UNCHANGED <<requests, state, doc, stored, buffer, overlapped, blank, left>>
  /\ Poller!Pause \/ Poller!Hide

Expires ==
  /\ MaySend /\ Poller!Fire
  /\ UNCHANGED <<state, doc, stored, buffer, overlapped, blank, left>>

\* Plots are made; `shown` says whether the tab is.
Plots(shown) ==
  /\ blank' = (blank \/ ~ shown)
  /\ UNCHANGED <<loop, requests, stored, buffer, overlapped, left>>

\* Slip: the plot that comes late is left to the next event.
WaitsForEvent(shown) ==
  /\ state.stage = "opened"
  /\ state' = [state EXCEPT !.stage = "graph"]
  /\ Plots(shown)
  /\ UNCHANGED doc

\* The callback of setTimeout(0): one plot, and the map is asked for.
GraphTimer(shown) ==
  /\ state.stage = "opened"
  /\ state' = [state EXCEPT !.stage = "graph"]
  /\ doc' = Draw(state', doc)
  /\ Plots(shown)

\* The map has come: a plot per layer, the maps and the profile.
MapRead(shown) ==
  /\ state.stage = "graph" /\ Decode(settings) # NoMap
  /\ state' = [state EXCEPT !.stage = "mapped", !.layerMap = Decode(settings)]
  /\ doc' = Draw(state', doc)
  /\ Plots(shown)

\* There is no map: the one plot stays.
NoMapRead ==
  /\ state.stage = "graph" /\ Decode(settings) = NoMap
  /\ state' = [state EXCEPT !.stage = "unmapped"]
  /\ UNCHANGED <<loop, requests, doc, stored, buffer, overlapped, blank, left>>

\* External: mhttpd answers with the newest event, if it is another than the one
\* the request names.
Serve(i) ==
  /\ i \in UnderWay /\ requests[i].reply = None
  /\ requests' = [requests EXCEPT
       ![i].reply = IF newest = requests[i].since THEN 0 ELSE newest]
  /\ UNCHANGED <<loop, state, doc, stored, buffer, overlapped, blank, left>>

\* The request is over and the loop is armed again.
Ends(i) == requests' = [requests EXCEPT ![i] = None] /\ Poller!Answer

\* onEvent(): a new event is the only thing that clears an error; one that is not
\* ours does only that; one that cannot be decoded is an error of its own.
OnEvent(e, decoded) ==
  LET seen == [state EXCEPT !.lastHeader = e, !.error = FALSE]
  IN CASE decoded = Broken -> [seen EXCEPT !.error = TRUE]
       [] decoded = NotOurs -> seen
       [] OTHER -> [seen EXCEPT !.shown = e, !.event = decoded,
                                !.known = @ \union decoded.channels]

\* A reply without an event only brings the status line up to date.
Arrive(i) ==
  /\ i \in UnderWay /\ requests[i].reply # None
  /\ \/ /\ requests[i].reply = 0
        /\ state' = state
        /\ doc' = Update(state, doc)
     \/ \E e \in {requests[i].reply} \ {0} : \E decoded \in {Event(e)} :
          /\ state' = OnEvent(e, decoded)
          /\ doc' = Update(state', IF state'.shown = e
                                    THEN Draw(state', RenderPicker(state', doc))
                                    ELSE doc)
  /\ Ends(i)
  /\ UNCHANGED <<stored, buffer, overlapped, blank, left>>

\* The request fails.
Fail(i) ==
  /\ i \in UnderWay /\ losses > 0
  /\ losses' = losses - 1
  /\ state' = [state EXCEPT !.error = TRUE]
  /\ doc' = Update(state', doc)
  /\ Ends(i)
  /\ UNCHANGED <<stored, events, newest, settings, overlapped, blank, left>>

\* A box of the picker is clicked, which save() keeps if it can.
Toggle(ch) ==
  /\ doc.picker # None /\ ch \in doc.picker.boxes
  /\ LET ticks == ch \notin doc.picker.ticked
         off == IF ticks THEN state.excluded \ {ch} ELSE state.excluded \union {ch}
         box == [doc EXCEPT !.picker.ticked = IF ticks THEN @ \union {ch} ELSE @ \ {ch}]
     IN /\ state' = [state EXCEPT !.excluded = off]
        /\ stored' \in {stored} \union {kept \in {off} : stored # None}
        /\ doc' = Draw(state', [box EXCEPT !.picker.hiding = Hiding(state')])
  /\ UNCHANGED <<loop, requests, buffer, overlapped, blank, left>>

\* A frontend writes the next event.
Write ==
  /\ newest < Len(events)
  /\ newest' = newest + 1
  /\ UNCHANGED <<loop, requests, state, doc, stored, events, settings, losses,
                 overlapped, blank, left>>

\* Everything but localStorage goes with the page.
Unload ==
  /\ requests' = NoRequests /\ Poller!Unload
  /\ state' = FreshState /\ doc' = FreshDoc
  /\ overlapped' = FALSE /\ blank' = FALSE /\ left' = FALSE
  /\ UNCHANGED <<stored, buffer>>
=============================================================================
