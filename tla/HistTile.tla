------------------------------ MODULE HistTile ------------------------------
(***************************************************************************)
(* One histogram tile of the page (histPanel of dqm-hists.js): a plot, the *)
(* chip that says how many events a rolling plot covers, and the note      *)
(* under them.  An AutoUpdater drives it.  Each tick makes one to three    *)
(* calls (call() of dqm-brpc.js) and the analyzer may fill, clear, rebuild *)
(* or lose the histogram between any two of them; replies come back when   *)
(* they come back.                                                         *)
(*                                                                         *)
(* The histogram is abstracted to the number of its state: `state` changes *)
(* whenever the counts, the window or the binning do, and a reply carries  *)
(* the number it was made at; or it says that there is no such histogram.  *)
(***************************************************************************)
EXTENDS Integers, FiniteSets

CONSTANTS
  Sizes,        \* sizes of an encoded histogram
  FirstMax,     \* what a call first asks for: DEFAULT_MAX["dqm::histogram"]
  None,
  MaxChains,    \* Bound: timers and ticks of the tile, together.
  MaxChanges,   \* Bound: changes of the histogram.
  MaxOutages    \* Bound: times the analyzer goes away or loses the histogram.

ASSUME SizesAssumption == Sizes \subseteq Nat /\ Sizes # {} /\ FirstMax \in Nat
ASSUME ChainsAssumption == MaxChains \in Nat

\* Whether the histogram was there when a reply was made, its state and how long
\* it is; when it was not, the reply is an error frame.
Reply == [found : BOOLEAN, state : Nat, size : Sizes]

\* A call on its way: what it wants of the histogram, the length it allows the
\* reply, whether it is the second attempt, and the reply once it was served.
Call == [wants : {"title", "counts", "window"}, max : Nat, again : BOOLEAN,
         reply : Reply \union {None}]

ASSUME NoneAssumption == None \notin Nat \union Reply \union Call

VARIABLES
  running, hidden, timers, handle,   \* the AutoUpdater: see PollLoop
  ticks,        \* the ticks that await a reply, each with the call it makes
  graphs,       \* how many MPlotGraph objects were made
  plot,         \* the state of the histogram the plot shows, or None
  chip,         \* the state of the histogram the window chip tells of, or None
  note,         \* what stands under the plot
  rolling,      \* the histogram is a rolling one
  exists,       \* the analyzer has the histogram
  state, size,  \* the histogram in the analyzer
  up, outages,  \* the analyzer answers
  overlapped    \* history: a tick was sent by a button or by the page being
                \* shown while another awaited a reply

loop == <<running, hidden, timers, handle>>
tile == <<graphs, plot, chip, note>>
analyzer == <<rolling, exists, state, size, up, outages>>
vars == <<loop, ticks, tile, analyzer, overlapped>>

Slots == 1 .. MaxChains

UnderWay == {i \in Slots : ticks[i] # None}

Updater == INSTANCE AutoUpdater WITH inflight <- Cardinality(UnderWay)

-----------------------------------------------------------------------------
\* call(), from its first attempt.
Ask(what) == [wants |-> what, max |-> FirstMax, again |-> FALSE, reply |-> None]

\* Slip: counts are asked for before there is a graph.
AsksCounts == Ask("counts")

\* if (!graph) await build()
FirstAsk == IF graphs = 0 THEN Ask("title") ELSE Ask("counts")

Init ==
  /\ ticks = [i \in Slots |-> None]
  /\ Updater!Init
  /\ graphs = 0 /\ plot = None /\ chip = None /\ note = "asking"
  /\ rolling \in BOOLEAN
  /\ exists \in BOOLEAN /\ state = 0 /\ size \in Sizes
  /\ up \in BOOLEAN /\ outages = 0
  /\ overlapped = FALSE

\* The AutoUpdater sends a tick, into the first slot that is free, or none.
MayTick ==
  \/ UNCHANGED ticks
  \/ \E i \in Slots \ UnderWay :
       /\ \A j \in Slots \ UnderWay : i <= j
       /\ ticks' = [ticks EXCEPT ![i] = FirstAsk]

Resumes ==
  /\ MayTick
  /\ overlapped' = (overlapped \/ (ticks' # ticks /\ UnderWay # {}))
  /\ Updater!Start \/ Updater!Show
  /\ UNCHANGED <<tile, analyzer>>

Pauses ==
  /\ UNCHANGED <<ticks, tile, analyzer, overlapped>>
  /\ Updater!Stop \/ Updater!Hide

Expires ==
  /\ MayTick
  /\ Updater!Fire
  /\ UNCHANGED <<tile, analyzer, overlapped>>

-----------------------------------------------------------------------------
\* The tick in slot i goes on to another call.
GoesOn(i, call) == ticks' = [ticks EXCEPT ![i] = call] /\ UNCHANGED loop

\* The tick in slot i is over; the AutoUpdater arms the next one.
Ends(i) == ticks' = [ticks EXCEPT ![i] = None] /\ Updater!Answer

Awaits(i, what) == i \in UnderWay /\ ticks[i].wants = what

Answered(i, what) ==
  Awaits(i, what) /\ ticks[i].reply # None /\ ticks[i].reply.found

\* The reply is an error frame, which json() and histogram() throw.
Refused(i) ==
  i \in UnderWay /\ ticks[i].reply # None /\ ~ ticks[i].reply.found

\* The reply is longer than the call allowed.  Metadata always fit.
Truncated(i) == ticks[i].wants = "counts" /\ ticks[i].reply.size > ticks[i].max

\* What _histogram() or _metadata() answers.
Current == [found |-> exists, state |-> state, size |-> size]

\* dispatch() and serve() make the reply to the call in slot i.
Serve(i) ==
  /\ up /\ i \in UnderWay /\ ticks[i].reply = None
  /\ GoesOn(i, [ticks[i] EXCEPT !.reply = Current])
  /\ UNCHANGED <<tile, analyzer, overlapped>>

\* build(): a graph, with titles from the metadata.
Build(i) ==
  /\ Answered(i, "title")
  /\ graphs' = graphs + 1
  /\ GoesOn(i, Ask("counts"))
  /\ UNCHANGED <<plot, chip, note, analyzer, overlapped>>

\* Slip: the second attempt allows no more than the first.
RetrySame(i) ==
  /\ Answered(i, "counts") /\ Truncated(i) /\ ~ ticks[i].again
  /\ GoesOn(i, [ticks[i] EXCEPT !.again = TRUE, !.reply = None])
  /\ UNCHANGED <<tile, analyzer, overlapped>>

\* call() asks once more, for the length the header gave.
Retry(i) ==
  /\ Answered(i, "counts") /\ Truncated(i) /\ ~ ticks[i].again
  /\ GoesOn(i, [ticks[i] EXCEPT !.max = ticks[i].reply.size,
                                !.again = TRUE, !.reply = None])
  /\ UNCHANGED <<tile, analyzer, overlapped>>

\* The counts are drawn; a rolling plot then asks for its window.
Draw(i) ==
  /\ Answered(i, "counts") /\ ~ Truncated(i)
  /\ plot' = ticks[i].reply.state
  /\ IF rolling
       THEN GoesOn(i, Ask("window")) /\ UNCHANGED note
       ELSE Ends(i) /\ note' = "none"
  /\ UNCHANGED <<graphs, chip, analyzer, overlapped>>

\* The chip is written.
Say(i) ==
  /\ Answered(i, "window")
  /\ chip' = ticks[i].reply.state
  /\ note' = "none"
  /\ Ends(i)
  /\ UNCHANGED <<graphs, plot, analyzer, overlapped>>

\* Slip: the note is chosen by whether there is a graph.
ComplainsByGraph ==
  note' = IF graphs = 0 THEN "nothing answered" ELSE "stopped answering"

\* onError(): whether anything was ever drawn decides what is said.
Complains == note' = IF plot = None THEN "nothing answered" ELSE "stopped answering"

\* Nobody answers, the analyzer answers that it has no such histogram, or the
\* reply outgrew the second attempt.
Fail(i) ==
  /\ i \in UnderWay
  /\ \/ ~ up /\ ticks[i].reply = None
     \/ Refused(i)
     \/ Answered(i, "counts") /\ Truncated(i) /\ ticks[i].again
  /\ Complains
  /\ Ends(i)
  /\ UNCHANGED <<graphs, plot, chip, analyzer, overlapped>>

Settle(i) == Build(i) \/ Retry(i) \/ Draw(i) \/ Say(i) \/ Fail(i)

-----------------------------------------------------------------------------
\* The analyzer fills or clears the histogram, or rebuilds it, which brings it
\* back if it was lost.
Change ==
  /\ state < MaxChanges
  /\ state' = state + 1
  /\ exists' = TRUE /\ size' \in Sizes
  /\ UNCHANGED <<loop, ticks, tile, rolling, up, outages, overlapped>>

\* A rebuild raises once it has removed the histogram.
Vanish ==
  /\ exists /\ outages < MaxOutages
  /\ outages' = outages + 1
  /\ exists' = FALSE
  /\ UNCHANGED <<loop, ticks, tile, rolling, state, size, up, overlapped>>

\* The analyzer, or the way to it, goes away and comes back.
ComeAndGo ==
  /\ up => outages < MaxOutages
  /\ outages' = IF up THEN outages + 1 ELSE outages
  /\ up' = ~ up
  /\ UNCHANGED <<loop, ticks, tile, rolling, exists, state, size, overlapped>>

Next ==
  \/ Resumes \/ Pauses \/ Expires
  \/ \E i \in Slots : Serve(i) \/ Settle(i)
  \/ Change \/ Vanish \/ ComeAndGo

\* Timeouts expire, an analyzer that is there answers, and calls come to an end.
Fairness ==
  /\ WF_vars(Expires)
  /\ \A i \in Slots : WF_vars(Serve(i)) /\ WF_vars(Settle(i))

Spec == Init /\ [][Next]_vars /\ Fairness

-----------------------------------------------------------------------------
\* Every variable keeps its range; a plot and its chip are drawn only once there
\* is a graph to draw in.
TypeOK ==
  /\ Updater!TypeOK
  /\ ticks \in [Slots -> Call \union {None}]
  /\ graphs \in Nat
  /\ plot \in Nat \union {None} /\ chip \in Nat \union {None}
  /\ note \in {"asking", "none", "nothing answered", "stopped answering"}
  /\ rolling \in BOOLEAN /\ exists \in BOOLEAN /\ up \in BOOLEAN
  /\ overlapped \in BOOLEAN
  /\ state \in Nat /\ size \in Sizes /\ outages \in Nat
  /\ (\E i \in UnderWay : ticks[i].wants # "title") \/ plot # None => graphs > 0

\* "Re-arming from the response cannot" stack requests: unless a button or the
\* page being shown again sent a tick beside one that was awaited, there is one
\* request, and the tile has built one graph.
OneAtATime == ~ overlapped => Updater!OneInFlight /\ graphs <= 1

\* Nor, then, is a plot or its chip ever replaced by an older one: a late reply
\* cannot come after a later one.
NeverGoesBack ==
  [][~ overlapped' => /\ plot # None => plot' >= plot
                      /\ chip # None => chip' >= chip]_vars

\* "The plot above is the last one it sent" is said only of a plot, and "nothing
\* answered" is not said of a tile that has one, except while the same tick that
\* drew it still asks for the window.
NoteFitsPlot ==
  /\ note = "stopped answering" => plot # None
  /\ note = "nothing answered" /\ plot # None => \E i \in UnderWay : Awaits(i, "window")

\* However calls were truncated, refused, failed, overlapped or answered late, a
\* tile left shown in a visible page, with an analyzer that stays, comes to show
\* what the analyzer has, with a chip of the same and no complaint; and to
\* complain, when the analyzer has lost the histogram for good.
SettlesOnTheTruth ==
  /\ <>[](running /\ ~ hidden /\ up /\ exists) =>
       <>[](plot = state /\ note = "none" /\ (rolling => chip = state))
  /\ <>[](running /\ ~ hidden /\ up /\ ~ exists) =>
       <>[](note \in {"nothing answered", "stopped answering"})
=============================================================================
