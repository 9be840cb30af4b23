------------------------------ MODULE Analyzer ------------------------------
(***************************************************************************)
(* The DQM analyzer's main loop (mdqm/dqm/analyzer.py) with the histogram  *)
(* parts its plugin keeps, the ODB it reads, and the world around it:      *)
(* MIDAS going down and coming back, an operator editing settings,         *)
(* starting runs and clearing plots, a frontend dropping packets.          *)
(*                                                                         *)
(* Time is abstracted: whether a poll is due, whether the token bucket     *)
(* lets an event through and whether the decode budget is spent are        *)
(* choices.  Counts are abstracted to the set of runs whose data is in     *)
(* them, a binning and the list of waveform channels to model values, an   *)
(* RPC to "read" or to what it clears.  Rates are in units of half an event *)
(* per second, the step below which check_daq_health goes to zero.  Pure   *)
(* counters (seen, processed, reconnects, reconfigures), the length of a   *)
(* back-off and the settings that no part of the store depends on (other   *)
(* roles, the history switch; the caps are in RollingHist) are left out.   *)
(***************************************************************************)
EXTENDS Integers, Sequences

CONSTANTS
  Channels,        \* values "waveform channels" of the channel roles can take
  DefaultChannels, \* settings.CHANNEL_ROLES
  Binnings,        \* values /DQM/Analyzer/Binning can take
  Mixed,           \* Mixed[b]: b with the keys past some point left at their defaults
  Built,           \* Built[b]: how many parts _build() makes before it raises
  CodeBinning,     \* the binning compiled into the plugin, used before any ODB
  DefaultBinning,  \* settings.BINNING, what read() falls back to
  Kinds,           \* kinds of events the frontends send
  Rates,           \* values of "max events per s"
  DefaultRate,     \* settings.SAMPLING and --rate
  Configs,         \* Bound: the settings an operator leaves in the ODB
  Selectors,       \* Bound: the histograms somebody clears one at a time
  None,            \* Python's None
  YieldEvery,      \* events decoded between two yields
  MaxRuns,         \* Bound: run numbers
  MaxBuffer,       \* Bound: events waiting in the buffer
  MaxDrops,        \* Bound: packets the DAQ drops
  MaxEdits,        \* Bound: settings edits
  MaxBounces       \* Bound: MIDAS restarts

\* The parts of the store in the order _build() makes them.  "recent" stands
\* for the two per-channel series, which live beside the HistStore.
Parts == {"occupancy", "hits_per_event", "amplitude", "amplitude_by_channel",
          "charge_vs_amplitude", "persistence", "recent"}

Hists == Parts \ {"recent"}

BuildPosition ==
  [occupancy |-> 1, hits_per_event |-> 2, amplitude |-> 3,
   amplitude_by_channel |-> 4, charge_vs_amplitude |-> 5,
   persistence |-> 6, recent |-> 7]

ASSUME BinningsAssumption ==
  /\ Built \in [Binnings -> 0 .. 7]
  /\ DefaultBinning \in Binnings
  /\ \A b \in Binnings : {b, DefaultBinning} \subseteq Mixed[b] /\ Mixed[b] \subseteq Binnings
  /\ CodeBinning \notin Binnings
  /\ None \notin Binnings \union {CodeBinning}
ASSUME KindsAssumption == Kinds \subseteq {"bad", "empty", "flat", "hits"}
ASSUME RatesAssumption == Rates \subseteq Nat /\ DefaultRate \in Rates
ASSUME ChannelsAssumption == DefaultChannels \in Channels
ASSUME NoneAssumption ==
  None \notin [channels : Channels, binning : Binnings, rate : Rates] \union Int
ASSUME ConfigsAssumption ==
  /\ Configs \subseteq [channels : Channels, binning : Binnings, rate : Rates]
  /\ Selectors \subseteq Hists
ASSUME BoundsAssumption ==
  /\ YieldEvery \in Nat \ {0}
  /\ MaxRuns \in Nat \ {0} /\ MaxBuffer \in Nat /\ MaxDrops \in Nat
  /\ MaxEdits \in Nat /\ MaxBounces \in Nat

VARIABLES
  midas,       \* MIDAS is up
  linked,      \* this client's connection is alive
  odb,         \* /DQM/Analyzer: the waveform channels, the binning, the sampling rate
  run,         \* /Runinfo/Run number
  buffer,      \* events waiting for this client
  dropped,     \* the DAQ's dropped-packet counter
  rpc,         \* a request waiting to be served
  stop,        \* SIGINT or SIGTERM was caught
  edits, bounces,
  pc,          \* where main() is
  settings,    \* Analyzer.settings
  configured,  \* Analyzer.configured_rate
  bucket,      \* TokenBucket.rate
  baseline,    \* Analyzer._dropped_baseline
  axes,        \* for each part, the binning it was built with, or None
  content,     \* for each part, the runs whose data is in it
  run_number,  \* Analyzer.run_number
  since_yield, \* run_once's count towards a yield
  decoding     \* run_once's budget is not spent

world == <<midas, odb, run, dropped, stop, edits, bounces>>
link == <<linked, buffer, rpc>>
adopted == <<settings, configured, bucket>>
plots == <<axes, content>>
cycle == <<since_yield, decoding>>
vars == <<world, link, pc, adopted, baseline, plots, run_number, cycle>>

Settings == [channels : Channels, binning : Binnings, rate : Rates]
\* "clear" is dqm::clear of everything, a histogram's name dqm::clear of that one.
Requests == {"read", "clear"} \union Selectors
Events == [run : 1 .. MaxRuns, kind : Kinds]
-----------------------------------------------------------------------------
(* The plugin. *)

Present(p) == axes[p] # None

AllBuilt == \A p \in Parts : Present(p)

\* The order process() reaches the parts in, and how far each kind of event
\* goes: no hits, hits without samples, hits with samples.
FillOrder == <<"hits_per_event", "occupancy", "amplitude",
               "amplitude_by_channel", "recent", "persistence",
               "charge_vs_amplitude">>
Reach == [bad |-> 0, empty |-> 1, flat |-> 5, hits |-> 7]

\* process() stops at the first part that is missing: `recent` is empty unless
\* the whole build went through.
Usable(p) == IF p = "recent" THEN AllBuilt ELSE Present(p)

Raises(kind) == \E i \in 1 .. Reach[kind] : ~ Usable(FillOrder[i])

Filled(kind) ==
  {FillOrder[i] : i \in {j \in 1 .. Reach[kind] :
                           \A k \in 1 .. j : Usable(FillOrder[k])}}

Fill(event) ==
  content' = [p \in Parts |-> IF p \in Filled(event.kind)
                                THEN content[p] \union {event.run}
                                ELSE content[p]]

\* Slip: the parts the new build does not reach are left in the store.
RebuildOver(b) ==
  /\ axes' = [p \in Parts |-> IF BuildPosition[p] <= Built[b] THEN b ELSE axes[p]]
  /\ content' = [p \in Parts |-> {}]

\* reconfigure(): every part is dropped and _build() makes them again, up to
\* the first axis it cannot make.
Rebuild(b) ==
  /\ axes' = [p \in Parts |-> IF BuildPosition[p] <= Built[b] THEN b ELSE None]
  /\ content' = [p \in Parts |-> {}]

\* Slip: the rolling plots are not cleared with the others.
ClearAccumulating(hists) ==
  content' = [p \in Parts |-> IF p \in hists \ {"amplitude_by_channel", "persistence"}
                                THEN {} ELSE content[p]]

\* HistStore.clear() and clear_for_new_run(): the series are not in the store.
ClearHists(hists) ==
  content' = [p \in Parts |-> IF p \in hists THEN {} ELSE content[p]]

\* The histograms HistStore.clear() empties: all of them, or the one named.
Selected(request) ==
  IF request = "clear" THEN Hists ELSE {request} \intersect Hists

-----------------------------------------------------------------------------
(* Losing and making the connection. *)

\* main()'s except clause: the client is gone and with it its event request
\* and whatever was being asked of it.
Lost ==
  /\ pc' = IF stop THEN "stopped" ELSE "retry"
  /\ linked' = FALSE
  /\ buffer' = <<>>
  /\ rpc' = "none"

Goto(l) == pc' = l /\ UNCHANGED link

Connect ==
  /\ pc = "connect"
  /\ ~ stop /\ midas
  /\ linked' = TRUE
  /\ pc' = "adopt"
  /\ UNCHANGED <<world, buffer, rpc, adopted, baseline, plots, run_number,
                 cycle>>

\* Any call on a dead connection raises: connecting, seeding, registering,
\* receiving an event, communicating.
Fails ==
  /\ \/ pc = "connect" /\ ~ stop /\ ~ midas
     \/ pc \in {"adopt", "register", "yield", "communicate"} /\ ~ linked
     \/ pc = "drain" /\ ~ stop /\ ~ linked
  /\ Lost
  /\ UNCHANGED <<world, adopted, baseline, plots, run_number, cycle>>

Register ==
  /\ pc = "register"
  /\ linked
  /\ pc' = "apply"
  /\ UNCHANGED <<world, link, adopted, baseline, plots, run_number, cycle>>

Wake ==
  /\ pc = "retry"
  /\ Goto("connect")
  /\ UNCHANGED <<world, adopted, baseline, plots, run_number, cycle>>

\* Slip: only the outer loop looks at the signal.
LeaveOuterOnly ==
  /\ pc = "connect"
  /\ stop
  /\ pc' = "stopped"
  /\ linked' = FALSE
  /\ buffer' = <<>>
  /\ rpc' = "none"
  /\ UNCHANGED <<world, adopted, baseline, plots, run_number, cycle>>

\* `while not _stop` of both loops.
Leave ==
  /\ pc \in {"connect", "apply"}
  /\ stop
  /\ pc' = "stopped"
  /\ linked' = FALSE
  /\ buffer' = <<>>
  /\ rpc' = "none"
  /\ UNCHANGED <<world, adopted, baseline, plots, run_number, cycle>>

-----------------------------------------------------------------------------
(* Settings. *)

\* settings.read(): a key that cannot be read takes its built-in default, so a
\* connection that dies before or during the read yields defaults for all keys
\* from some point on, be it in the middle of a section.  The roles are read
\* first, then Binning, then Sampling.
ReadResults ==
  IF linked THEN {odb}
  ELSE {[channels |-> DefaultChannels, binning |-> DefaultBinning, rate |-> DefaultRate], odb}
         \union {[channels |-> odb.channels, binning |-> b, rate |-> DefaultRate] :
                    b \in Mixed[odb.binning]}

\* Slip: settings are compared by rate alone.
SameRate(new) == settings # None /\ new.rate = settings.rate

\* fingerprint(new) == fingerprint(self.settings), once there are settings.
SameSettings(new) == new = settings

\* Slip: every change of settings rebuilds.
AnyChange(new) == TRUE

\* What binning_fingerprint() is taken of: the binning and the waveform channels.
ShapeOf(values) == <<values.channels, values.binning>>

\* binning_fingerprint(new) != self._settings_shape, None at first.
ChangesShape(new) == settings = None \/ ShapeOf(new) # ShapeOf(settings)

\* A different configured rate replaces the one in force, throttled or not.
AdoptRate(rate) ==
  IF rate # configured
    THEN configured' = rate /\ bucket' = rate
    ELSE UNCHANGED <<configured, bucket>>

\* apply_settings() once it has read `new`: the settings are recorded first,
\* then the rate, then the rebuild, which may raise.
Adopt(new, next) ==
  IF SameSettings(new)
    THEN Goto(next) /\ UNCHANGED <<adopted, plots>>
    ELSE /\ settings' = new
         /\ AdoptRate(new.rate)
         /\ IF ChangesShape(new)
              THEN /\ Rebuild(new.binning)
                   /\ IF Built[new.binning] < 7 THEN Lost ELSE Goto(next)
              ELSE Goto(next) /\ UNCHANGED plots

\* apply_settings(force=True), right after connecting and seeding.
ApplyForced ==
  /\ pc = "adopt"
  /\ \E new \in ReadResults : Adopt(new, "register")
  /\ UNCHANGED <<world, baseline, run_number, cycle>>

\* apply_settings() in the loop, once its two-second floor has passed.
ApplyDue ==
  /\ pc = "apply" /\ ~ stop
  /\ \E new \in ReadResults : Adopt(new, "poll")
  /\ UNCHANGED <<world, baseline, run_number, cycle>>

ApplyNotDue ==
  /\ pc = "apply" /\ ~ stop
  /\ Goto("poll")
  /\ UNCHANGED <<world, adopted, baseline, plots, run_number, cycle>>

-----------------------------------------------------------------------------
(* One turn of the loop. *)

\* poll_run_state(): a failed read changes nothing; the first number seen does
\* not clear.  The local state of run_once() starts afresh.
PollRunState ==
  /\ pc = "poll"
  /\ Goto("drain")
  /\ IF linked /\ run # run_number
       THEN /\ run_number' = run
            /\ IF run_number # None THEN ClearHists(Hists) ELSE UNCHANGED content
       ELSE UNCHANGED <<run_number, content>>
  /\ since_yield' = 0 /\ decoding' = TRUE
  /\ UNCHANGED <<world, adopted, baseline, axes>>

\* receive_event() gave nothing, or a signal was caught.
DrainEnds ==
  /\ pc = "drain"
  /\ stop \/ (linked /\ buffer = <<>>)
  /\ Goto("health")
  /\ UNCHANGED <<world, adopted, baseline, plots, run_number, cycle>>

\* An event drained and not decoded: the budget is spent, it has no AD00 bank,
\* or the bucket is empty.
Discard ==
  /\ pc = "drain" /\ ~ stop /\ linked /\ buffer # <<>>
  /\ buffer' = Tail(buffer)
  /\ UNCHANGED <<world, linked, rpc, pc, adopted, baseline, plots, run_number,
                 cycle>>

\* The bucket's allowance never exceeds its rate, so below one event per
\* second take() never succeeds.
MayTake == bucket >= 2

\* Slip: the count towards a yield is never started again.
YieldCountRunsOn == since_yield + 1

\* The count towards a yield: back to zero once it reaches YIELD_EVERY.
YieldCount == (since_yield + 1) % YieldEvery

\* An event handed to process().  It fills what it reaches; a missing part
\* raises into main(), after what came before it was filled.
Decode ==
  /\ pc = "drain" /\ ~ stop /\ linked /\ buffer # <<>>
  /\ decoding /\ MayTake
  /\ Fill(Head(buffer))
  /\ IF Raises(Head(buffer).kind)
       THEN Lost /\ UNCHANGED cycle
       ELSE /\ buffer' = Tail(buffer)
            /\ since_yield' = YieldCount
            /\ pc' = IF since_yield' = 0 THEN "yield" ELSE "drain"
            /\ decoding' \in BOOLEAN
            /\ UNCHANGED <<linked, rpc>>
  /\ UNCHANGED <<world, adopted, baseline, axes, run_number>>

\* Slip: control is handed over and nothing is served.
ServeNothing == UNCHANGED <<rpc, content, linked, buffer, axes>>

\* serve() and dispatch(): a waiting request is answered, and clears what it names.
Serve ==
  /\ rpc' = "none"
  /\ ClearHists(Selected(rpc))
  /\ UNCHANGED <<linked, buffer, axes>>

\* "It runs on an RPC thread", says serve(); "it can only run when this loop gives
\* up the GIL", says YIELD_EVERY, and so it was measured.  The model has both: a
\* request is served when communicate() is called, and may be served between any
\* two steps of the loop, but nothing obliges a thread to get there.
ServeOnThread ==
  /\ linked /\ rpc # "none"
  /\ Serve
  /\ UNCHANGED <<world, pc, adopted, baseline, run_number, cycle>>

Yield ==
  /\ pc = "yield" /\ linked
  /\ Serve
  /\ pc' = "drain"
  /\ UNCHANGED <<world, adopted, baseline, run_number, cycle>>

\* Slip: the first reading of the counter is not kept.
CheckWithoutBaseline ==
  /\ pc = "health"
  /\ Goto("communicate")
  /\ IF linked /\ baseline # None /\ dropped > baseline
       THEN baseline' = dropped /\ bucket' = bucket \div 2
       ELSE UNCHANGED <<baseline, bucket>>
  /\ UNCHANGED <<world, settings, configured, plots, run_number, cycle>>

\* Slip: the baseline stays where the first reading put it.
CheckKeepsBaseline ==
  /\ pc = "health"
  /\ Goto("communicate")
  /\ IF linked /\ (baseline = None \/ dropped > baseline)
       THEN /\ baseline' = IF baseline = None THEN dropped ELSE baseline
            /\ bucket' = IF baseline = None THEN bucket ELSE bucket \div 2
       ELSE UNCHANGED <<baseline, bucket>>
  /\ UNCHANGED <<world, settings, configured, plots, run_number, cycle>>

\* check_daq_health(), when ten seconds have passed.  The first reading is the
\* baseline; more drops than the baseline halve the rate.
CheckHealth ==
  /\ pc = "health"
  /\ Goto("communicate")
  /\ IF linked /\ (baseline = None \/ dropped > baseline)
       THEN /\ baseline' = dropped
            /\ bucket' = IF baseline = None THEN bucket ELSE bucket \div 2
       ELSE UNCHANGED <<baseline, bucket>>
  /\ UNCHANGED <<world, settings, configured, plots, run_number, cycle>>

HealthNotDue ==
  /\ pc = "health"
  /\ Goto("communicate")
  /\ UNCHANGED <<world, adopted, baseline, plots, run_number, cycle>>

Communicate ==
  /\ pc = "communicate" /\ linked
  /\ Serve
  /\ pc' = "apply"
  /\ UNCHANGED <<world, adopted, baseline, run_number, cycle>>

-----------------------------------------------------------------------------
(* The world. *)

internals == <<pc, adopted, baseline, plots, run_number, cycle>>

MidasDown ==
  /\ midas /\ bounces < MaxBounces
  /\ midas' = FALSE /\ bounces' = bounces + 1
  /\ linked' = FALSE /\ buffer' = <<>> /\ rpc' = "none"
  /\ UNCHANGED <<odb, run, dropped, stop, edits, internals>>

MidasUp ==
  /\ ~ midas
  /\ midas' = TRUE
  /\ UNCHANGED <<odb, run, dropped, stop, edits, bounces, link, internals>>

Edit ==
  /\ midas /\ edits < MaxEdits
  /\ edits' = edits + 1
  /\ odb' \in Configs \ {odb}
  /\ UNCHANGED <<midas, run, dropped, stop, bounces, link, internals>>

\* The events of the last run are gone before the next one starts: its
\* frontends flush at the stop transition, an operator takes seconds to start
\* another run, and the loop discards whatever it has no time to decode.
StartRun ==
  /\ midas /\ run < MaxRuns /\ buffer = <<>>
  /\ run' = run + 1
  /\ UNCHANGED <<midas, odb, dropped, stop, edits, bounces, link, internals>>

\* GET_NONBLOCKING: an event that finds the buffer full is lost, not waited for.
Produce ==
  /\ linked /\ pc \notin {"adopt", "register"}
  /\ Len(buffer) < MaxBuffer
  /\ \E kind \in Kinds : buffer' = Append(buffer, [run |-> run, kind |-> kind])
  /\ UNCHANGED <<world, linked, rpc, internals>>

DropPackets ==
  /\ midas /\ dropped < MaxDrops
  /\ dropped' = dropped + 1
  /\ UNCHANGED <<midas, odb, run, stop, edits, bounces, link, internals>>

Request ==
  /\ linked /\ rpc = "none" /\ pc \notin {"adopt", "register"}
  /\ rpc' \in Requests
  /\ UNCHANGED <<world, linked, buffer, internals>>

Signal ==
  /\ ~ stop
  /\ stop' = TRUE
  /\ UNCHANGED <<midas, odb, run, dropped, edits, bounces, link, internals>>

-----------------------------------------------------------------------------
Init ==
  /\ midas \in BOOLEAN
  /\ linked = FALSE
  /\ odb \in Configs
  /\ run = 1
  /\ buffer = <<>>
  /\ dropped = 0
  /\ rpc = "none"
  /\ stop = FALSE
  /\ edits = 0 /\ bounces = 0
  /\ pc = "connect"
  /\ settings = None
  /\ configured = DefaultRate /\ bucket = DefaultRate
  /\ baseline = None
  /\ axes = [p \in Parts |-> CodeBinning]
  /\ content = [p \in Parts |-> {}]
  /\ run_number = None
  /\ since_yield = 0 /\ decoding = TRUE

Process ==
  \/ Connect \/ Fails \/ Register \/ Wake \/ Leave
  \/ ApplyForced \/ ApplyDue \/ ApplyNotDue
  \/ PollRunState \/ DrainEnds \/ Discard \/ Decode \/ Yield
  \/ CheckHealth \/ HealthNotDue \/ Communicate

Environment ==
  \/ MidasDown \/ MidasUp \/ Edit \/ StartRun \/ Produce
  \/ DropPackets \/ Request \/ Signal

Next == Process \/ ServeOnThread \/ Environment

\* The process is scheduled; clocks pass, so a poll that waits for one comes
\* due; the drain outruns the frontends, so it finds the buffer empty; MIDAS
\* is brought back.  Nothing obliges an operator or a frontend to act.
Fairness ==
  /\ WF_vars(Process)
  /\ SF_vars(ApplyDue)
  /\ SF_vars(CheckHealth)
  /\ SF_vars(DrainEnds)
  /\ WF_vars(MidasUp)

Spec == Init /\ [][Next]_vars /\ Fairness

-----------------------------------------------------------------------------
(* Properties. *)

Loop == {"poll", "drain", "yield", "health", "communicate"}
Labels == {"connect", "adopt", "register", "apply", "retry", "stopped"} \union Loop

FlagsOK == {midas, stop, linked, decoding} \subseteq BOOLEAN

WorldOK ==
  /\ odb \in Settings
  /\ run \in 1 .. MaxRuns
  /\ dropped \in Nat /\ edits \in Nat /\ bounces \in Nat

LinkOK ==
  /\ buffer \in Seq(Events)
  /\ rpc \in Requests \union {"none"}

AdoptedOK ==
  /\ settings \in Settings \union {None}
  /\ configured \in Rates /\ bucket \in Nat
  /\ baseline \in Nat \union {None}

PlotsOK ==
  /\ axes \in [Parts -> Binnings \union {CodeBinning, None}]
  /\ content \in [Parts -> SUBSET (1 .. MaxRuns)]
  /\ run_number \in (1 .. MaxRuns) \union {None}

CycleOK ==
  /\ pc \in Labels
  /\ since_yield \in Nat /\ since_yield < YieldEvery

\* Every variable keeps its range: the analyzer's attributes, the ODB and the
\* buffer as the loop sees them, and run_once's count towards a yield, which
\* starts again each time it reaches YIELD_EVERY.
TypeOK == FlagsOK /\ WorldOK /\ LinkOK /\ AdoptedOK /\ PlotsOK /\ CycleOK

\* The binning the status reports.
Current == IF settings = None THEN CodeBinning ELSE settings.binning

\* "Keeping the old contents under a new axis would mix two binnings in one
\* plot": every part that exists was built with the binning the status
\* reports, and a part that does not exist holds nothing, whatever rebuilds,
\* failed rebuilds, reconnects and half-read settings came between.
AxesAreTheReportedBinning ==
  \A p \in Parts : /\ axes[p] \in {Current, None}
                   /\ ~ Present(p) => content[p] = {}

\* poll_run_state() clears "what asked to be cleared" on a new run, and the
\* connection may be away while runs come and go: no histogram ever holds data
\* of a run older than the one the status reports.
PlotsAreOfTheReportedRun ==
  run_number # None => \A p \in Hists : \A r \in content[p] : r >= run_number

\* The self-throttle of check_daq_health only takes: the rate in force never
\* exceeds the configured one.
ThrottleOnlyLowers == bucket <= configured

\* A rate that goes up is a configured rate newly adopted: the one in the ODB, or,
\* when the poll met a dead connection, the built-in default.
RaisedByAdoption ==
  /\ configured' # configured /\ bucket' = configured'
  /\ configured' = odb.rate \/ (~ linked /\ configured' = DefaultRate)

\* What the self-throttle may do, through reconnects, failed rebuilds, edits of
\* other settings and time.  The rate in force goes up only by adopting another
\* configured rate; it goes down only by that or for drops no halving was made for
\* before, each counted once, as the baseline never goes back or away.  "Recovering
\* it is an operator action, never automatic" is not kept: a poll on a dead
\* connection adopts the default rate, the next one the ODB's again, and the
\* throttle is gone though nobody asked.
ThrottleHolds ==
  [][/\ bucket' > bucket => RaisedByAdoption
     /\ bucket' < bucket => \/ configured' # configured
                            \/ baseline # None /\ baseline < dropped /\ baseline' = dropped
     /\ baseline # None => baseline' # None /\ baseline' >= baseline]_vars

\* The shape the histograms were last built for; none before the first settings.
Shape == IF settings = None THEN {} ELSE {ShapeOf(settings)}

\* "A bounce must not lose what has been accumulated": a histogram loses counts
\* only to a new run, to a clear that names it, or to settings of another shape.
\* An edit of the rate, a reconnect that reads what it read before, a failing event
\* or a clear of another plot takes nothing.  (The shape is the binning and the
\* waveform channels, though no plot depends on the latter; and it also changes
\* when a poll on a dead connection reads defaults, see CountsSurviveARestart.)
CountsLostOnlyByRebuilding ==
  [][\A p \in Hists : \/ content[p] \subseteq content'[p]
                      \/ run_number' # run_number
                      \/ (rpc \in {"clear", p} /\ rpc' = "none")
                      \/ Shape' # Shape]_vars

\* "Changing a value takes effect ... without restarting anything": if a
\* binning that can be built is left in the ODB, every part is eventually
\* built with it for good, even if one that cannot be built stood there before
\* and the loop was failing on every event.
EditsTakeEffect ==
  \A b \in {c \in Binnings : Built[c] = 7} :
    (<>[](odb.binning = b)) => <>[](stop \/ \A p \in Parts : axes[p] = b)

\* "The analyzer throttles itself down if the DAQ starts dropping packets":
\* every drop the counter shows reaches the baseline, through reconnects,
\* unless a histogram that cannot be built keeps the loop from its check.
DropsAreNoticed ==
  <>[]AllBuilt =>
    \A d \in 1 .. MaxDrops :
      (dropped >= d) ~> (stop \/ (baseline # None /\ baseline >= d))

\* "This is what lets a status or histogram request be answered while a burst
\* is being decoded": no request waits for ever; it is answered, or fails with
\* its connection.
RequestsAreAnswered == (rpc # "none") ~> (rpc = "none")

\* SIGINT or SIGTERM ends the process from wherever it is.
SignalStops == stop ~> (pc = "stopped")

-----------------------------------------------------------------------------
(* Statements of the code about itself that the code does not keep. *)

\* settings.py:154: "the analyzer must keep running with an ODB that somebody
\* has half-edited".  If so, its loop never runs without its histograms.
LoopHasItsPlots == pc \in Loop => AllBuilt

\* analyzer.py:23: "a MIDAS restart then costs a reconnect and nothing else,
\* and whoever is watching the page sees the same accumulated plots
\* afterwards".  If so, only a new run, a clear, or a shape that stands in the
\* ODB ever takes counts away.
CountsSurviveARestart ==
  [][\A p \in Hists : \/ content[p] \subseteq content'[p]
                      \/ run_number' # run_number
                      \/ (rpc \in {"clear", p} /\ rpc' = "none")
                      \/ Shape' = {ShapeOf(odb)}]_vars
=============================================================================
