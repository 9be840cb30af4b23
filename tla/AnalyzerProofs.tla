--------------------------- MODULE AnalyzerProofs ---------------------------
(***************************************************************************)
(* The analyzer's loop for every set of binnings, every table of what      *)
(* _build() manages to make, every yield interval and every number of      *)
(* runs, edits, drops and restarts.                                        *)
(***************************************************************************)
EXTENDS Analyzer, SequenceTheorems, TLAPS

\* What read() returns is a setting.
LEMMA ReadResultsType ==
  ASSUME odb \in Settings
  PROVE  ReadResults \subseteq Settings
BY BinningsAssumption, ChannelsAssumption, RatesAssumption DEF Settings, ReadResults

\* What an operator leaves in the ODB is a setting.
LEMMA ConfigsAreSettings == Configs \subseteq Settings
BY ConfigsAssumption DEF Settings

\* A setting is never Python's None, nor is a run number.
LEMMA NoneIsNeither == None \notin Settings /\ None \notin Int
BY NoneAssumption DEF Settings

-----------------------------------------------------------------------------
(* Type correctness. *)

LEMMA InitTypeOK == Init => TypeOK
<1> SUFFICES ASSUME Init PROVE TypeOK
  OBVIOUS
<1>1. FlagsOK
  BY DEF Init, FlagsOK
<1>2. WorldOK
  <2>1. 1 \in 1 .. MaxRuns
    BY BoundsAssumption
  <2>2. QED
    BY <2>1, ConfigsAreSettings DEF Init, WorldOK
<1>3. LinkOK
  <2>1. <<>> \in Seq(Events)
    OBVIOUS
  <2>2. QED
    BY <2>1 DEF Init, LinkOK
<1>4. AdoptedOK
  BY RatesAssumption DEF Init, AdoptedOK
<1>5. PlotsOK
  BY DEF Init, PlotsOK
<1>6. CycleOK
  BY BoundsAssumption DEF Init, CycleOK, Labels, Loop
<1>7. QED
  BY <1>1, <1>2, <1>3, <1>4, <1>5, <1>6 DEF TypeOK

\* Losing the connection empties it and goes to the back-off, or stops.
LEMMA LostType ==
  ASSUME Lost
  PROVE  LinkOK' /\ linked' \in BOOLEAN /\ pc' \in Labels
<1>1. linked' \in BOOLEAN
  BY DEF Lost
<1>2. <<>> \in Seq(Events)
  OBVIOUS
<1>3. LinkOK'
  BY <1>2 DEF Lost, LinkOK
<1>4. pc' \in Labels
  <2>1. pc' \in {"stopped", "retry"}
    BY DEF Lost
  <2>2. QED
    BY <2>1 DEF Labels, Loop
<1>5. QED
  BY <1>1, <1>3, <1>4

LEMMA RebuildType ==
  ASSUME NEW b \in Binnings, Rebuild(b), run_number' = run_number, PlotsOK
  PROVE  PlotsOK'
BY DEF Rebuild, PlotsOK

LEMMA ClearType ==
  ASSUME NEW hists, ClearHists(hists), run_number' = run_number, axes' = axes, PlotsOK
  PROVE  PlotsOK'
BY DEF ClearHists, PlotsOK

\* Whatever apply_settings() adopts, and wherever it raises.
LEMMA AdoptType ==
  ASSUME TypeOK, NEW new \in Settings, NEW next \in Labels, Adopt(new, next),
         UNCHANGED baseline, UNCHANGED run_number
  PROVE  linked' \in BOOLEAN /\ LinkOK' /\ pc' \in Labels /\ AdoptedOK' /\ PlotsOK'
<1>1. CASE SameSettings(new)
  BY <1>1 DEF Adopt, Goto, adopted, link, plots,
              TypeOK, FlagsOK, LinkOK, AdoptedOK, PlotsOK
<1>2. CASE ~ SameSettings(new)
  <2>1. AdoptedOK'
    BY <1>2, RatesAssumption DEF Adopt, AdoptRate, TypeOK, AdoptedOK, Settings
  <2>2. PlotsOK'
    BY <1>2, RebuildType DEF Adopt, plots, TypeOK, PlotsOK, Settings
  <2>3. linked' \in BOOLEAN /\ LinkOK' /\ pc' \in Labels
    BY <1>2, LostType DEF Adopt, Goto, link, TypeOK, FlagsOK, LinkOK
  <2>4. QED
    BY <2>1, <2>2, <2>3
<1>3. QED
  BY <1>1, <1>2

LEMMA NextTypeOK == TypeOK /\ [Next]_vars => TypeOK'
<1> SUFFICES ASSUME TypeOK, [Next]_vars
             PROVE  TypeOK'
  OBVIOUS
<1> USE DEF TypeOK
<1> DEFINE Untouched ==
      /\ UNCHANGED <<world, adopted, baseline, plots, run_number, cycle>>
      /\ LinkOK' /\ linked' \in BOOLEAN /\ pc' \in Labels
<1>1. ASSUME Untouched PROVE TypeOK'
  <2>1. FlagsOK'
    BY <1>1 DEF FlagsOK, world, cycle
  <2>2. WorldOK'
    BY <1>1 DEF WorldOK, world
  <2>3. AdoptedOK' /\ PlotsOK' /\ CycleOK'
    BY <1>1 DEF AdoptedOK, PlotsOK, CycleOK, adopted, plots, cycle
  <2>4. QED
    BY <1>1, <2>1, <2>2, <2>3
<1>2. CASE Connect
  BY <1>1, <1>2 DEF Connect, LinkOK, Labels, Loop
<1>3. CASE Fails
  BY <1>1, <1>3, LostType DEF Fails
<1>4. CASE Register \/ Wake
  BY <1>1, <1>4 DEF Register, Wake, Goto, link, LinkOK, FlagsOK, Labels, Loop
<1>5. CASE Leave
  <2>1. /\ UNCHANGED <<world, adopted, baseline, plots, run_number, cycle>>
        /\ pc' = "stopped" /\ linked' = FALSE /\ buffer' = <<>> /\ rpc' = "none"
    BY <1>5 DEF Leave
  <2>2. <<>> \in Seq(Events)
    OBVIOUS
  <2>3. LinkOK'
    BY <2>1, <2>2 DEF LinkOK
  <2>4. QED
    BY <1>1, <2>1, <2>3 DEF Labels, Loop
<1>6. CASE ApplyNotDue \/ DrainEnds \/ HealthNotDue
  <2>1. /\ UNCHANGED <<world, adopted, baseline, plots, run_number, cycle, link>>
        /\ pc' \in {"poll", "health", "communicate"}
    BY <1>6 DEF ApplyNotDue, DrainEnds, HealthNotDue, Goto
  <2>2. QED
    BY <1>1, <2>1 DEF link, LinkOK, FlagsOK, Labels, Loop
<1>7. CASE ApplyForced
  BY <1>7, AdoptType, ReadResultsType
  DEF ApplyForced, world, cycle, WorldOK, FlagsOK, CycleOK, Labels, Loop
<1>8. CASE ApplyDue
  BY <1>8, AdoptType, ReadResultsType
  DEF ApplyDue, world, cycle, WorldOK, FlagsOK, CycleOK, Labels, Loop
<1>9. CASE PollRunState
  <2>1. /\ UNCHANGED <<world, adopted, baseline, axes, link>>
        /\ since_yield' = 0 /\ decoding' = TRUE /\ pc' = "drain"
    BY <1>9 DEF PollRunState, Goto
  <2>2. FlagsOK' /\ WorldOK' /\ LinkOK' /\ AdoptedOK'
    BY <2>1 DEF FlagsOK, WorldOK, LinkOK, AdoptedOK, world, link, adopted
  <2>3. CycleOK'
    BY <2>1, BoundsAssumption DEF CycleOK, Labels, Loop
  <2>4. PlotsOK'
    BY <1>9 DEF PollRunState, ClearHists, PlotsOK, WorldOK
  <2>5. QED
    BY <2>2, <2>3, <2>4
<1>10. CASE Discard
  <2>1. LinkOK'
    BY <1>10 DEF Discard, LinkOK
  <2>2. UNCHANGED <<world, linked, pc, adopted, baseline, plots, run_number, cycle>>
    BY <1>10 DEF Discard
  <2>3. QED
    BY <1>1, <2>1, <2>2 DEF CycleOK, FlagsOK
<1>11. CASE Decode
  <2>1. UNCHANGED <<world, adopted, baseline, axes, run_number>> /\ Fill(Head(buffer))
    BY <1>11 DEF Decode
  <2>2. buffer \in Seq(Events) /\ buffer # <<>>
    BY <1>11 DEF Decode, LinkOK
  <2>3. Head(buffer) \in Events /\ Tail(buffer) \in Seq(Events)
    BY <2>2
  <2>4. PlotsOK'
    BY <2>1, <2>3 DEF Fill, PlotsOK, Events
  <2>5. WorldOK' /\ AdoptedOK'
    BY <2>1 DEF WorldOK, AdoptedOK, world, adopted
  <2>6. CASE Raises(Head(buffer).kind)
    <3>1. Lost /\ UNCHANGED cycle
      BY <1>11, <2>6 DEF Decode
    <3>2. FlagsOK'
      BY <2>1, <3>1, LostType DEF FlagsOK, world, cycle
    <3>3. CycleOK'
      BY <3>1, LostType DEF CycleOK, cycle
    <3>4. QED
      BY <2>4, <2>5, <3>1, <3>2, <3>3, LostType
  <2>7. CASE ~ Raises(Head(buffer).kind)
    <3>1. /\ buffer' = Tail(buffer) /\ rpc' = rpc /\ linked' = linked
          /\ since_yield' = YieldCount /\ pc' \in {"yield", "drain"}
      BY <1>11, <2>7 DEF Decode
    <3>2. FlagsOK'
      BY <1>11, <2>1, <2>7 DEF Decode, FlagsOK, world
    <3>3. LinkOK'
      BY <2>3, <3>1 DEF LinkOK
    <3>4. YieldCount \in Nat /\ YieldCount < YieldEvery
      BY BoundsAssumption DEF YieldCount, CycleOK
    <3>5. CycleOK'
      BY <3>1, <3>4 DEF CycleOK, Labels, Loop
    <3>6. QED
      BY <2>4, <2>5, <3>2, <3>3, <3>5
  <2>8. QED
    BY <2>6, <2>7
<1>12. CASE Yield \/ Communicate \/ ServeOnThread
  <2>1. /\ UNCHANGED <<world, adopted, baseline, run_number, cycle, linked, buffer, axes>>
        /\ rpc' = "none" /\ pc' \in {"drain", "apply", pc}
        /\ ClearHists(Selected(rpc))
    BY <1>12 DEF Yield, Communicate, ServeOnThread, Serve
  <2>2. FlagsOK' /\ WorldOK' /\ LinkOK' /\ AdoptedOK'
    BY <2>1 DEF FlagsOK, WorldOK, LinkOK, AdoptedOK, world, adopted, cycle
  <2>3. CycleOK'
    BY <2>1 DEF CycleOK, Labels, Loop, cycle
  <2>4. PlotsOK'
    BY <2>1, ClearType DEF PlotsOK
  <2>5. QED
    BY <2>2, <2>3, <2>4
<1>13. CASE CheckHealth
  <2>1. /\ UNCHANGED <<world, settings, configured, plots, run_number, cycle, link>>
        /\ pc' = "communicate"
    BY <1>13 DEF CheckHealth, Goto
  <2>2. FlagsOK' /\ WorldOK' /\ LinkOK' /\ PlotsOK'
    BY <2>1 DEF FlagsOK, WorldOK, LinkOK, PlotsOK, world, link, plots, cycle
  <2>3. CycleOK'
    BY <2>1 DEF CycleOK, Labels, Loop, cycle
  <2>4. AdoptedOK'
    <3>1. baseline' \in {baseline, dropped} /\ bucket' \in {bucket, bucket \div 2}
      BY <1>13 DEF CheckHealth
    <3>2. QED
      BY <2>1, <3>1 DEF AdoptedOK, WorldOK
  <2>5. QED
    BY <2>2, <2>3, <2>4
<1>14. CASE MidasDown \/ MidasUp \/ Edit \/ StartRun \/ DropPackets \/ Signal
  <2>1. UNCHANGED internals
    BY <1>14 DEF MidasDown, MidasUp, Edit, StartRun, DropPackets, Signal
  <2>2. AdoptedOK' /\ PlotsOK' /\ CycleOK'
    BY <2>1 DEF internals, AdoptedOK, PlotsOK, CycleOK, adopted, plots, cycle
  <2>3. FlagsOK'
    BY <1>14, <2>1
    DEF MidasDown, MidasUp, Edit, StartRun, DropPackets, Signal, FlagsOK, internals, cycle, link
  <2>4. LinkOK'
    <3>1. UNCHANGED <<buffer, rpc>> \/ (buffer' = <<>> /\ rpc' = "none")
      BY <1>14 DEF MidasDown, MidasUp, Edit, StartRun, DropPackets, Signal, link
    <3>2. <<>> \in Seq(Events)
      OBVIOUS
    <3>3. QED
      BY <3>1, <3>2 DEF LinkOK
  <2>5. WorldOK'
    BY <1>14, BoundsAssumption, ConfigsAreSettings
    DEF MidasDown, MidasUp, Edit, StartRun, DropPackets, Signal, WorldOK
  <2>6. QED
    BY <2>2, <2>3, <2>4, <2>5
<1>15. CASE Produce \/ Request
  <2>1. UNCHANGED <<world, linked, internals>>
    BY <1>15 DEF Produce, Request
  <2>2. FlagsOK' /\ WorldOK' /\ AdoptedOK' /\ PlotsOK' /\ CycleOK'
    BY <2>1 DEF internals, FlagsOK, WorldOK, AdoptedOK, PlotsOK, CycleOK,
                world, adopted, plots, cycle
  <2>3. LinkOK'
    <3>1. CASE Produce
      <4>1. PICK kind \in Kinds : buffer' = Append(buffer, [run |-> run, kind |-> kind])
        BY <3>1 DEF Produce
      <4>2. [run |-> run, kind |-> kind] \in Events
        BY DEF WorldOK, Events
      <4>3. QED
        BY <3>1, <4>1, <4>2 DEF Produce, LinkOK
    <3>2. CASE Request
      BY <3>2 DEF Request, LinkOK
    <3>3. QED
      BY <1>15, <3>1, <3>2
  <2>4. QED
    BY <2>2, <2>3
<1>16. CASE UNCHANGED vars
  BY <1>16 DEF vars, world, link, adopted, plots, cycle,
               FlagsOK, WorldOK, LinkOK, AdoptedOK, PlotsOK, CycleOK
<1>17. QED
  BY <1>2, <1>3, <1>4, <1>5, <1>6, <1>7, <1>8, <1>9, <1>10, <1>11, <1>12,
     <1>13, <1>14, <1>15, <1>16
  DEF Next, Process, Environment

\* Type correctness of the loop, whatever the ODB holds and MIDAS does.
THEOREM TypeCorrect == Spec => []TypeOK
  BY InitTypeOK, NextTypeOK, PTL DEF Spec

-----------------------------------------------------------------------------
(* The plots and the binning that is reported. *)

\* process() fills only parts that exist; `recent` is there when the whole build
\* is.
LEMMA FilledArePresent ==
  ASSUME NEW kind, NEW p \in Filled(kind)
  PROVE  Present(p)
<1>1. Usable(p)
  BY DEF Filled
<1>2. "recent" \in Parts
  BY DEF Parts
<1>3. QED
  BY <1>1, <1>2 DEF Usable, AllBuilt

\* Filling puts nothing into a part that is missing.
LEMMA FillKeepsAbsentEmpty ==
  ASSUME NEW event, Fill(event), PlotsOK,
         NEW p \in Parts, ~ Present(p), content[p] = {}
  PROVE  content'[p] = {}
<1>1. p \notin Filled(event.kind)
  BY FilledArePresent
<1>2. QED
  BY <1>1 DEF Fill

\* Adopting settings leaves the parts as they were, or rebuilds them all with
\* the binning now reported.
LEMMA AdoptKeepsAxes ==
  ASSUME TypeOK, AxesAreTheReportedBinning,
         NEW new \in Settings, NEW next, Adopt(new, next)
  PROVE  AxesAreTheReportedBinning'
<1>1. None \notin Settings
  BY NoneIsNeither
<1>2. CASE SameSettings(new)
  BY <1>2 DEF Adopt, adopted, plots, AxesAreTheReportedBinning, Current, Present
<1>3. CASE ~ SameSettings(new)
  <2>1. settings' = new /\ new # None
    BY <1>1, <1>3 DEF Adopt
  <2>2. Current' = new.binning
    BY <2>1 DEF Current
  <2>3. CASE ChangesShape(new)
    <3>1. Rebuild(new.binning)
      BY <1>3, <2>3 DEF Adopt
    <3>2. QED
      BY <2>2, <3>1 DEF Rebuild, AxesAreTheReportedBinning, Present
  <2>4. CASE ~ ChangesShape(new)
    <3>1. UNCHANGED plots
      BY <1>3, <2>4 DEF Adopt
    <3>2. Current = new.binning
      BY <2>4 DEF ChangesShape, ShapeOf, Current
    <3>3. QED
      BY <2>2, <3>1, <3>2 DEF plots, AxesAreTheReportedBinning, Present
  <2>5. QED
    BY <2>3, <2>4
<1>4. QED
  BY <1>2, <1>3

LEMMA NextAxes ==
  ASSUME TypeOK, AxesAreTheReportedBinning, [Next]_vars
  PROVE  AxesAreTheReportedBinning'
<1> USE DEF AxesAreTheReportedBinning, Current, Present
<1>1. CASE UNCHANGED <<settings, axes, content>>
  BY <1>1
<1>2. ASSUME NEW hists, ClearHists(hists), UNCHANGED <<settings, axes>>
      PROVE  AxesAreTheReportedBinning'
  BY <1>2 DEF ClearHists
<1>3. CASE ApplyForced \/ ApplyDue
  BY <1>3, AdoptKeepsAxes, ReadResultsType DEF ApplyForced, ApplyDue, TypeOK, WorldOK
<1>4. CASE PollRunState
  BY <1>1, <1>2, <1>4 DEF PollRunState, adopted
<1>5. CASE Yield \/ Communicate \/ ServeOnThread
  BY <1>1, <1>2, <1>5 DEF Yield, Communicate, ServeOnThread, Serve, adopted
<1>6. CASE Decode
  <2>1. Fill(Head(buffer)) /\ UNCHANGED <<settings, axes>>
    BY <1>6 DEF Decode, adopted
  <2>2. \A p \in Parts : ~ Present(p) => content'[p] = {}
    BY <2>1, FillKeepsAbsentEmpty DEF TypeOK
  <2>3. QED
    BY <2>1, <2>2
<1>7. CASE CheckHealth
  BY <1>1, <1>7 DEF CheckHealth, plots
<1>8. CASE Connect \/ Fails \/ Register \/ Wake \/ Leave \/ ApplyNotDue
           \/ DrainEnds \/ Discard \/ HealthNotDue
  BY <1>1, <1>8 DEF Connect, Fails, Register, Wake, Leave, ApplyNotDue,
                    DrainEnds, Discard, HealthNotDue, adopted, plots
<1>9. CASE Environment
  BY <1>1, <1>9 DEF Environment, MidasDown, MidasUp, Edit, StartRun, Produce,
                    DropPackets, Request, Signal, internals, adopted, plots
<1>10. CASE UNCHANGED vars
  BY <1>1, <1>10 DEF vars, adopted, plots
<1>11. QED
  BY <1>3, <1>4, <1>5, <1>6, <1>7, <1>8, <1>9, <1>10 DEF Next, Process

\* No plot mixes two binnings, and none that is missing holds anything, for
\* every table of what _build() can make.
THEOREM OneBinningAtATime == Spec => []AxesAreTheReportedBinning
<1>1. Init => AxesAreTheReportedBinning
  BY BinningsAssumption DEF Init, AxesAreTheReportedBinning, Current, Present
<1>2. QED
  BY <1>1, NextAxes, TypeCorrect, PTL DEF Spec

-----------------------------------------------------------------------------
(* The self-throttle. *)

LEMMA NextThrottle ==
  ASSUME TypeOK, ThrottleOnlyLowers, [Next]_vars
  PROVE  ThrottleOnlyLowers'
<1> USE DEF ThrottleOnlyLowers
<1>1. configured \in Nat /\ bucket \in Nat
  BY RatesAssumption DEF TypeOK, AdoptedOK
<1>2. CASE UNCHANGED <<configured, bucket>>
  BY <1>2
<1>3. ASSUME NEW new \in Settings, NEW next, Adopt(new, next)
      PROVE  ThrottleOnlyLowers'
  <2>1. new.rate \in Nat
    BY RatesAssumption DEF Settings
  <2>2. UNCHANGED <<configured, bucket>> \/ (configured' = new.rate /\ bucket' = new.rate)
    BY <1>3 DEF Adopt, AdoptRate, adopted
  <2>3. QED
    BY <1>2, <2>1, <2>2
<1>4. CASE ApplyForced \/ ApplyDue
  BY <1>3, <1>4, ReadResultsType DEF ApplyForced, ApplyDue, TypeOK, WorldOK
<1>5. CASE CheckHealth
  <2>1. configured' = configured /\ bucket' \in {bucket, bucket \div 2}
    BY <1>5 DEF CheckHealth
  <2>2. bucket \div 2 <= bucket
    BY <1>1
  <2>3. QED
    BY <1>1, <2>1, <2>2
<1>6. CASE Connect \/ Fails \/ Register \/ Wake \/ Leave \/ ApplyNotDue
           \/ PollRunState \/ DrainEnds \/ Discard \/ Decode \/ Yield
           \/ HealthNotDue \/ Communicate \/ ServeOnThread
  BY <1>2, <1>6 DEF Connect, Fails, Register, Wake, Leave, ApplyNotDue,
                    PollRunState, DrainEnds, Discard, Decode, Yield,
                    HealthNotDue, Communicate, ServeOnThread, adopted
<1>7. CASE Environment
  BY <1>2, <1>7 DEF Environment, MidasDown, MidasUp, Edit, StartRun, Produce,
                    DropPackets, Request, Signal, internals, adopted
<1>8. CASE UNCHANGED vars
  BY <1>2, <1>8 DEF vars, adopted
<1>9. QED
  BY <1>4, <1>5, <1>6, <1>7, <1>8 DEF Next, Process

\* check_daq_health() only takes: the rate in force never exceeds the
\* configured one, for all rates.
THEOREM ThrottleOnlyTakes == Spec => []ThrottleOnlyLowers
<1>1. Init => ThrottleOnlyLowers
  BY RatesAssumption DEF Init, ThrottleOnlyLowers
<1>2. QED
  BY <1>1, NextThrottle, TypeCorrect, PTL DEF Spec

\* Adopting settings raises the rate only to a configured rate newly read, and
\* leaves the baseline alone.
LEMMA AdoptRaises ==
  ASSUME TypeOK, NEW new \in ReadResults, NEW next, Adopt(new, next)
  PROVE  /\ bucket' > bucket => RaisedByAdoption
         /\ bucket' < bucket => configured' # configured
<1>1. bucket \in Nat
  BY DEF TypeOK, AdoptedOK
<1>2. CASE UNCHANGED <<configured, bucket>>
  BY <1>1, <1>2
<1>3. CASE ~ UNCHANGED <<configured, bucket>>
  <2>1. new.rate # configured /\ configured' = new.rate /\ bucket' = new.rate
    BY <1>3 DEF Adopt, AdoptRate, adopted
  <2>2. new.rate = odb.rate \/ (~ linked /\ new.rate = DefaultRate)
    BY DEF ReadResults
  <2>3. QED
    BY <2>1, <2>2 DEF RaisedByAdoption
<1>4. QED
  BY <1>2, <1>3

\* The rate in force goes up only by adopting another configured rate, and down
\* only by that or for drops that were not counted before, for all rates.
THEOREM ThrottleIsAccountedFor == Spec => ThrottleHolds
<1> DEFINE Accounted ==
      /\ bucket' > bucket => RaisedByAdoption
      /\ bucket' < bucket => \/ configured' # configured
                             \/ baseline # None /\ baseline < dropped /\ baseline' = dropped
      /\ baseline # None => baseline' # None /\ baseline' >= baseline
<1>1. ASSUME TypeOK, [Next]_vars
      PROVE  [Accounted]_vars
  <2>1. bucket \in Nat /\ baseline \in Nat \union {None} /\ dropped \in Nat
    BY <1>1 DEF TypeOK, AdoptedOK, WorldOK
  <2>2. None \notin Int
    BY NoneIsNeither
  <2>3. CASE UNCHANGED <<bucket, baseline>>
    BY <2>1, <2>3
  <2>4. CASE ApplyForced \/ ApplyDue
    <3>1. PICK new \in ReadResults : \E next \in {"register", "poll"} : Adopt(new, next)
      BY <2>4 DEF ApplyForced, ApplyDue
    <3>2. baseline' = baseline
      BY <2>4 DEF ApplyForced, ApplyDue
    <3>3. QED
      BY <1>1, <2>1, <3>1, <3>2, AdoptRaises
  <2>5. CASE CheckHealth
    <3>1. CASE linked /\ baseline # None /\ dropped > baseline
      <4>1. baseline' = dropped /\ bucket' = bucket \div 2
        BY <2>5, <3>1 DEF CheckHealth
      <4>2. bucket \div 2 <= bucket
        BY <2>1
      <4>3. QED
        BY <2>1, <2>2, <3>1, <4>1, <4>2
    <3>2. CASE ~ (linked /\ baseline # None /\ dropped > baseline)
      <4>1. bucket' = bucket /\ (baseline # None => baseline' = baseline)
        BY <2>5, <3>2 DEF CheckHealth
      <4>2. QED
        BY <2>1, <4>1
    <3>3. QED
      BY <3>1, <3>2
  <2>6. CASE Connect \/ Fails \/ Register \/ Wake \/ Leave \/ ApplyNotDue
             \/ PollRunState \/ DrainEnds \/ Discard \/ Decode \/ Yield
             \/ HealthNotDue \/ Communicate \/ ServeOnThread
    BY <2>3, <2>6 DEF Connect, Fails, Register, Wake, Leave, ApplyNotDue,
                      PollRunState, DrainEnds, Discard, Decode, Yield,
                      HealthNotDue, Communicate, ServeOnThread, adopted
  <2>7. CASE Environment
    BY <2>3, <2>7 DEF Environment, MidasDown, MidasUp, Edit, StartRun, Produce,
                      DropPackets, Request, Signal, internals, adopted
  <2>8. CASE UNCHANGED vars
    BY <2>8
  <2>9. QED
    BY <1>1, <2>4, <2>5, <2>6, <2>7, <2>8 DEF Next, Process
<1>2. QED
  BY <1>1, TypeCorrect, PTL DEF Spec, ThrottleHolds

-----------------------------------------------------------------------------
(* The plots and the run that is reported. *)

\* Waiting events are of the current run: the buffer is empty when one starts.
BufferIsOfTheRun == \A i \in 1 .. Len(buffer) : buffer[i].run = run

\* Nothing is decoded before the first run number is known: the loop polls
\* before it drains, and a poll only fails on a connection that is gone.
RunKnownBeforeDraining ==
  /\ run_number # None => run_number <= run
  /\ run_number = None => \A p \in Parts : content[p] = {}
  /\ pc \in {"drain", "yield"} /\ linked => run_number # None

RunsInv == TypeOK /\ BufferIsOfTheRun /\ RunKnownBeforeDraining /\ PlotsAreOfTheReportedRun

LEMMA NextBuffer ==
  ASSUME TypeOK, BufferIsOfTheRun, [Next]_vars
  PROVE  BufferIsOfTheRun'
<1> USE DEF BufferIsOfTheRun
<1>1. CASE UNCHANGED <<buffer, run>>
  BY <1>1
<1>2. CASE buffer' = <<>>
  BY <1>2
<1>3. buffer \in Seq(Events)
  BY DEF TypeOK, LinkOK
<1>4. ASSUME buffer # <<>>, buffer' = Tail(buffer), run' = run
      PROVE  BufferIsOfTheRun'
  BY <1>3, <1>4
<1>5. CASE Produce
  <2>1. PICK kind \in Kinds : buffer' = Append(buffer, [run |-> run, kind |-> kind])
    BY <1>5 DEF Produce
  <2>2. run' = run
    BY <1>5 DEF Produce, world
  <2>3. QED
    BY <1>3, <2>1, <2>2
<1>6. CASE StartRun
  BY <1>2, <1>6 DEF StartRun, link
<1>7. CASE Discard
  BY <1>4, <1>7 DEF Discard, world
<1>8. CASE Decode
  BY <1>2, <1>4, <1>8 DEF Decode, Lost, world
<1>9. CASE ApplyForced \/ ApplyDue
  <2>1. run' = run
    BY <1>9 DEF ApplyForced, ApplyDue, world
  <2>2. buffer' = buffer \/ buffer' = <<>>
    BY <1>9 DEF ApplyForced, ApplyDue, Adopt, Goto, Lost, link
  <2>3. QED
    BY <1>1, <1>2, <2>1, <2>2
<1>10. CASE Connect \/ Fails \/ Register \/ Wake \/ Leave \/ ApplyNotDue
            \/ PollRunState \/ DrainEnds \/ HealthNotDue
  BY <1>1, <1>2, <1>10 DEF Connect, Fails, Lost, Register, Wake, Leave,
     ApplyNotDue, PollRunState, DrainEnds, HealthNotDue, Goto, world, link
<1>11. CASE Yield \/ CheckHealth \/ Communicate \/ ServeOnThread
  BY <1>1, <1>11 DEF Yield, Serve, ServeOnThread, CheckHealth, Communicate, Goto,
                     world, link
<1>12. CASE MidasDown \/ MidasUp \/ Edit \/ DropPackets \/ Request \/ Signal
  BY <1>1, <1>2, <1>12
  DEF MidasDown, MidasUp, Edit, DropPackets, Request, Signal, world, link
<1>13. CASE UNCHANGED vars
  BY <1>1, <1>13 DEF vars, world, link
<1>14. QED
  BY <1>5, <1>6, <1>7, <1>8, <1>9, <1>10, <1>11, <1>12, <1>13
  DEF Next, Process, Environment

LEMMA NextRuns ==
  ASSUME RunsInv, [Next]_vars
  PROVE  RunKnownBeforeDraining' /\ PlotsAreOfTheReportedRun'
<1> USE DEF RunKnownBeforeDraining, PlotsAreOfTheReportedRun
<1>1. /\ None \notin Int /\ run \in Nat
      /\ run_number \in Nat \union {None}
      /\ content \in [Parts -> SUBSET (1 .. MaxRuns)]
      /\ \A p \in Parts : \A r \in content[p] : r \in Nat
  BY NoneIsNeither, BoundsAssumption DEF RunsInv, TypeOK, WorldOK, PlotsOK
<1>2. Hists \subseteq Parts
  BY DEF Hists
\* A step that only takes counts away and leaves the run number alone.
<1>3. ASSUME run_number' = run_number, run' >= run, run' \in Nat,
             \A p \in Parts : content'[p] \subseteq content[p],
             pc' \in {"drain", "yield"} /\ linked' => run_number # None
      PROVE  RunKnownBeforeDraining' /\ PlotsAreOfTheReportedRun'
  BY <1>1, <1>2, <1>3 DEF RunsInv
<1>4. CASE PollRunState
  <2>1. CASE linked /\ run # run_number
    <3>1. run_number' = run /\ run' = run
      BY <1>4, <2>1 DEF PollRunState, world
    <3>2. \A p \in Hists : content'[p] = {}
      BY <1>1, <1>2, <1>4, <2>1 DEF PollRunState, ClearHists, RunsInv
    <3>3. QED
      BY <1>1, <3>1, <3>2
  <2>2. CASE ~ (linked /\ run # run_number)
    <3>1. /\ run_number' = run_number /\ run' = run /\ content' = content
          /\ linked' = linked
      BY <1>4, <2>2 DEF PollRunState, Goto, world, link
    <3>2. linked => run_number # None
      BY <1>1, <2>2
    <3>3. QED
      BY <1>1, <1>3, <3>1, <3>2
  <2>3. QED
    BY <2>1, <2>2
<1>5. CASE Decode
  <2>1. /\ run_number' = run_number /\ run' = run /\ run_number # None
        /\ Fill(Head(buffer)) /\ buffer # <<>>
    BY <1>5 DEF Decode, world, RunsInv
  <2>2. Head(buffer).run = run
    BY <2>1 DEF RunsInv, TypeOK, LinkOK, BufferIsOfTheRun
  <2>3. \A p \in Hists : \A r \in content'[p] : r \in content[p] \/ r = run
    BY <1>2, <2>1, <2>2 DEF Fill
  <2>4. run_number \in Nat /\ run_number <= run
    BY <1>1, <2>1 DEF RunsInv
  <2>5. \A p \in Hists : \A r \in content'[p] : r >= run_number
    BY <1>1, <1>2, <2>1, <2>3, <2>4 DEF RunsInv
  <2>6. QED
    BY <1>1, <2>1, <2>4, <2>5
<1>6. CASE ApplyForced \/ ApplyDue
  <2>1. run_number' = run_number /\ run' = run
    BY <1>6 DEF ApplyForced, ApplyDue, world
  <2>2. \A p \in Parts : content'[p] \subseteq content[p]
    BY <1>6 DEF ApplyForced, ApplyDue, Adopt, Rebuild, plots
  <2>3. pc' \notin {"drain", "yield"}
    BY <1>6 DEF ApplyForced, ApplyDue, Adopt, Goto, Lost
  <2>4. QED
    BY <1>1, <1>3, <2>1, <2>2, <2>3
<1>7. CASE Yield \/ Communicate \/ ServeOnThread
  <2>1. run_number' = run_number /\ run' = run /\ linked' = linked
    BY <1>7 DEF Yield, Communicate, ServeOnThread, Serve, world
  <2>2. \A p \in Parts : content'[p] \subseteq content[p]
    BY <1>7 DEF Yield, Communicate, ServeOnThread, Serve, ClearHists
  <2>3. pc' \in {"drain", "yield"} => pc \in {"drain", "yield"}
    BY <1>7 DEF Yield, Communicate, ServeOnThread
  <2>4. QED
    BY <1>1, <1>3, <2>1, <2>2, <2>3 DEF RunsInv
<1>8. CASE Connect \/ Fails \/ Register \/ Wake \/ Leave \/ ApplyNotDue
           \/ DrainEnds \/ HealthNotDue \/ CheckHealth
  <2>1. run_number' = run_number /\ run' = run /\ content' = content
    BY <1>8 DEF Connect, Fails, Register, Wake, Leave, ApplyNotDue,
                DrainEnds, HealthNotDue, CheckHealth, world, plots
  <2>2. pc' \notin {"drain", "yield"}
    BY <1>8 DEF Connect, Fails, Lost, Register, Wake, Leave, ApplyNotDue,
                DrainEnds, HealthNotDue, CheckHealth, Goto
  <2>3. QED
    BY <1>1, <1>3, <2>1, <2>2
<1>9. CASE Discard \/ Environment \/ UNCHANGED vars
  <2>1. run_number' = run_number /\ content' = content /\ pc' = pc
    BY <1>9 DEF Discard, Environment, MidasDown, MidasUp, Edit, StartRun,
                Produce, DropPackets, Request, Signal, internals, plots, vars
  <2>2. run' \in {run, run + 1}
    BY <1>9 DEF Discard, Environment, MidasDown, MidasUp, Edit, StartRun,
                Produce, DropPackets, Request, Signal, world, vars
  <2>3. linked' => linked
    BY <1>9 DEF Discard, Environment, MidasDown, MidasUp, Edit, StartRun,
                Produce, DropPackets, Request, Signal, link, vars
  <2>4. QED
    BY <1>1, <1>3, <2>1, <2>2, <2>3 DEF RunsInv
<1>10. QED
  BY <1>4, <1>5, <1>6, <1>7, <1>8, <1>9 DEF Next, Process

\* No histogram holds data of a run older than the one that is reported,
\* whatever runs come and go while the connection is away.
THEOREM NoOlderRunInAPlot == Spec => []PlotsAreOfTheReportedRun
<1>1. Init => RunsInv
  <2> SUFFICES ASSUME Init PROVE RunsInv
    OBVIOUS
  <2>1. BufferIsOfTheRun
    BY DEF Init, BufferIsOfTheRun
  <2>2. RunKnownBeforeDraining /\ PlotsAreOfTheReportedRun
    BY DEF Init, RunKnownBeforeDraining, PlotsAreOfTheReportedRun
  <2>3. QED
    BY <2>1, <2>2, InitTypeOK DEF RunsInv
<1>2. RunsInv /\ [Next]_vars => RunsInv'
  BY NextTypeOK, NextBuffer, NextRuns DEF RunsInv
<1>3. RunsInv => PlotsAreOfTheReportedRun
  BY DEF RunsInv
<1>4. QED
  BY <1>1, <1>2, <1>3, PTL DEF Spec

-----------------------------------------------------------------------------
(* What takes counts away. *)

\* Adopting settings keeps every count, or changes the shape.
LEMMA AdoptKeepsCounts ==
  ASSUME TypeOK, NEW new \in Settings, NEW next, Adopt(new, next)
  PROVE  content' = content \/ Shape' # Shape
<1>1. CASE SameSettings(new) \/ ~ ChangesShape(new)
  BY <1>1 DEF Adopt, plots
<1>2. CASE ~ SameSettings(new) /\ ChangesShape(new)
  <2>1. settings' = new /\ new # None
    BY <1>2, NoneIsNeither DEF Adopt
  <2>2. Shape' = {ShapeOf(new)}
    BY <2>1 DEF Shape, ShapeOf
  <2>3. CASE settings = None
    BY <2>2, <2>3 DEF Shape
  <2>4. CASE settings # None
    BY <1>2, <2>2, <2>4 DEF Shape, ChangesShape
  <2>5. QED
    BY <2>3, <2>4
<1>3. QED
  BY <1>1, <1>2

\* A histogram loses counts only to a new run, to a clear that names it, or to
\* settings of another shape: no edit of a rate, no reconnect that reads the same
\* settings, no failed event and no clear of another plot takes any away.
THEOREM CountsAreKept == Spec => CountsLostOnlyByRebuilding
<1>1. ASSUME TypeOK, [Next]_vars
      PROVE  [\A p \in Hists : \/ content[p] \subseteq content'[p]
                               \/ run_number' # run_number
                               \/ (rpc \in {"clear", p} /\ rpc' = "none")
                               \/ Shape' # Shape]_vars
  <2>1. CASE UNCHANGED content \/ Shape' # Shape
    BY <2>1
  <2>2. CASE ApplyForced \/ ApplyDue
    BY <1>1, <2>1, <2>2, AdoptKeepsCounts, ReadResultsType
    DEF ApplyForced, ApplyDue, TypeOK, WorldOK
  <2>3. CASE PollRunState
    BY <2>3 DEF PollRunState
  <2>4. CASE Decode
    <3>1. Fill(Head(buffer))
      BY <2>4 DEF Decode
    <3>2. \A p \in Hists : p \in Parts
      BY DEF Hists
    <3>3. QED
      BY <3>1, <3>2 DEF Fill
  <2>5. CASE Yield \/ Communicate \/ ServeOnThread
    <3>1. ClearHists(Selected(rpc)) /\ rpc' = "none"
      BY <2>5 DEF Yield, Communicate, ServeOnThread, Serve
    <3>2. \A p \in Hists : p \in Parts /\ (p \in Selected(rpc) => rpc \in {"clear", p})
      BY DEF Hists, Selected
    <3>3. QED
      BY <3>1, <3>2 DEF ClearHists
  <2>6. CASE Connect \/ Fails \/ Register \/ Wake \/ Leave \/ ApplyNotDue
             \/ DrainEnds \/ Discard \/ HealthNotDue \/ CheckHealth
    BY <2>1, <2>6 DEF Connect, Fails, Register, Wake, Leave, ApplyNotDue,
                      DrainEnds, Discard, HealthNotDue, CheckHealth, plots
  <2>7. CASE Environment
    BY <2>1, <2>7 DEF Environment, MidasDown, MidasUp, Edit, StartRun,
                      Produce, DropPackets, Request, Signal, internals, plots
  <2>8. CASE UNCHANGED vars
    BY <2>8
  <2>9. QED
    BY <1>1, <2>2, <2>3, <2>4, <2>5, <2>6, <2>7, <2>8 DEF Next, Process
<1>2. QED
  BY <1>1, TypeCorrect, PTL DEF Spec, CountsLostOnlyByRebuilding
=============================================================================
