---------------------------- MODULE RollingHist ----------------------------
(***************************************************************************)
(* RollingHist2D (mdqm/dqm/hist.py): a histogram over roughly the last     *)
(* `cap` events, kept as two halves that swap.                             *)
(*                                                                         *)
(* A half's counts are abstracted to the set of events whose data is in    *)
(* them, so "what the plot shows" is a set of events and can be compared   *)
(* with the number printed beside it.  `offered`, `filled` and `cut` are   *)
(* history variables.  Each action is one call that SampicPlugin or        *)
(* HistStore makes.  process() fills the plot some lines before it counts  *)
(* the event, and between the two it reads plugin.recent, which a rebuild  *)
(* that raised half way leaves empty: there the event is filled and never  *)
(* counted (EventBreaksOff).  The `swaps` counter, which only the tests    *)
(* read, is left out.                                                      *)
(***************************************************************************)
EXTENDS Integers

CONSTANTS
  Caps,        \* caps the settings may ask for, nonsense included
  MaxEvents    \* Bound: events offered in a behaviour.

ASSUME CapsAssumption == Caps \subseteq Int /\ Caps # {}
ASSUME BoundAssumption == MaxEvents \in Nat

VARIABLES
  active,          \* the half being filled
  retired,         \* the half being held
  events,          \* events taken by the active half
  retired_events,  \* events in the retired half
  cap,             \* the cap in force
  whole,           \* the rebuild that made this plot got as far as `recent`
  offered,         \* history: events offered since the start
  filled,          \* history: those of them that had data for this plot
  cut              \* history: the cap was lowered and no event has swapped since

halves == <<active, retired, events, retired_events>>
history == <<offered, filled, cut>>
vars == <<halves, cap, whole, history>>

\* The caps set_cap() can leave: max(2, int(cap)).
Adopted(c) == IF c < 2 THEN 2 ELSE c

AdoptedCaps == {Adopted(c) : c \in Caps}

\* Slip: each half is given the whole cap.
HalfIsTheCap == cap

\* The share of each half.
half == cap \div 2

window_events == events + retired_events

\* What counts() serves: the sum of the two halves.
Shown == active \union retired

-----------------------------------------------------------------------------
\* _swap(), from a half that holds `data` of `n` events.
Swap(data, n) ==
  /\ active' = {}
  /\ retired' = data
  /\ retired_events' = n
  /\ events' = 0

\* A new object, or clear(): both halves and both counts.
Empty ==
  /\ active' = {}
  /\ retired' = {}
  /\ events' = 0
  /\ retired_events' = 0

Init ==
  /\ active = {} /\ retired = {}
  /\ events = 0 /\ retired_events = 0
  /\ cap \in AdoptedCaps
  /\ whole = TRUE
  /\ offered = 0 /\ filled = {} /\ cut = FALSE

\* Slip: note_event() before the fill, so a swap comes between the two.
NoteThenFill(has_data) ==
  /\ has_data => whole
  /\ offered < MaxEvents
  /\ offered' = offered + 1
  /\ filled' = IF has_data THEN filled \union {offered + 1} ELSE filled
  /\ LET data == IF has_data THEN {offered + 1} ELSE {}
     IN  IF events + 1 >= half
           THEN /\ active' = data /\ retired' = active
                /\ retired_events' = events + 1 /\ events' = 0
                /\ cut' = FALSE
           ELSE /\ active' = active \union data
                /\ events' = events + 1
                /\ UNCHANGED <<retired, retired_events, cut>>
  /\ UNCHANGED <<cap, whole>>

\* process() to its end: fill() when the event has data for this plot, and
\* note_event() after everything else.  Without `recent` only an event with no
\* hits gets there.
ProcessEvent(has_data) ==
  /\ has_data => whole
  /\ offered < MaxEvents
  /\ offered' = offered + 1
  /\ filled' = IF has_data THEN filled \union {offered + 1} ELSE filled
  /\ LET data == IF has_data THEN active \union {offered + 1} ELSE active
     IN  IF events + 1 >= half
           THEN Swap(data, events + 1) /\ cut' = FALSE
           ELSE /\ active' = data
                /\ events' = events + 1
                /\ UNCHANGED <<retired, retired_events, cut>>
  /\ UNCHANGED <<cap, whole>>

\* process() of an event with hits while `recent` is empty: amplitude_by_channel
\* is filled, the next line raises, and _advance_window() is never reached.
\* (persistence is filled after that line: it does not see such an event.)
EventBreaksOff ==
  /\ ~ whole
  /\ offered < MaxEvents
  /\ offered' = offered + 1
  /\ filled' = filled \union {offered + 1}
  /\ active' = active \union {offered + 1}
  /\ UNCHANGED <<retired, events, retired_events, cap, whole, cut>>

\* Slip: a lower cap waits for the next event.
SetCapWaits(c) ==
  /\ cap' = Adopted(c)
  /\ cut' = (cut \/ cap' < cap)
  /\ UNCHANGED <<halves, whole, offered, filled>>

\* set_cap(), which set_window() calls on every adopted settings change.
SetCap(c) ==
  /\ cap' = Adopted(c)
  /\ IF events >= half'
       THEN Swap(active, events)
       ELSE UNCHANGED halves
  /\ cut' = (cut \/ cap' < cap)
  /\ UNCHANGED <<whole, offered, filled>>

\* clear(): dqm::clear from the page, or clear_for_new_run().
Clear ==
  /\ Empty
  /\ cut' = FALSE
  /\ UNCHANGED <<cap, whole, offered, filled>>

\* Slip: the object of the last build is kept, with what is in it.
RebuildKeeps(c, complete) ==
  /\ UNCHANGED halves
  /\ cap' = Adopted(c)
  /\ cut' = TRUE
  /\ whole' = complete
  /\ UNCHANGED <<offered, filled>>

\* reconfigure(): the object is dropped and another is built with the cap of the
\* settings.  _build() may raise after it and before `recent`.  (When it raises
\* before it there is no plot until a later rebuild makes one: that is the step.)
Rebuild(c, complete) ==
  /\ Empty
  /\ cap' = Adopted(c)
  /\ cut' = FALSE
  /\ whole' = complete
  /\ UNCHANGED <<offered, filled>>

Next ==
  \/ \E has_data \in BOOLEAN : ProcessEvent(has_data)
  \/ EventBreaksOff
  \/ \E c \in Caps : SetCap(c)
  \/ Clear
  \/ \E c \in Caps, complete \in BOOLEAN : Rebuild(c, complete)

Spec == Init /\ [][Next]_vars

-----------------------------------------------------------------------------
\* Every variable keeps its range, and the filling half is always short of its
\* share: the state a RollingHist2D is left in between two calls, a cut of the
\* cap included.
TypeOK ==
  /\ active \in SUBSET (1 .. offered)
  /\ retired \in SUBSET (1 .. offered)
  /\ events \in Nat /\ events < half
  /\ retired_events \in Nat
  /\ cap \in AdoptedCaps
  /\ whole \in BOOLEAN
  /\ offered \in Nat
  /\ filled \in SUBSET (1 .. offered)
  /\ cut \in BOOLEAN

\* What is served is all the data of the newest `n` events and nothing else.
ShowsTheLast(n) == Shown = {e \in filled : e > offered - n}

\* The number printed beside a plot ("window", the events "actually in what is
\* being served") against what is drawn.  The plot always shows the newest events
\* without a hole and never fewer than the number says; and the number is exact
\* in every plot whose build came to its end, whatever caps, clears, events cut
\* off half way and rebuilds came before.  In a store left half built the number
\* does fall behind the data, though set_cap() calls it "the real count
\* throughout".
WindowIsWhatIsShown ==
  /\ \E n \in window_events .. offered : ShowsTheLast(n)
  /\ whole => ShowsTheLast(window_events)

\* The ceiling RollingHist2D calls "the one thing that can honestly be
\* promised": outside the time between a cut of the cap and the first swap an
\* event makes after it, the number never exceeds the cap, and a plot whose build
\* came to its end shows nothing older than the last `cap` events.  A half-built
\* store does show older ones: what it takes in without a count never swaps.
CeilingUnlessCut ==
  ~ cut => /\ window_events <= cap
           /\ whole => \A e \in Shown : e > offered - cap

\* "This never shows fewer than half a window": nothing but a clear or a
\* rebuild may shrink the plot below half the cap in force.
ShrinksToHalfAtMost ==
  [][\/ window_events' >= window_events
     \/ window_events' >= half'
     \/ Clear
     \/ \E c \in Caps, complete \in BOOLEAN : Rebuild(c, complete)]_vars

Abstract == INSTANCE EventWindow WITH shown <- Shown, window <- window_events

\* The two halves implement what EventWindow promises: the plot is a suffix of
\* the event stream that only a reset cuts below half the cap, as long as the
\* number says in a plot that was built to its end and no shorter in any.
ShowsASuffix == Abstract!WSpec
=============================================================================
