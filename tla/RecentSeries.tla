----------------------------- MODULE RecentSeries -----------------------------
(***************************************************************************)
(* RecentByChannel of sampic_plugin.py: every value seen on each channel   *)
(* in the last `horizon` seconds.  A queue per channel, oldest first, is   *)
(* cut at its old end whenever a value comes in and whenever the series is *)
(* read: by the page, in points(), and for MIDAS history, in means().      *)
(*                                                                         *)
(* The clock is time.time(), which an administrator or NTP may set back.   *)
(*                                                                         *)
(* Times and values are whole numbers of units much smaller than those the *)
(* wire has: the page is told an age to a tenth of a second and a value to *)
(* four decimals, history is told neither.                                 *)
(***************************************************************************)
EXTENDS Integers, Sequences, FiniteSetsExt

CONSTANTS
  nch,          \* channels of the series
  Events,       \* events: functions from channels that were hit to values
  Horizons,     \* what the setting "recent seconds per channel" may be
  Second,       \* a second
  AgeUnit,      \* the unit of ages on the wire: 0.1 s
  ValueUnit,    \* the unit of values on the wire: 0.0001
  Steps,        \* Bound: what time passes by, and the clock is set back by
  None,
  MaxTime,      \* Bound: the clock.
  MaxEvents,    \* Bound: events in a series.
  MaxRebuilds   \* Bound: rebuilds by the plugin.

Channels == 0 .. nch - 1

\* The units of the wire are odd, so that nothing is half way between two.
ASSUME SeriesAssumption ==
  /\ nch \in Nat /\ Horizons \subseteq Int
  /\ Second \in Nat \ {0} /\ Steps \subseteq Nat
  /\ AgeUnit \in Nat \ {0} /\ AgeUnit % 2 = 1
  /\ ValueUnit \in Nat \ {0} /\ ValueUnit % 2 = 1
  /\ \A event \in Events : \A ch \in DOMAIN event : event[ch] \in Int

VARIABLES
  now,       \* time.time()
  points,    \* points_by_channel
  horizon,
  rebuilds,
  log,       \* history: every value the series was given, in order
  setBack    \* history: the clock was set back since the series was made

series == <<now, points, horizon, rebuilds, log, setBack>>

NoPoints == [ch \in Channels |-> <<>>]

\* "Floored rather than trusted".
Floored(time) == IF time < Second THEN Second ELSE time

SeriesInit ==
  /\ now = 0
  /\ horizon \in {Floored(h) : h \in Horizons}
  /\ points = NoPoints
  /\ rebuilds = 0
  /\ log = <<>> /\ setBack = FALSE

\* Slip: a value that is as old as the horizon goes too.
EvictAtCutoff(q, cutoff) ==
  SubSeq(q, Min({i \in DOMAIN q : q[i].at > cutoff} \union {Len(q) + 1}), Len(q))

\* _evict(): from the old end, up to the first value that is not too old.
Evict(q, cutoff) ==
  SubSeq(q, Min({i \in DOMAIN q : q[i].at >= cutoff} \union {Len(q) + 1}), Len(q))

Evicted == [ch \in Channels |-> Evict(points[ch], now - horizon)]

\* add(): one event's values.  Channels out of range are dropped.
Add(event) ==
  /\ Len(log) < MaxEvents
  /\ points' =
       [ch \in Channels |->
          IF ch \in DOMAIN event
            THEN Evict(Append(points[ch], [at |-> now, value |-> event[ch]]), now - horizon)
            ELSE points[ch]]
  /\ log' = Append(log, [at |-> now, event |-> event])
  /\ UNCHANGED <<now, horizon, rebuilds, setBack>>

\* points() and means(), whatever they are read for.
ReadSeries ==
  /\ points' = Evicted
  /\ UNCHANGED <<now, horizon, rebuilds, log, setBack>>

\* A rebinning makes the series anew.
Rebuild ==
  /\ rebuilds < MaxRebuilds
  /\ rebuilds' = rebuilds + 1
  /\ horizon' \in {Floored(h) : h \in Horizons}
  /\ points' = NoPoints
  /\ log' = <<>> /\ setBack' = FALSE
  /\ UNCHANGED now

TimePasses ==
  /\ \E d \in Steps : now + d <= MaxTime /\ now' = now + d
  /\ UNCHANGED <<points, horizon, rebuilds, log, setBack>>

\* Bound: once for a series.
ClockSetBack ==
  /\ ~ setBack
  /\ \E d \in Steps : d > 0 /\ d <= now /\ now' = now - d
  /\ setBack' = TRUE
  /\ UNCHANGED <<points, horizon, rebuilds, log>>

SeriesNext ==
  \/ \E event \in Events : Add(event)
  \/ ReadSeries \/ Rebuild \/ TimePasses \/ ClockSetBack

-----------------------------------------------------------------------------
\* max(0.0, now - when)
Age(at) == IF at > now THEN 0 ELSE now - at

\* round(), to a multiple of `unit`.
Rounded(x, unit) == unit * ((2 * x + unit) \div (2 * unit))

\* What a page is told of a queue, oldest first.
Told(q) ==
  [k \in DOMAIN q |-> [age   |-> Rounded(Age(q[k].at), AgeUnit),
                       value |-> Rounded(q[k].value, ValueUnit)]]

\* points()
Reply == [ch \in Channels |-> Told(Evicted[ch])]

\* The sum of the values of a queue, or of a reply, that stand at `places`.
Total(q, places) == SumFunctionOnSet([k \in DOMAIN q |-> q[k].value], places)

\* Slip: the mean of what lies in the queue, not of what it should hold.
MeansUncut ==
  [ch \in {c \in Channels : points[c] # <<>>} |->
     [sum |-> Total(points[ch], DOMAIN points[ch]), n |-> Len(points[ch])]]

\* means(): a sum and a count for each channel that has values, not rounded.
Means ==
  [ch \in {c \in Channels : Evicted[c] # <<>>} |->
     [sum |-> Total(Evicted[ch], DOMAIN Evicted[ch]), n |-> Len(Evicted[ch])]]
=============================================================================
