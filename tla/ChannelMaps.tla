----------------------------- MODULE ChannelMaps -----------------------------
(***************************************************************************)
(* The noise and baseline tiles (channelMaps of dqm-hists.js): a long      *)
(* average, a recent one and their difference for every channel, drawn     *)
(* from one reply of a recent series.  Both windows are cut by the page,   *)
(* by age; they are settings, read when the page is loaded, and clamped to *)
(* what the analyzer keeps.                                                *)
(*                                                                         *)
(* What a tile draws is a function of the reply, so it is an operator of   *)
(* the state of the series and needs no variable: the invariants say what  *)
(* a tile would draw at any moment.  Averages are in units of 1/Unit.      *)
(***************************************************************************)
EXTENDS RecentSeries, AtarGeom, MapScale

CONSTANTS
  Maps,                       \* the channel maps a page may have been given
  LongSettings, ShortSettings,\* what the ODB may say of the windows
  DefaultLong, DefaultShort,
  Bins,                       \* DIST_BINS
  Unit                        \* divisible by the numbers of values averaged

ASSUME WindowsAssumption ==
  /\ LongSettings \subseteq Int /\ ShortSettings \subseteq Int
  /\ DefaultLong \in Int /\ DefaultShort \in Int

ASSUME ScaleAssumption == Bins \in Nat \ {0} /\ Unit \in Nat \ {0}

VARIABLES
  map,                  \* the channel map: see OccupancyMap
  wantLong, wantShort,  \* the windows that were asked for
  cells                 \* the channels that have cells, or None

tile == <<map, wantLong, wantShort, cells>>
vars == <<series, tile>>

\* positiveOr()
PositiveOr(value, fallback) == IF value > 0 THEN value ELSE fallback

Init ==
  /\ SeriesInit
  /\ map \in Maps
  /\ wantLong \in {PositiveOr(w, DefaultLong) : w \in LongSettings}
  /\ wantShort \in {PositiveOr(w, DefaultShort) : w \in ShortSettings}
  /\ cells = None

\* A reply is drawn: the grids are built from the first one, and stay.
Draw ==
  /\ ReadSeries
  /\ cells' = IF cells # None
                THEN cells
                ELSE UNION (Column(map, nch, 0) \union
                            IF Paired(map) THEN Column(map, nch, 1) ELSE {})
  /\ UNCHANGED <<map, wantLong, wantShort>>

Next ==
  \/ SeriesNext /\ UNCHANGED tile
  \/ Draw

Spec == Init /\ [][Next]_vars

-----------------------------------------------------------------------------
\* The windows that are drawn.
LongS == IF horizon > 0 /\ horizon < wantLong THEN horizon ELSE wantLong

ShortS == IF wantShort < LongS THEN wantShort ELSE LongS

\* The values of a channel's reply that are at most `window` old, by place.
Within(q, window) == {k \in DOMAIN q : q[k].age <= window}

\* reduceByChannel(): a channel with nothing in the long window is dropped.
Reduced ==
  [ch \in {c \in Channels : Within(Reply[c], LongS) # {}} |->
     LET q == Reply[ch] IN
     [n |-> Cardinality(Within(q, LongS)), sum |-> Total(q, Within(q, LongS)),
      nRecent |-> Cardinality(Within(q, ShortS)), sumRecent |-> Total(q, Within(q, ShortS))]]

\* The averages of the channels that have a cell, and of those a value came in on
\* within the recent window.
Avg(by) ==
  [ch \in DOMAIN by \intersect cells |-> (Unit * by[ch].sum) \div by[ch].n]

Now(by) ==
  [ch \in {c \in DOMAIN by \intersect cells : by[c].nRecent > 0} |->
     (Unit * by[ch].sumRecent) \div by[ch].nRecent]

Values(avg, recent) == Range(avg) \union Range(recent)

\* The wider of the two maps' fences.
Fence(avg, recent) ==
  Max({TwiceFence(avg)} \union IF DOMAIN recent = {} THEN {} ELSE {TwiceFence(recent)})

\* One scale for both maps, from `low` to half of `twiceHigh`.  One of no width is
\* widened by a little.
Scale(avg, recent) ==
  LET low   == Min(Values(avg, recent))
      high  == Max(Values(avg, recent))
      fence == Fence(avg, recent)
  IN  [low |-> low,
       twiceHigh |-> IF 2 * low < fence /\ fence < 2 * high THEN fence
                     ELSE IF high = low \/ fence = 2 * low THEN 2 * low + 1
                     ELSE 2 * high]

\* Slip: the first bin takes the place of the under-flow.
BinFromZero(v, scale) == ((2 * (v - scale.low)) * Bins) \div (scale.twiceHigh - 2 * scale.low)

\* distHistogram(): under-flow, the bins, over-flow.
Bin(v, scale) ==
  IF v < scale.low THEN 0
  ELSE LET i == ((2 * (v - scale.low)) * Bins) \div (scale.twiceHigh - 2 * scale.low) IN
       IF i >= Bins THEN Bins + 1 ELSE i + 1

Bar(i, avg, scale) == Cardinality({ch \in DOMAIN avg : Bin(avg[ch], scale) = i})

-----------------------------------------------------------------------------
\* The values recorded on a channel that are at most `age` old.
Recorded(ch, age) == {i \in DOMAIN log : ch \in DOMAIN log[i].event /\ Age(log[i].at) <= age}

SumOf(ch, recorded) == SumFunctionOnSet([i \in recorded |-> log[i].event[ch]], recorded)

\* x is y, but for what rounding n values can make of it.
Near(x, y, n) == 2 * x <= 2 * y + n * ValueUnit /\ 2 * y <= 2 * x + n * ValueUnit

\* A count and a sum are those of what was recorded on a channel in the last
\* `window`, as far as the wire can tell: with everything within its whole tenths of
\* a second, nothing older than it by half a tenth, and values that are each out by
\* half a unit of the last decimal at most.
Tells(n, sum, ch, window) ==
  \E counted \in SUBSET Recorded(ch, window + AgeUnit \div 2) :
    /\ Recorded(ch, window - (window % AgeUnit)) \subseteq counted
    /\ n = Cardinality(counted)
    /\ Near(sum, SumOf(ch, counted), n)

\* What a tile draws is what was recorded: as long as the clock was not set back,
\* both windows of every channel tell of the values of that age, whenever values
\* were evicted and however often the series was read; and a channel that is not
\* drawn had none.
WindowsAreTrue ==
  ~ setBack =>
    \A by \in {Reduced} : \A ch \in Channels :
      IF ch \in DOMAIN by
        THEN /\ Tells(by[ch].n, by[ch].sum, ch, LongS)
             /\ Tells(by[ch].nRecent, by[ch].sumRecent, ch, ShortS)
        ELSE Recorded(ch, LongS - (LongS % AgeUnit)) = {}

\* What means() should say: a mean of exactly what was recorded within the horizon.
MeansOfLog ==
  [ch \in {c \in Channels : Recorded(c, horizon) # {}} |->
     [sum |-> SumOf(ch, Recorded(ch, horizon)), n |-> Cardinality(Recorded(ch, horizon))]]

\* History is told the means of what was recorded within the horizon, with no
\* channel that was silent for longer; and "the value that goes into MIDAS history
\* and the value on the page cannot be two different definitions": on a page that
\* draws the whole window they are of the same values, and differ by half a unit of
\* the last decimal at most, if the horizon is whole tenths of a second.  If it is
\* not, the page may cut values that history still counts.
HistoryIsThePage ==
  ~ setBack =>
    /\ Means = MeansOfLog
    /\ LongS = horizon /\ horizon % AgeUnit = 0 =>
         \A by \in {Reduced} :
           /\ DOMAIN by = DOMAIN Means
           /\ \A ch \in DOMAIN by : /\ by[ch].n = Means[ch].n
                                    /\ Near(by[ch].sum, Means[ch].sum, by[ch].n)

\* What a tile draws once it has drawn some channel.
Drawn == {by \in {Reduced} : cells # None /\ DOMAIN by \intersect cells # {}}

\* The scale is cut for few, and "this plot's x axis and the maps' scale are one
\* axis": no more than a quarter of the cells of either map lie past its end, though
\* both maps are drawn on one; no bar of the plot lies below it, and the bars past
\* its end are the channels outlined on the map, or at its end.
OneScaleServesAll ==
  \A by \in Drawn : \A avg \in {Avg(by)}, recent \in {Now(by)} :
    \A scale \in {Scale(avg, recent)} :
      /\ FewOutlined(avg, scale.twiceHigh) /\ FewOutlined(recent, scale.twiceHigh)
      /\ Bar(0, avg, scale) = 0
      /\ Bar(Bins + 1, avg, scale) =
           Cardinality({ch \in DOMAIN avg : 2 * avg[ch] >= scale.twiceHigh})
=============================================================================
