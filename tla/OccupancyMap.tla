----------------------------- MODULE OccupancyMap -----------------------------
(***************************************************************************)
(* The occupancy tile (occupancyMap of dqm-hists.js), with the geometry it *)
(* shares with the noise and baseline tiles.  Each tile, when its tab is   *)
(* first seen, asks for the channel map; the map is read once for a page   *)
(* load, builds the tile's grid on its first reply, and stays.             *)
(*                                                                         *)
(* In ping-pong mode a strip is wired to two channels and a deposit is     *)
(* recorded on the one that was not used last.  The analyzer counts the    *)
(* hits of the events it takes and discards the others.                    *)
(*                                                                         *)
(* A tile's reply is drawn as it was made, so making and drawing it are    *)
(* one action; what calls do otherwise is in HistTile.                     *)
(***************************************************************************)
EXTENDS AtarGeom, FiniteSetsExt

CONSTANTS
  Strip,       \* the strip each channel, from zero, is wired to
  OdbStates,   \* what the ODB may say of the channel map
  Tiles,       \* the tiles that draw cells; "occupancy" is one of them
  None, Reading,
  MapRank,     \* MAP_RANK
  MaxHits,     \* Bound: hits the analyzer counts.
  MaxEdits     \* Bound: edits of the ODB.

Channels == DOMAIN Strip

nch == Cardinality(Channels)

ASSUME ChannelsAssumption == nch \in Nat /\ Channels = 0 .. nch - 1
ASSUME TilesAssumption == "occupancy" \in Tiles

\* "A strip is two channels", at most.
ASSUME PairsAssumption ==
  \A a, b, c \in Channels :
    Strip[a] = Strip[b] /\ Strip[b] = Strip[c] => a = b \/ b = c \/ a = c

ASSUME RankAssumption == MapRank \in Nat

\* Whatever geometry the ODB gives, two channels with one pixel id share a strip.
ASSUME OdbAssumption ==
  \A s \in OdbStates \ {Missing} :
    /\ s.atar \subseteq Channels /\ Numeric(s)
    /\ \A a, b \in s.atar : s.id[a] = s.id[b] => Strip[a] = Strip[b]

ASSUME NoneAssumption ==
  /\ None # Reading
  /\ {None, Reading} \intersect ({NoMap} \union {Decode(s) : s \in OdbStates}) = {}
  /\ \A m \in {NoMap} \union {Decode(s) : s \in OdbStates} : Strips(m, nch) # None

VARIABLES
  odb,       \* /Equipment/SAMPIC/Settings
  edits,
  last,      \* the channel each strip used last
  counts,    \* the occupancy histogram
  hits,      \* hits counted, ever
  complete,  \* history: no event was discarded since it was cleared
  pending,   \* the page's read of the channel map: None, Reading or the map
  opened,    \* the tiles that asked for it
  map,       \* the map each tile was given, or None
  grid,      \* the cells each tile has built, or None
  shown      \* the counts the occupancy tile has drawn, or None

detector == <<odb, edits, last>>
analyzer == <<counts, hits, complete>>
page == <<pending, opened, map, grid, shown>>
vars == <<detector, analyzer, page>>

Pair(strip) == {ch \in Channels : Strip[ch] = strip}

NoCounts == [ch \in Channels |-> 0]

Init ==
  /\ odb \in OdbStates /\ edits = 0
  /\ last = [strip \in {Strip[ch] : ch \in Channels} |-> None]
  /\ counts = NoCounts /\ hits = 0 /\ complete = TRUE
  /\ pending = None /\ opened = {}
  /\ map = [t \in Tiles |-> None]
  /\ grid = [t \in Tiles |-> None]
  /\ shown = None

-----------------------------------------------------------------------------
\* A deposit on a strip, in an event the analyzer decodes or discards.
Deposit(strip) ==
  \E ch \in Pair(strip) :
    /\ Pair(strip) = {ch} \/ ch # last[strip]
    /\ last' = [last EXCEPT ![strip] = ch]
    /\ \/ /\ hits < MaxHits
          /\ hits' = hits + 1
          /\ counts' = [counts EXCEPT ![ch] = @ + 1]
          /\ UNCHANGED complete
       \/ complete' = FALSE /\ UNCHANGED <<counts, hits>>
    /\ UNCHANGED <<odb, edits, page>>

\* A clear, or a new run.
ClearCounts ==
  /\ counts' = NoCounts
  /\ complete' = TRUE
  /\ UNCHANGED <<detector, hits, page>>

\* The frontend, or an operator, writes the channel map.
Edit ==
  /\ edits < MaxEdits
  /\ edits' = edits + 1
  /\ odb' \in OdbStates
  /\ UNCHANGED <<last, analyzer, page>>

-----------------------------------------------------------------------------
\* Slip: every tile reads the map for itself.
OpenReads(t) ==
  /\ t \notin opened
  /\ opened' = opened \union {t}
  /\ pending' = Reading
  /\ UNCHANGED <<detector, analyzer, map, grid, shown>>

\* A tile is made, and calls load(), which reads once for all of them.
Open(t) ==
  /\ t \notin opened
  /\ opened' = opened \union {t}
  /\ pending' = IF pending = None THEN Reading ELSE pending
  /\ UNCHANGED <<detector, analyzer, map, grid, shown>>

\* mhttpd answers read().
Read ==
  /\ pending = Reading
  /\ pending' = Decode(odb)
  /\ UNCHANGED <<detector, analyzer, opened, map, grid, shown>>

\* load().then(): the tile has the map, and its updater is started.
Place(t) ==
  /\ t \in opened /\ map[t] = None /\ pending # Reading
  /\ map' = [map EXCEPT ![t] = pending]
  /\ UNCHANGED <<detector, analyzer, pending, opened, grid, shown>>

\* The cells a tile builds on its first reply: one for each strip on the occupancy
\* tile, one for each channel, in one column or two, on the others.
Cells(t) ==
  IF t = "occupancy"
    THEN Strips(map[t], nch)
    ELSE Column(map[t], nch, 0)
         \union IF Paired(map[t]) THEN Column(map[t], nch, 1) ELSE {}

\* A reply is drawn: tick().
Draw(t) ==
  /\ map[t] # None
  /\ grid' = [grid EXCEPT ![t] = IF @ = None THEN Cells(t) ELSE @]
  /\ shown' = IF t = "occupancy" THEN counts ELSE shown
  /\ UNCHANGED <<detector, analyzer, pending, opened, map>>

Next ==
  \/ \E strip \in DOMAIN last : Deposit(strip)
  \/ ClearCounts \/ Edit
  \/ \E t \in Tiles : Open(t) \/ Place(t) \/ Draw(t)
  \/ Read

Spec == Init /\ [][Next]_vars

-----------------------------------------------------------------------------
\* What the occupancy tile draws from the counts: a strip's hits, the pairs it
\* calls uneven, and the two ends it ranks.
Values ==
  [cell \in grid["occupancy"] |-> SumFunctionOnSet(shown, cell)]

\* Slip: a pair that is one hit apart is listed.
UnevenByOne ==
  {cell \in grid["occupancy"] : \E a, b \in cell : shown[a] - shown[b] >= 1}

\* fillUneven(): the pairs a perfect alternation could not have produced.
Uneven ==
  {cell \in grid["occupancy"] : \E a, b \in cell : shown[a] - shown[b] > 1}

\* A channel that tells the cells' order in the document, for equal values.
Earlier(c, d) ==
  LET place(cell) == LET ch == Nth(cell, 0) IN
        IF map["occupancy"] = NoMap THEN [layer |-> 0, strip |-> ch]
                                    ELSE map["occupancy"][ch]
  IN  \/ place(c).layer < place(d).layer
      \/ place(c).layer = place(d).layer /\ place(c).strip < place(d).strip

\* fillRanks(): the ends of the list sorted by value, equal ones as they stand.
Quietest ==
  {c \in grid["occupancy"] :
     Cardinality({d \in grid["occupancy"] :
       \/ Values[d] < Values[c]
       \/ Values[d] = Values[c] /\ Earlier(d, c)}) < MapRank}

\* Slip: the busy end is sorted as the quiet one is.
BusiestAscending ==
  {c \in grid["occupancy"] :
     Cardinality({d \in grid["occupancy"] :
       \/ Values[d] < Values[c]
       \/ Values[d] = Values[c] /\ Earlier(d, c)}) < MapRank}

Busiest ==
  {c \in grid["occupancy"] :
     Cardinality({d \in grid["occupancy"] :
       \/ Values[d] > Values[c]
       \/ Values[d] = Values[c] /\ Earlier(d, c)}) < MapRank}

-----------------------------------------------------------------------------
\* "Inverting that map naively halves the detector in silence": every channel with
\* a place has one cell in each tile, and without a map every channel has.
EveryChannelHasOneCell ==
  \A t \in Tiles : grid[t] # None =>
    \A ch \in Channels :
      Cardinality({cell \in grid[t] : ch \in cell}) =
        IF map[t] = NoMap \/ ch \in DOMAIN map[t] THEN 1 ELSE 0

\* The tiles of a page load place the channels alike, whatever was written to the
\* ODB between the opening of one and of another: a strip is read across them.
OneGeometry ==
  \A t, u \in Tiles : grid[t] # None /\ grid[u] # None => map[t] = map[u]

\* The two rankings share a cell only when "too few carry distinct counts for the
\* two ends to be different".
SharedOnlyIfFewCounts ==
  shown # None /\ Quietest \intersect Busiest # {} =>
    Cardinality({Values[c] : c \in grid["occupancy"]}) < 2 * MapRank

\* As long as the analyzer took every event, no pair of a working detector is ever
\* listed, however the histogram was cleared in between and whatever the ODB says
\* of the geometry.
EvenPairsUnlisted == shown # None /\ complete /\ shown = counts => Uneven = {}
=============================================================================
