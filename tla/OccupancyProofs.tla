--------------------------- MODULE OccupancyProofs ---------------------------
(***************************************************************************)
(* Theorems about the occupancy tile: the tiles of a page load share one   *)
(* geometry and give every channel its one cell, no pair of a working      *)
(* detector is ever listed as uneven while the analyzer takes every event, *)
(* and the two ends of the ranking share a cell only for want of values.   *)
(***************************************************************************)
EXTENDS OccupancyMap, FiniteSetTheorems, TLAPS

\* The page's one read.  Whoever has a map has what the read gave.
ReadInv ==
  /\ pending = None <=> opened = {}
  /\ pending \in {None, Reading} \union {NoMap} \union {Decode(s) : s \in OdbStates}
  /\ \A t \in Tiles :
       /\ map[t] # None => map[t] = pending /\ pending \notin {None, Reading}
       /\ grid[t] # None => map[t] # None

\* The functions keep their domains.
Domains == map \in [Tiles -> {map[t] : t \in Tiles}] /\ grid \in [Tiles -> {grid[t] : t \in Tiles}]

LEMMA InitRead == Init => ReadInv /\ Domains
  BY NoneAssumption DEF Init, ReadInv, Domains

LEMMA NextDomains == Domains /\ [Next]_vars => Domains'
<1> SUFFICES ASSUME Domains, [Next]_vars PROVE Domains'
  OBVIOUS
<1>1. CASE UNCHANGED <<map, grid>>
  BY <1>1 DEF Domains
<1>2. ASSUME NEW t \in Tiles, Place(t) PROVE Domains'
  BY <1>2 DEF Domains, Place
<1>3. ASSUME NEW t \in Tiles, Draw(t) PROVE Domains'
  BY <1>3 DEF Domains, Draw
<1> QED
  BY <1>1, <1>2, <1>3 DEF Next, vars, page, Deposit, ClearCounts, Edit, Open, Read

LEMMA NextRead == ReadInv /\ Domains /\ odb \in OdbStates /\ [Next]_vars => ReadInv'
<1> SUFFICES ASSUME ReadInv, Domains, odb \in OdbStates, [Next]_vars PROVE ReadInv'
  OBVIOUS
<1>1. CASE UNCHANGED page
  BY <1>1 DEF ReadInv, page
<1>2. ASSUME NEW t \in Tiles, Open(t) PROVE ReadInv'
  <2>1. CASE pending = None
    BY <1>2, <2>1, NoneAssumption DEF ReadInv, Open
  <2>2. CASE pending # None
    BY <1>2, <2>2 DEF ReadInv, Open
  <2> QED
    BY <2>1, <2>2
<1>3. ASSUME NEW t \in Tiles, Place(t) PROVE ReadInv'
  <2>1. pending \notin {None, Reading}
    BY <1>3 DEF ReadInv, Place
  <2> QED
    BY <1>3, <2>1 DEF ReadInv, Domains, Place
<1>4. CASE Read
  <2>1. pending' \notin {None, Reading} /\ pending' \in {Decode(s) : s \in OdbStates}
    BY <1>4, NoneAssumption DEF Read
  <2>2. opened # {}
    BY <1>4, NoneAssumption DEF ReadInv, Read
  <2>3. \A t \in Tiles : map[t] = None
    BY <1>4 DEF ReadInv, Read
  <2> QED
    BY <1>4, <2>1, <2>2, <2>3 DEF ReadInv, Read
<1>5. ASSUME NEW t \in Tiles, Draw(t) PROVE ReadInv'
  BY <1>5 DEF ReadInv, Domains, Draw
<1> QED
  BY <1>1, <1>2, <1>3, <1>4, <1>5 DEF Next, vars, Deposit, ClearCounts, Edit

\* What every step keeps of the geometry.
GeometryInv == ReadInv /\ Domains /\ odb \in OdbStates

LEMMA NextGeometry == GeometryInv /\ [Next]_vars => GeometryInv'
<1>1. odb \in OdbStates /\ [Next]_vars => odb' \in OdbStates
  BY DEF Next, vars, detector, Deposit, ClearCounts, Edit, Open, Place, Draw, Read
<1> QED
  BY <1>1, NextRead, NextDomains DEF GeometryInv

LEMMA GeometryHolds == Spec => []GeometryInv
<1>1. Init => GeometryInv
  BY InitRead DEF Init, GeometryInv
<1> QED
  BY <1>1, NextGeometry, PTL DEF Spec

\* The tiles of a page load place the channels alike, whatever is written to the
\* ODB in between.
THEOREM TilesAgree == Spec => []OneGeometry
<1>1. GeometryInv => OneGeometry
  BY DEF GeometryInv, ReadInv, OneGeometry
<1> QED
  BY <1>1, GeometryHolds, PTL

-----------------------------------------------------------------------------
\* While nothing is discarded, a pair is even, or one ahead on the channel that
\* was used last.
CountTypes ==
  /\ counts \in [Channels -> Nat]
  /\ last \in [{Strip[ch] : ch \in Channels} -> Channels \union {None}]

Alternates ==
  \A a, b \in Channels : Strip[a] = Strip[b] =>
    /\ counts[a] <= counts[b] + 1
    /\ counts[a] = counts[b] + 1 => last[Strip[a]] = a

AlternationInv == CountTypes /\ (complete => Alternates)

\* One hit more on a channel of the strip that was not used last.
LEMMA CountedAlternates ==
  ASSUME CountTypes, Alternates, NEW strip \in DOMAIN last, NEW ch \in Pair(strip),
         Pair(strip) = {ch} \/ ch # last[strip],
         last' = [last EXCEPT ![strip] = ch],
         counts' = [counts EXCEPT ![ch] = @ + 1]
  PROVE  Alternates'
<1> SUFFICES ASSUME NEW a \in Channels, NEW b \in Channels, Strip[a] = Strip[b]
             PROVE  /\ counts'[a] <= counts'[b] + 1
                    /\ counts'[a] = counts'[b] + 1 => last'[Strip[a]] = a
  BY DEF Alternates
<1>1. ch \in Channels /\ Strip[ch] = strip
  BY DEF Pair
<1>2. counts[a] \in Nat /\ counts[b] \in Nat /\ counts[ch] \in Nat
  BY <1>1 DEF CountTypes
<1>3. /\ counts[a] <= counts[b] + 1 /\ counts[b] <= counts[a] + 1
      /\ counts[a] = counts[b] + 1 => last[Strip[a]] = a
      /\ counts[b] = counts[a] + 1 => last[Strip[a]] = b
  BY DEF Alternates
<1>4. CASE Strip[a] # strip
  <2>1. a # ch /\ b # ch
    BY <1>1, <1>4
  <2>2. counts'[a] = counts[a] /\ counts'[b] = counts[b]
    BY <2>1 DEF CountTypes
  <2>3. last'[Strip[a]] = last[Strip[a]]
    BY <1>4 DEF CountTypes
  <2> QED
    BY <1>3, <2>2, <2>3
<1>5. CASE Strip[a] = strip /\ a = b
  <2>1. counts'[a] \in Nat
    BY <1>1, <1>2 DEF CountTypes
  <2> QED
    BY <1>5, <2>1
<1>6. CASE Strip[a] = strip /\ a # b
  <2>1. a \in Pair(strip) /\ b \in Pair(strip)
    BY <1>6 DEF Pair
  <2>2. ch # last[strip]
    BY <1>6, <2>1
  <2>3. ch = a \/ ch = b
    BY <1>1, <1>6, PairsAssumption
  <2>4. last'[Strip[a]] = ch
    BY <1>6 DEF CountTypes
  <2>5. CASE ch = a
    <3>1. counts'[a] = counts[a] + 1 /\ counts'[b] = counts[b]
      BY <1>6, <2>5 DEF CountTypes
    <3>2. counts[a] # counts[b] + 1
      BY <1>3, <1>6, <2>2, <2>5
    <3> QED
      BY <1>2, <1>3, <2>4, <2>5, <3>1, <3>2
  <2>6. CASE ch = b
    <3>1. counts'[b] = counts[b] + 1 /\ counts'[a] = counts[a]
      BY <1>6, <2>6 DEF CountTypes
    <3> QED
      BY <1>2, <1>3, <3>1
  <2> QED
    BY <2>3, <2>5, <2>6
<1> QED
  BY <1>4, <1>5, <1>6

LEMMA NextAlternation == AlternationInv /\ [Next]_vars => AlternationInv'
<1> SUFFICES ASSUME AlternationInv, [Next]_vars PROVE AlternationInv'
  OBVIOUS
<1>1. CASE UNCHANGED <<last, counts, complete>>
  BY <1>1 DEF AlternationInv, CountTypes, Alternates
<1>2. ASSUME NEW strip \in DOMAIN last, Deposit(strip) PROVE AlternationInv'
  <2>1. PICK ch \in Pair(strip) :
          /\ Pair(strip) = {ch} \/ ch # last[strip]
          /\ last' = [last EXCEPT ![strip] = ch]
          /\ \/ counts' = [counts EXCEPT ![ch] = @ + 1] /\ UNCHANGED complete
             \/ complete' = FALSE /\ UNCHANGED counts
    BY <1>2 DEF Deposit
  <2>2. ch \in Channels
    BY DEF Pair
  <2>3. CountTypes'
    BY <2>1, <2>2 DEF AlternationInv, CountTypes
  <2>4. CASE counts' = [counts EXCEPT ![ch] = @ + 1] /\ UNCHANGED complete
    BY <2>1, <2>3, <2>4, CountedAlternates DEF AlternationInv
  <2>5. CASE complete' = FALSE
    BY <2>3, <2>5 DEF AlternationInv
  <2> QED
    BY <2>1, <2>4, <2>5
<1>3. CASE ClearCounts
  <2>1. CountTypes'
    BY <1>3 DEF ClearCounts, detector, NoCounts, AlternationInv, CountTypes
  <2>2. \A a \in Channels : counts'[a] = 0
    BY <1>3 DEF ClearCounts, NoCounts
  <2>3. Alternates'
    BY <2>2 DEF Alternates
  <2> QED
    BY <2>1, <2>3 DEF AlternationInv
<1> QED
  BY <1>1, <1>2, <1>3 DEF Next, vars, detector, analyzer, Edit, Open, Place, Draw, Read

-----------------------------------------------------------------------------
\* Two channels that any geometry of the ODB puts into one place share a strip.
LEMMA SamePlace ==
  ASSUME NEW i \in Int, NEW j \in Int, NEW n \in Int, n > 0,
         i \div n = j \div n, i % n = j % n
  PROVE  i = j
  BY SMT

LEMMA PlacesAreStrips ==
  ASSUME NEW m \in {NoMap} \union {Decode(s) : s \in OdbStates}, m # NoMap
  PROVE  /\ DOMAIN m \subseteq Channels
         /\ \A a, b \in DOMAIN m : m[a] = m[b] => Strip[a] = Strip[b]
<1>1. PICK s \in OdbStates : m = Decode(s)
  OBVIOUS
<1>2. /\ s # Missing /\ Num(s.stride) > 0
      /\ m = [ch \in Placed(s) |-> Position(s, ch)]
  BY <1>1 DEF Decode
<1>3. Placed(s) \subseteq s.atar /\ s.atar \subseteq Channels
  BY <1>2, OdbAssumption DEF Placed
<1>4. Num(s.stride) = s.stride /\ s.stride \in Int
  BY <1>2, OdbAssumption DEF Num, Numeric
<1>5. \A a, b \in Placed(s) : Position(s, a) = Position(s, b) => Strip[a] = Strip[b]
  <2> SUFFICES ASSUME NEW a \in Placed(s), NEW b \in Placed(s),
                      Position(s, a) = Position(s, b)
               PROVE  Strip[a] = Strip[b]
    OBVIOUS
  <2>1. s.id[a] \in Int /\ s.id[b] \in Int /\ Num(s.base) \in Int
    BY <1>2, <1>3, OdbAssumption DEF Numeric
  <2>2. Index(s, a) \in Int /\ Index(s, b) \in Int
    BY <2>1 DEF Index
  <2>3. /\ Index(s, a) \div s.stride = Index(s, b) \div s.stride
        /\ Index(s, a) % s.stride = Index(s, b) % s.stride
    BY DEF Position
  <2>4. Index(s, a) = Index(s, b)
    BY <1>2, <1>4, <2>2, <2>3, SamePlace
  <2>5. s.id[a] = s.id[b]
    BY <2>1, <2>4 DEF Index
  <2> QED
    BY <1>2, <1>3, <2>5, OdbAssumption
<1> QED
  BY <1>2, <1>3, <1>5

LEMMA CellsAreStrips ==
  ASSUME NEW m \in {NoMap} \union {Decode(s) : s \in OdbStates}
  PROVE  /\ Strips(m, nch) \subseteq SUBSET Channels
         /\ \A cell \in Strips(m, nch) : \A a, b \in cell : Strip[a] = Strip[b]
<1>1. CASE m = NoMap
  BY <1>1, ChannelsAssumption DEF Strips
<1>2. CASE m # NoMap
  <2>1. Strips(m, nch) = {ChannelsAt(m, pos) : pos \in Positions(m)}
    BY <1>2 DEF Strips
  <2> QED
    BY <1>2, <2>1, PlacesAreStrips DEF ChannelsAt
<1> QED
  BY <1>1, <1>2

\* Every cell of the occupancy tile is one strip, or a part of one.
CellsInv ==
  /\ grid["occupancy"] # None =>
       \A cell \in grid["occupancy"] :
         cell \subseteq Channels /\ \A a, b \in cell : Strip[a] = Strip[b]
  /\ shown # None => grid["occupancy"] # None

LEMMA NextCells == GeometryInv /\ CellsInv /\ [Next]_vars => CellsInv'
<1> SUFFICES ASSUME GeometryInv, CellsInv, [Next]_vars PROVE CellsInv'
  OBVIOUS
<1>1. CASE UNCHANGED <<grid, shown>>
  BY <1>1 DEF CellsInv
<1>2. ASSUME NEW t \in Tiles, Draw(t) PROVE CellsInv'
  <2>1. CASE t = "occupancy" /\ grid["occupancy"] = None
    <3>1. map[t] \in {NoMap} \union {Decode(s) : s \in OdbStates}
      BY <1>2 DEF Draw, GeometryInv, ReadInv
    <3>2. grid'["occupancy"] = Strips(map[t], nch)
      BY <1>2, <2>1, TilesAssumption DEF Draw, GeometryInv, Domains, Cells
    <3>3. Strips(map[t], nch) # None
      BY <3>1, NoneAssumption
    <3> QED
      BY <3>1, <3>2, <3>3, CellsAreStrips DEF CellsInv
  <2>2. CASE t = "occupancy" /\ grid["occupancy"] # None
    <3>1. grid'["occupancy"] = grid["occupancy"]
      BY <1>2, <2>2, TilesAssumption DEF Draw, GeometryInv, Domains
    <3> QED
      BY <2>2, <3>1 DEF CellsInv
  <2>3. CASE t # "occupancy"
    <3>1. grid'["occupancy"] = grid["occupancy"] /\ shown' = shown
      BY <1>2, <2>3, TilesAssumption DEF Draw, GeometryInv, Domains
    <3> QED
      BY <3>1 DEF CellsInv
  <2> QED
    BY <2>1, <2>2, <2>3
<1> QED
  BY <1>1, <1>2 DEF Next, vars, page, Deposit, ClearCounts, Edit, Open, Place, Read

LEMMA InitAlternation == Init => AlternationInv /\ CellsInv
<1> SUFFICES ASSUME Init PROVE AlternationInv /\ CellsInv
  OBVIOUS
<1>1. CountTypes
  BY DEF Init, CountTypes, NoCounts
<1>2. \A a \in Channels : counts[a] = 0
  BY DEF Init, NoCounts
<1>3. Alternates
  BY <1>2 DEF Alternates
<1>4. CellsInv
  BY TilesAssumption DEF Init, CellsInv
<1> QED
  BY <1>1, <1>3, <1>4 DEF AlternationInv

\* No pair is listed while the analyzer has taken every event since the last clear.
THEOREM NoEvenPairListed == Spec => []EvenPairsUnlisted
<1>1. AlternationInv /\ CellsInv => EvenPairsUnlisted
  <2> SUFFICES ASSUME AlternationInv, CellsInv, shown # None, complete, shown = counts,
                      NEW cell \in Uneven
               PROVE  FALSE
    BY DEF EvenPairsUnlisted
  <2>1. PICK a \in cell, b \in cell : shown[a] - shown[b] > 1
    BY DEF Uneven
  <2>2. a \in Channels /\ b \in Channels /\ Strip[a] = Strip[b]
    BY DEF CellsInv, Uneven
  <2>3. counts[a] \in Nat /\ counts[b] \in Nat
    BY <2>2 DEF AlternationInv, CountTypes
  <2>4. counts[a] <= counts[b] + 1
    BY <2>2 DEF AlternationInv, Alternates
  <2> QED
    BY <2>1, <2>3, <2>4
<1> QED
  BY <1>1, InitAlternation, GeometryHolds, NextAlternation, NextCells, PTL DEF Spec

-----------------------------------------------------------------------------
(* One cell for each channel. *)

ChannelMaps == {NoMap} \union {Decode(s) : s \in OdbStates}

LEMMA ChannelsAreIntegers == Channels \subseteq Int
BY ChannelsAssumption

\* The channels of a place, in the order the map lists them.
LEMMA OneListed ==
  ASSUME NEW a \in Int
  PROVE  Cardinality({a}) = 1 /\ Nth({a}, 0) = a
<1>1. {other \in {a} : other < a} = {}
  OBVIOUS
<1>2. Cardinality({other \in {a} : other < a}) = 0
  BY <1>1, FS_EmptySet
<1>3. Nth({a}, 0) \in {a}
  BY <1>2 DEF Nth
<1> QED
  BY <1>3, FS_Singleton

LEMMA TwoListed ==
  ASSUME NEW a \in Int, NEW b \in Int, a < b
  PROVE  Cardinality({a, b}) = 2 /\ Nth({a, b}, 0) = a /\ Nth({a, b}, 1) = b
<1>1. {other \in {a, b} : other < a} = {} /\ {other \in {a, b} : other < b} = {a}
  OBVIOUS
<1>2. /\ Cardinality({other \in {a, b} : other < a}) = 0
      /\ Cardinality({other \in {a, b} : other < b}) = 1
  BY <1>1, FS_EmptySet, FS_Singleton
<1>3. Nth({a, b}, 0) = a
  BY <1>2 DEF Nth
<1>4. Nth({a, b}, 1) = b
  BY <1>2 DEF Nth
<1>5. Cardinality({a} \union {b}) = 2
  <2>1. IsFiniteSet({a}) /\ Cardinality({a}) = 1
    BY FS_Singleton
  <2>2. b \notin {a}
    OBVIOUS
  <2>3. Cardinality({a} \union {b}) = Cardinality({a}) + 1
    BY <2>1, <2>2, FS_AddElement
  <2> QED
    BY <2>1, <2>3
<1>6. {a} \union {b} = {a, b}
  OBVIOUS
<1> QED
  BY <1>3, <1>4, <1>5, <1>6

\* A place has a channel, or two.
LEMMA FewAtAPlace ==
  ASSUME NEW m \in ChannelMaps, m # NoMap, NEW ch \in DOMAIN m
  PROVE  \/ ChannelsAt(m, m[ch]) = {ch}
         \/ \E other \in DOMAIN m : /\ other \in Int /\ ch \in Int /\ other # ch
                                    /\ ChannelsAt(m, m[ch]) = {ch, other}
<1> DEFINE S == ChannelsAt(m, m[ch])
<1>1. DOMAIN m \subseteq Channels /\ \A a, b \in DOMAIN m : m[a] = m[b] => Strip[a] = Strip[b]
  BY PlacesAreStrips DEF ChannelMaps
<1>2. ch \in S /\ \A c \in S : c \in DOMAIN m /\ m[c] = m[ch]
  BY DEF ChannelsAt
<1>3. CASE S = {ch}
  BY <1>3
<1>4. CASE S # {ch}
  <2>1. PICK other \in S : other # ch
    BY <1>2, <1>4
  <2>2. \A c \in S : c = ch \/ c = other
    BY <1>1, <1>2, <2>1, PairsAssumption
  <2>3. S = {ch, other}
    BY <1>2, <2>1, <2>2
  <2>4. other \in DOMAIN m /\ other \in Int /\ ch \in Int
    BY <1>1, <1>2, <2>1, ChannelsAreIntegers
  <2> QED
    BY <2>1, <2>3, <2>4
<1> QED
  BY <1>3, <1>4

\* A channel is the first of its place, or the second; and the map lists no other.
LEMMA ListedOnce ==
  ASSUME NEW m \in ChannelMaps, m # NoMap, NEW ch \in DOMAIN m
  PROVE  LET S == ChannelsAt(m, m[ch]) IN
         /\ Nth(S, 0) \in S /\ Cardinality(S) > 0 /\ IsFiniteSet(S)
         /\ Cardinality(S) > 1 => Nth(S, 1) \in S
         /\ ch = Nth(S, 0) \/ (Cardinality(S) > 1 /\ ch = Nth(S, 1))
<1> DEFINE S == ChannelsAt(m, m[ch])
<1>1. ch \in Int
  BY PlacesAreStrips, ChannelsAreIntegers DEF ChannelMaps
<1>2. CASE S = {ch}
  BY <1>1, <1>2, OneListed, FS_Singleton
<1>3. CASE \E other \in DOMAIN m : other \in Int /\ other # ch /\ S = {ch, other}
  <2>1. PICK other \in DOMAIN m : other \in Int /\ other # ch /\ S = {ch, other}
    BY <1>3
  <2>2. {ch, other} = {other, ch}
    OBVIOUS
  <2>3. IsFiniteSet(S)
    <3>1. IsFiniteSet({ch} \union {other})
      BY FS_Singleton, FS_AddElement
    <3>2. {ch} \union {other} = {ch, other}
      OBVIOUS
    <3> QED
      BY <2>1, <3>1, <3>2
  <2>4. CASE ch < other
    BY <1>1, <2>1, <2>3, <2>4, TwoListed
  <2>5. CASE other < ch
    BY <1>1, <2>1, <2>2, <2>3, <2>5, TwoListed
  <2> QED
    BY <1>1, <2>1, <2>4, <2>5
<1> QED
  BY <1>2, <1>3, FewAtAPlace

\* The cells of a channel on the tiles that have one for each.
LEMMA ColumnCells ==
  ASSUME NEW m \in ChannelMaps, NEW ch \in Channels
  PROVE  LET cells == Column(m, nch, 0)
                        \union IF Paired(m) THEN Column(m, nch, 1) ELSE {}
         IN {cell \in cells : ch \in cell} = IF m = NoMap \/ ch \in DOMAIN m THEN {{ch}} ELSE {}
<1> DEFINE cells == Column(m, nch, 0) \union IF Paired(m) THEN Column(m, nch, 1) ELSE {}
<1>1. CASE m = NoMap
  <2>1. cells = {{c} : c \in 0 .. nch - 1}
    BY <1>1 DEF Column, Strips, Paired
  <2> QED
    BY <1>1, <2>1, ChannelsAssumption
<1>2. CASE m # NoMap
  <2> DEFINE at(c) == ChannelsAt(m, m[c])
  <2>1. \A k : Column(m, nch, k) =
          {{Nth(ChannelsAt(m, pos), k)} :
             pos \in {p \in Positions(m) : Cardinality(ChannelsAt(m, p)) > k}}
    BY <1>2 DEF Column
  <2>2. \A pos \in Positions(m) : \E c \in DOMAIN m : pos = m[c]
    BY DEF Positions
  <2>3. \A c \in DOMAIN m : /\ m[c] \in Positions(m) /\ at(c) \subseteq DOMAIN m
                            /\ Nth(at(c), 0) \in at(c) /\ Cardinality(at(c)) > 0
                            /\ Cardinality(at(c)) > 1 => Nth(at(c), 1) \in at(c)
                            /\ c = Nth(at(c), 0) \/ (Cardinality(at(c)) > 1 /\ c = Nth(at(c), 1))
    BY <1>2, ListedOnce DEF Positions, ChannelsAt
  <2>4. \A cell \in cells : \E c \in DOMAIN m : cell = {c}
    <3> SUFFICES ASSUME NEW k \in {0, 1}, NEW cell \in Column(m, nch, k)
                 PROVE  \E c \in DOMAIN m : cell = {c}
      OBVIOUS
    <3>1. PICK c \in DOMAIN m : Cardinality(at(c)) > k /\ cell = {Nth(at(c), k)}
      BY <2>1, <2>2
    <3>2. Nth(at(c), k) \in DOMAIN m
      BY <2>3, <3>1
    <3> QED
      BY <3>1, <3>2
  <2>5. ASSUME ch \in DOMAIN m
        PROVE  {ch} \in cells
    <3>1. CASE ch = Nth(at(ch), 0)
      <4>1. {Nth(at(ch), 0)} \in Column(m, nch, 0)
        BY <2>1, <2>3, <2>5
      <4> QED
        BY <3>1, <4>1
    <3>2. CASE Cardinality(at(ch)) > 1 /\ ch = Nth(at(ch), 1)
      <4>1. {Nth(at(ch), 1)} \in Column(m, nch, 1)
        BY <2>1, <2>3, <2>5, <3>2
      <4>2. Paired(m)
        BY <1>2, <2>3, <2>5, <3>2 DEF Paired
      <4> QED
        BY <3>2, <4>1, <4>2
    <3> QED
      BY <2>3, <2>5, <3>1, <3>2
  <2> HIDE DEF cells
  <2>6. {cell \in cells : ch \in cell} = IF ch \in DOMAIN m THEN {{ch}} ELSE {}
    BY <2>4, <2>5
  <2> QED
    BY <1>2, <2>6 DEF cells
<1> QED
  BY <1>1, <1>2

\* The cell of a channel on the occupancy tile.
LEMMA StripCells ==
  ASSUME NEW m \in ChannelMaps, NEW ch \in Channels
  PROVE  {cell \in Strips(m, nch) : ch \in cell} =
           IF m = NoMap THEN {{ch}} ELSE IF ch \in DOMAIN m THEN {ChannelsAt(m, m[ch])} ELSE {}
<1>1. CASE m = NoMap
  BY <1>1, ChannelsAssumption DEF Strips
<1>2. CASE m # NoMap
  <2>1. Strips(m, nch) = {ChannelsAt(m, m[c]) : c \in DOMAIN m}
    BY <1>2 DEF Strips, Positions
  <2>2. \A c \in DOMAIN m : ch \in ChannelsAt(m, m[c]) <=> ch \in DOMAIN m /\ m[ch] = m[c]
    BY DEF ChannelsAt
  <2> QED
    BY <1>2, <2>1, <2>2
<1> QED
  BY <1>1, <1>2

\* A grid that was built is that of the tile's map.
GridInv == \A t \in Tiles : grid[t] # None => grid[t] = Cells(t)

LEMMA NextGrid == GeometryInv /\ GridInv /\ [Next]_vars => GridInv'
<1> SUFFICES ASSUME GeometryInv, GridInv, [Next]_vars, NEW t \in Tiles, grid'[t] # None
             PROVE  grid'[t] = Cells(t)'
  BY DEF GridInv
<1>1. map[t]' = map[t] => Cells(t)' = Cells(t)
  BY DEF Cells
<1>2. CASE UNCHANGED <<map, grid>>
  BY <1>1, <1>2 DEF GridInv
<1>3. ASSUME NEW u \in Tiles, Place(u)
      PROVE  grid'[t] = Cells(t)'
  <2>1. grid' = grid /\ t # u
    BY <1>3 DEF Place, page, GeometryInv, ReadInv
  <2>2. map'[t] = map[t]
    BY <1>3, <2>1 DEF Place, GeometryInv, Domains
  <2> QED
    BY <1>1, <2>1, <2>2 DEF GridInv
<1>4. ASSUME NEW u \in Tiles, Draw(u)
      PROVE  grid'[t] = Cells(t)'
  <2>1. map' = map /\ grid'[t] = IF t = u /\ grid[t] = None THEN Cells(t) ELSE grid[t]
    BY <1>4 DEF Draw, GeometryInv, Domains
  <2> QED
    BY <1>1, <2>1 DEF GridInv
<1> QED
  BY <1>2, <1>3, <1>4 DEF Next, vars, page, Deposit, ClearCounts, Edit, Open, Read

LEMMA GridHolds == Spec => []GridInv
<1>1. Init => GridInv
  BY DEF Init, GridInv
<1> QED
  BY <1>1, GeometryHolds, NextGrid, PTL DEF Spec

\* No channel with a place is without a cell, on any tile, and none has two; nor is
\* one drawn that the map does not place.
THEOREM OneCellEach == Spec => []EveryChannelHasOneCell
<1>1. GeometryInv /\ GridInv => EveryChannelHasOneCell
  <2> SUFFICES ASSUME GeometryInv, GridInv, NEW t \in Tiles, grid[t] # None,
                      NEW ch \in Channels
               PROVE  Cardinality({cell \in grid[t] : ch \in cell}) =
                        IF map[t] = NoMap \/ ch \in DOMAIN map[t] THEN 1 ELSE 0
    BY DEF EveryChannelHasOneCell
  <2>1. map[t] \in ChannelMaps
    BY DEF GeometryInv, ReadInv, ChannelMaps
  <2>2. grid[t] = Cells(t)
    BY DEF GridInv
  <2> DEFINE own == {cell \in grid[t] : ch \in cell}
  <2>3. IF map[t] = NoMap \/ ch \in DOMAIN map[t] THEN \E cell : own = {cell} ELSE own = {}
    <3>1. CASE t = "occupancy"
      <4>1. own = IF map[t] = NoMap THEN {{ch}}
                  ELSE IF ch \in DOMAIN map[t] THEN {ChannelsAt(map[t], map[t][ch])} ELSE {}
        BY <2>1, <2>2, <3>1, StripCells DEF Cells
      <4> QED
        BY <4>1
    <3>2. CASE t # "occupancy"
      <4>1. own = IF map[t] = NoMap \/ ch \in DOMAIN map[t] THEN {{ch}} ELSE {}
        BY <2>1, <2>2, <3>2, ColumnCells DEF Cells
      <4> QED
        BY <4>1
    <3> QED
      BY <3>1, <3>2
  <2> HIDE DEF own
  <2>4. CASE map[t] = NoMap \/ ch \in DOMAIN map[t]
    <3>1. PICK cell : own = {cell}
      BY <2>3, <2>4
    <3> QED
      BY <2>4, <3>1, FS_Singleton DEF own
  <2>5. CASE ~(map[t] = NoMap \/ ch \in DOMAIN map[t])
    BY <2>3, <2>5, FS_EmptySet DEF own
  <2> QED
    BY <2>4, <2>5
<1> QED
  BY <1>1, GeometryHolds, GridHolds, PTL
-----------------------------------------------------------------------------
(* The two ends of the ranking. *)

Pick(S) == CHOOSE x \in S : TRUE

\* g is f summed over the subsets of S, an element at a time.
SumsUp(f, S, g) ==
  g = [s \in SUBSET S |-> IF s = {} THEN 0 ELSE f[Pick(s)] + g[s \ {Pick(s)}]]

LEMMA SumIsSummedUp ==
  ASSUME NEW f, NEW S, \E g : SumsUp(f, S, g)
  PROVE  \E g : SumsUp(f, S, g) /\ SumFunctionOnSet(f, S) = g[S]
<1> DEFINE h == CHOOSE g : SumsUp(f, S, g)
<1>1. SumsUp(f, S, h)
  OBVIOUS
<1>2. SumFunctionOnSet(f, S) = h[S]
  BY DEF SumFunctionOnSet, FoldFunctionOnSet, MapThenFoldSet, SumsUp, Pick
<1> QED
  BY <1>1, <1>2

\* A cell's hits are a whole number: it has a channel, or two.
LEMMA CellSum ==
  ASSUME NEW f, NEW a, NEW b, f[a] \in Int, f[b] \in Int
  PROVE  SumFunctionOnSet(f, {a, b}) \in Int
<1> DEFINE S == {a, b}
           total(s) == IF s = {} THEN 0 ELSE IF s = {a} THEN f[a]
                       ELSE IF s = {b} THEN f[b] ELSE f[a] + f[b]
           g == [s \in SUBSET S |-> total(s)]
<1>1. \A s \in SUBSET S : s # {} => total(s) = f[Pick(s)] + total(s \ {Pick(s)})
  <2> SUFFICES ASSUME NEW s \in SUBSET S, s # {}
               PROVE  total(s) = f[Pick(s)] + total(s \ {Pick(s)})
    OBVIOUS
  <2>1. Pick(s) \in s
    BY DEF Pick
  <2>2. CASE s = {a} \/ s = {b}
    <3>1. s \ {Pick(s)} = {} /\ s = {Pick(s)}
      BY <2>1, <2>2
    <3>2. total(s) = f[Pick(s)] /\ total({}) = 0
      BY <2>1, <2>2
    <3>3. f[Pick(s)] \in Int
      BY <2>1
    <3> QED
      BY <3>1, <3>2, <3>3
  <2>3. CASE s # {a} /\ s # {b}
    <3>1. s = {a, b} /\ a # b
      BY <2>3
    <3>2. \/ Pick(s) = a /\ s \ {Pick(s)} = {b}
          \/ Pick(s) = b /\ s \ {Pick(s)} = {a}
      BY <2>1, <3>1
    <3>3. total(s) = f[a] + f[b] /\ total({a}) = f[a] /\ total({b}) = f[b]
      BY <2>3, <3>1
    <3> QED
      BY <3>2, <3>3
  <2> QED
    BY <2>2, <2>3
<1>2. \A s \in SUBSET S : total(s) \in Int /\ total({}) = 0
  OBVIOUS
<1> HIDE DEF total
<1>3. SumsUp(f, S, g)
  <2>1. \A s \in SUBSET S :
          g[s] = IF s = {} THEN 0 ELSE f[Pick(s)] + g[s \ {Pick(s)}]
    BY <1>1, <1>2
  <2> QED
    BY <2>1 DEF SumsUp
<1>4. PICK h : SumsUp(f, S, h) /\ SumFunctionOnSet(f, S) = h[S]
  BY <1>3, SumIsSummedUp
<1>5. \A s \in SUBSET S : h[s] = IF s = {} THEN 0 ELSE f[Pick(s)] + h[s \ {Pick(s)}]
  BY <1>4 DEF SumsUp
<1>6. h[{}] = 0 /\ h[S] = f[Pick(S)] + h[S \ {Pick(S)}] /\ Pick(S) \in S
  BY <1>5 DEF Pick
<1>7. h[S \ {Pick(S)}] \in Int
  <2> DEFINE T == S \ {Pick(S)}
  <2>1. CASE T = {}
    <3>1. h[T] = 0
      BY <1>6, <2>1
    <3> QED
      BY <3>1
  <2>2. CASE T # {}
    <3>1. Pick(T) \in T /\ T \ {Pick(T)} = {}
      BY <1>6, <2>2 DEF Pick
    <3>2. h[T] = f[Pick(T)] + h[T \ {Pick(T)}]
      BY <1>5, <2>2
    <3>3. h[T] = f[Pick(T)] + 0 /\ f[Pick(T)] \in Int
      BY <1>6, <3>1, <3>2
    <3> QED
      BY <3>3
  <2> QED
    BY <2>1, <2>2
<1> QED
  BY <1>4, <1>6, <1>7

\* No more values than members.
LEMMA FewValues ==
  ASSUME NEW S, IsFiniteSet(S), NEW V
  PROVE  LET values == {V[s] : s \in S}
         IN IsFiniteSet(values) /\ Cardinality(values) <= Cardinality(S)
<1> DEFINE values == {V[s] : s \in S}
           f == [s \in S |-> V[s]]
<1>1. f \in Surjection(S, values)
  BY DEF Surjection
<1> QED
  BY <1>1, FS_Surjection

LEMMA NoMoreThanBoth ==
  ASSUME NEW S, IsFiniteSet(S), NEW T, IsFiniteSet(T)
  PROVE  /\ IsFiniteSet(S \union T)
         /\ Cardinality(S \union T) <= Cardinality(S) + Cardinality(T)
<1>1. /\ IsFiniteSet(S \union T)
      /\ Cardinality(S \union T) = Cardinality(S) + Cardinality(T) - Cardinality(S \intersect T)
  BY FS_Union
<1>2. IsFiniteSet(S \intersect T)
  BY FS_Intersection
<1>3. /\ Cardinality(S) \in Nat /\ Cardinality(T) \in Nat
      /\ Cardinality(S \intersect T) \in Nat
  BY <1>2, FS_CardinalityType
<1> QED
  BY <1>1, <1>3

\* A member that has less than K below it and less than K above it leaves room for
\* less than 2 K values.
LEMMA BothEnds ==
  ASSUME NEW G, IsFiniteSet(G), NEW V, \A d \in G : V[d] \in Int, NEW K \in Nat, NEW c \in G,
         Cardinality({d \in G : V[d] < V[c]}) < K,
         Cardinality({d \in G : V[d] > V[c]}) < K
  PROVE  Cardinality({V[d] : d \in G}) < 2 * K
<1> DEFINE Low == {d \in G : V[d] < V[c]}
           High == {d \in G : V[d] > V[c]}
           lows == {V[d] : d \in Low}
           highs == {V[d] : d \in High}
           all == {V[d] : d \in G}
<1>1. /\ IsFiniteSet(Low) /\ IsFiniteSet(High)
      /\ Cardinality(Low) \in Nat /\ Cardinality(High) \in Nat
  BY FS_Subset, FS_CardinalityType
<1>2. /\ IsFiniteSet(lows) /\ Cardinality(lows) <= Cardinality(Low)
      /\ IsFiniteSet(highs) /\ Cardinality(highs) <= Cardinality(High)
  BY <1>1, FewValues
<1>3. Cardinality(Low) < K /\ Cardinality(High) < K
  OBVIOUS
<1>4. all = (lows \union highs) \union {V[c]}
  OBVIOUS
<1> HIDE DEF Low, High, lows, highs, all
<1>5. /\ IsFiniteSet(lows \union highs)
      /\ Cardinality(lows \union highs) <= Cardinality(lows) + Cardinality(highs)
  BY <1>2, NoMoreThanBoth
<1>6. IsFiniteSet({V[c]}) /\ Cardinality({V[c]}) = 1
  BY FS_Singleton
<1>7. IsFiniteSet(all) /\ Cardinality(all) <= Cardinality(lows \union highs) + 1
  BY <1>4, <1>5, <1>6, NoMoreThanBoth
<1>8. /\ Cardinality(lows) \in Nat /\ Cardinality(highs) \in Nat
      /\ Cardinality(lows \union highs) \in Nat /\ Cardinality(all) \in Nat
  BY <1>2, <1>5, <1>7, FS_CardinalityType
<1>9. Cardinality(all) < 2 * K
  BY <1>1, <1>2, <1>3, <1>5, <1>7, <1>8
<1> QED
  BY <1>9 DEF all

\* The tile draws numbers, one for each channel.
ShownInv == shown # None => shown \in [Channels -> Nat]

LEMMA NextShown == AlternationInv /\ ShownInv /\ [Next]_vars => ShownInv'
<1> SUFFICES ASSUME AlternationInv, ShownInv, [Next]_vars PROVE ShownInv'
  OBVIOUS
<1>1. CASE UNCHANGED shown
  BY <1>1 DEF ShownInv
<1>2. ASSUME NEW t \in Tiles, Draw(t) PROVE ShownInv'
  BY <1>2 DEF Draw, ShownInv, AlternationInv, CountTypes
<1> QED
  BY <1>1, <1>2 DEF Next, vars, page, Deposit, ClearCounts, Edit, Open, Place, Read

\* The cells of the occupancy tile are finite, and each has a channel or two.
LEMMA StripsAreSmall ==
  ASSUME NEW m \in ChannelMaps
  PROVE  /\ IsFiniteSet(Strips(m, nch))
         /\ \A cell \in Strips(m, nch) : \E a, b \in Channels : cell = {a, b}
<1>1. IsFiniteSet(Channels)
  BY ChannelsAssumption, FS_Interval
<1>2. IsFiniteSet(Strips(m, nch))
  <2>1. Strips(m, nch) \in SUBSET (SUBSET Channels)
    BY CellsAreStrips DEF ChannelMaps
  <2>2. IsFiniteSet(SUBSET Channels)
    BY <1>1, FS_SUBSET
  <2> QED
    BY <2>1, <2>2, FS_Subset
<1>3. ASSUME NEW cell \in Strips(m, nch) PROVE \E a, b \in Channels : cell = {a, b}
  <2>1. CASE m = NoMap
    <3>1. PICK a \in Channels : cell = {a}
      BY <2>1, ChannelsAssumption DEF Strips
    <3>2. cell = {a, a}
      BY <3>1
    <3> QED
      BY <3>2
  <2>2. CASE m # NoMap
    <3>1. PICK ch \in DOMAIN m : cell = ChannelsAt(m, m[ch])
      BY <2>2 DEF Strips, Positions
    <3>2. DOMAIN m \subseteq Channels
      BY <2>2, PlacesAreStrips DEF ChannelMaps
    <3>3. \E a, b \in DOMAIN m : cell = {a, b}
      <4>1. CASE cell = {ch}
        <5>1. cell = {ch, ch}
          BY <4>1
        <5> QED
          BY <5>1
      <4>2. CASE cell # {ch}
        <5>1. PICK other \in DOMAIN m : cell = {ch, other}
          BY <2>2, <3>1, <4>2, FewAtAPlace
        <5> QED
          BY <5>1
      <4> QED
        BY <4>1, <4>2
    <3> QED
      BY <3>2, <3>3
  <2> QED
    BY <2>1, <2>2
<1> QED
  BY <1>2, <1>3

\* A cell that is among the quietest and among the busiest has few other values
\* around it, whatever the counts.
THEOREM EndsAreApart == Spec => []SharedOnlyIfFewCounts
<1>1. GeometryInv /\ GridInv /\ CellsInv /\ ShownInv => SharedOnlyIfFewCounts
  <2> SUFFICES ASSUME GeometryInv, GridInv, CellsInv, ShownInv, shown # None,
                      NEW c \in Quietest \intersect Busiest
               PROVE  Cardinality({Values[d] : d \in grid["occupancy"]}) < 2 * MapRank
    BY DEF SharedOnlyIfFewCounts
  <2> DEFINE G == grid["occupancy"]
  <2>1. map["occupancy"] \in ChannelMaps /\ G = Strips(map["occupancy"], nch)
    BY TilesAssumption DEF GeometryInv, ReadInv, ChannelMaps, GridInv, CellsInv, Cells
  <2>2. IsFiniteSet(G)
    BY <2>1, StripsAreSmall
  <2>3. \A d \in G : Values[d] \in Int
    <3> SUFFICES ASSUME NEW d \in G PROVE SumFunctionOnSet(shown, d) \in Int
      BY DEF Values
    <3>1. PICK a \in Channels, b \in Channels : d = {a, b}
      BY <2>1, StripsAreSmall
    <3>2. shown[a] \in Int /\ shown[b] \in Int
      BY DEF ShownInv
    <3> QED
      BY <3>1, <3>2, CellSum
  <2> DEFINE Quieter == {d \in G : \/ Values[d] < Values[c]
                                   \/ Values[d] = Values[c] /\ Earlier(d, c)}
             Busier == {d \in G : \/ Values[d] > Values[c]
                                  \/ Values[d] = Values[c] /\ Earlier(d, c)}
             Lower == {d \in G : Values[d] < Values[c]}
             Higher == {d \in G : Values[d] > Values[c]}
  <2>4. c \in G /\ Cardinality(Quieter) < MapRank /\ Cardinality(Busier) < MapRank
    BY DEF Quietest, Busiest
  <2>5. /\ Lower \in SUBSET Quieter /\ Higher \in SUBSET Busier
        /\ Quieter \in SUBSET G /\ Busier \in SUBSET G
    OBVIOUS
  <2> HIDE DEF Quieter, Busier, Lower, Higher
  <2>6. IsFiniteSet(Quieter) /\ IsFiniteSet(Busier)
    BY <2>2, <2>5, FS_Subset
  <2>7. /\ Cardinality(Quieter) \in Nat /\ Cardinality(Busier) \in Nat
        /\ Cardinality(Lower) \in Nat /\ Cardinality(Higher) \in Nat
        /\ Cardinality(Lower) <= Cardinality(Quieter)
        /\ Cardinality(Higher) <= Cardinality(Busier)
    BY <2>5, <2>6, FS_Subset, FS_CardinalityType
  <2>8. Cardinality(Lower) < MapRank /\ Cardinality(Higher) < MapRank
    BY <2>4, <2>7, RankAssumption
  <2> USE DEF Lower, Higher
  <2> DEFINE V == Values
  <2> HIDE DEF G, V
  <2>9. Cardinality({V[d] : d \in G}) < 2 * MapRank
    BY <2>2, <2>3, <2>4, <2>8, RankAssumption, BothEnds DEF V
  <2> QED
    BY <2>9 DEF G, V
<1>2. Init => AlternationInv /\ CellsInv /\ ShownInv
  <2>1. Init => ShownInv
    BY DEF Init, ShownInv
  <2> QED
    BY <2>1, InitAlternation
<1> QED
  BY <1>1, <1>2, GeometryHolds, GridHolds, NextAlternation, NextCells, NextShown, PTL DEF Spec
=============================================================================
