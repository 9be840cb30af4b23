------------------------------- MODULE AtarGeom -------------------------------
(***************************************************************************)
(* The channel map of the target, as dqm-atar-geom.js decodes it from the  *)
(* ODB and lays it out: which channels share a strip, and which cells the  *)
(* maps of the Channels tab have.                                          *)
(***************************************************************************)
EXTENDS Integers, FiniteSets

CONSTANTS
  Missing,  \* a key, or all of the settings, that cannot be read
  NoMap     \* read() found no geometry

\* s are the settings /Equipment/SAMPIC/Settings: the pixel id of each channel, the
\* channels of the target, and the geometry that the ids were made with.
\* Number(null): a key that is missing reads as zero.
Num(value) == IF value = Missing THEN 0 ELSE value

Index(s, ch) == s.id[ch] - Num(s.base)

\* Settings with numbers where there are any.
Numeric(s) ==
  /\ \A ch \in s.atar : s.id[ch] \in Int
  /\ Num(s.base) \in Int /\ Num(s.stride) \in Int

\* The channels that have a place: of the target, not below the base, in a layer
\* there is.
Placed(s) ==
  {ch \in s.atar :
     /\ Index(s, ch) >= 0
     /\ Num(s.layers) > 0 => Index(s, ch) \div s.stride < Num(s.layers)}

Position(s, ch) == [layer |-> Index(s, ch) \div s.stride,
                    strip |-> Index(s, ch) % s.stride]

\* read()
Decode(s) ==
  IF s # Missing /\ Num(s.stride) > 0 /\ Placed(s) # {}
    THEN [ch \in Placed(s) |-> Position(s, ch)]
    ELSE NoMap

\* layerOf(), stripOf(): null, too, for a channel the map does not cover.
Covers(map, ch) == map # NoMap /\ ch \in DOMAIN map

\* map.layers: the layers that have a channel.
LayersOf(map) == IF map = NoMap THEN {} ELSE {map[ch].layer : ch \in DOMAIN map}

\* orientationOf(): the layers alternate from s.first on.
OrientationOf(s, layer) ==
  LET other == IF s.first = "vertical" THEN "horizontal" ELSE "vertical"
  IN CASE s.first = Missing -> Missing
       [] s.first # Missing /\ layer % 2 = 0 -> s.first
       [] OTHER -> other

\* layerColumns(): even layers left, odd layers right.
LeftColumn(map) == {layer \in LayersOf(map) : layer % 2 = 0}

-----------------------------------------------------------------------------
Positions(map) == {map[ch] : ch \in DOMAIN map}

ChannelsAt(map, pos) == {ch \in DOMAIN map : map[ch] = pos}

Paired(map) == map # NoMap /\ \E pos \in Positions(map) : Cardinality(ChannelsAt(map, pos)) > 1

\* The channel of a position that the channel map lists k-th, from zero.
Nth(channels, k) ==
  CHOOSE ch \in channels : Cardinality({other \in channels : other < ch}) = k

\* Slip: a later channel of a position takes the place of an earlier one.
LastOfEach(map, n) ==
  IF map = NoMap
    THEN {{ch} : ch \in 0 .. n - 1}
    ELSE {{Nth(ChannelsAt(map, pos), Cardinality(ChannelsAt(map, pos)) - 1)} :
            pos \in Positions(map)}

\* heatGrid(): a cell for each position, or for each channel of the analyzer's
\* axis when there is no map.
Strips(map, n) ==
  IF map = NoMap
    THEN {{ch} : ch \in 0 .. n - 1}
    ELSE {ChannelsAt(map, pos) : pos \in Positions(map)}

\* heatGrid() with a member: the k-th channel of each strip that has as many.
Column(map, n, k) ==
  IF map = NoMap
    THEN Strips(map, n)
    ELSE {{Nth(ChannelsAt(map, pos), k)} :
            pos \in {p \in Positions(map) : Cardinality(ChannelsAt(map, p)) > k}}
=============================================================================
