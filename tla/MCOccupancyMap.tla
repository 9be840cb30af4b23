---------------------------- MODULE MCOccupancyMap ----------------------------
\* Four channels wired as two pairs of one layer; the channel map as it should be
\* read, with another stride and one channel of another detector, and without the
\* base.
EXTENDS OccupancyMap, TLC

MCStrip == 0 :> "a" @@ 1 :> "a" @@ 2 :> "b" @@ 3 :> "b"

MCWired ==
  [id |-> 0 :> 4 @@ 1 :> 4 @@ 2 :> 5 @@ 3 :> 5, atar |-> 0 .. 3,
   base |-> 4, stride |-> 2, layers |-> 2]

MCOdbStates ==
  {MCWired, [MCWired EXCEPT !.stride = 1, !.atar = {0, 1, 3}],
   [MCWired EXCEPT !.base = Missing]}
=============================================================================
