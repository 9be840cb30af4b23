---------------------------- MODULE MCChannelMaps ----------------------------
\* Five channels, the last of another detector, so that four have cells; channel
\* five is out of range.  The events spread the four and bring one of them out of
\* family, together and alone.
EXTENDS ChannelMaps, TLC

MCEvents ==
  {0 :> 4 @@ 1 :> 3 @@ 2 :> 2 @@ 3 :> 1,
   0 :> 1 @@ 1 :> 2 @@ 2 :> 3 @@ 3 :> 4 @@ 4 :> 1,
   1 :> 2 @@ 2 :> 9 @@ 5 :> 7}

MCMap == [ch \in 0 .. 3 |-> [layer |-> 0, strip |-> ch \div 2]]

MCMaps == {MCMap, NoMap}
=============================================================================
