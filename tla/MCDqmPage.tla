------------------------------ MODULE MCDqmPage ------------------------------
\* Two boards of two channels: 0 and 1 in the first layer, 2 in the second, 3 on no
\* strip.  The tabs are those whose panels differ in kind.
EXTENDS DqmPage, TLC

MCTabOf == [e \in {"calorimeter", "persistence", "edep"} |-> "proposed"]

MCKind == "calorimeter" :> "blocked" @@ "persistence" :> "held back" @@ "edep" :> "fails"

Ready == [e \in DOMAIN MCKind |-> "drawn"]

MCDefaults == [client |-> "mdqm_analyzer", histograms |-> {"occupancy"}, eventId |-> 1]

MCOdb == [client |-> Unset, histograms |-> Unset, eventId |-> Unset]

\* A pulse of two samples in a record with room for three.
Hit(board, channel, size, low) ==
  [board |-> board, channel |-> channel, data_size |-> size, baseline |-> 2,
   slots |-> <<low, 2, 0>>]

AD(hits) == [bytes |-> Len(hits) * AD_HIT_BYTES, records |-> hits]

Banks(ad, at, ac) == [AD |-> ad, AT |-> at, AC |-> ac]

AT(n) == [bytes |-> AT_RECORD_BYTES, hits |-> n]

AC(n) == [bytes |-> AC_RECORD_BYTES, hits |-> n]

\* One channel twice and the first of the other board; records with no sample, beside
\* one that has some and alone; another frontend's event; one without hits; a layout
\* that is not known; a channel of no layer and counts that differ.
Track == [id |-> 1, banks |->
  Banks(AD(<<Hit(0, 0, 2, 0), Hit(1, 0, 2, 1), Hit(0, 0, 70, 0)>>), AT(3), AC(3))]

Boards == [id |-> 1, banks |->
  Banks(AD(<<Hit(0, 0, 2, 0), Hit(0, 1, 0, 1), Hit(1, 0, 0, 1)>>), AT(3), Absent)]

Other == [id |-> 2, banks |-> Banks([bytes |-> 10, records |-> << >>], Absent, Absent)]

NoHits == [id |-> 1, banks |-> Banks(Absent, AT(3), Absent)]

Odd == [id |-> 1, banks |-> Banks([bytes |-> 10, records |-> << >>], AT(1), Absent)]

Mixed == [id |-> 1, banks |-> Banks(AD(<<Hit(0, 1, 2, 0), Hit(1, 1, 2, 0)>>), AT(1), AC(2))]

Split == [id |-> 1, banks |-> Banks(AD(<<Hit(0, 1, 2, 0)>>), Absent, AC(2))]

MCSettings ==
  [id |-> 0 :> 10 @@ 1 :> 11 @@ 2 :> 12 @@ 3 :> 0, atar |-> 0 .. 3, base |-> 10,
   stride |-> 2, layers |-> 2, first |-> "vertical"]

World(catalogue, panels, keys, s, written, kept, failures) ==
  [tabs |-> catalogue, kind |-> panels, odb |-> keys, settings |-> s, events |-> written,
   stored |-> kept, losses |-> failures]

Both == <<"proposed", "scope">>

Horizontal == [MCSettings EXCEPT !.first = "horizontal"]

\* Pages with panels that wait on the analyzer; with an event that comes as tabs are
\* opened and left; and pages of the Scope tab alone, with two events.
MCWorlds ==
  {World(Both, MCKind, [MCOdb EXCEPT !.client = NoClient], MCSettings, << >>, {}, 0),
   World(Both, MCKind, [MCOdb EXCEPT !.histograms = {}], MCSettings, << >>, {}, 0),
   World(Both, Ready, MCOdb, MCSettings, <<Split>>, {1}, 0),
   World(<<"scope">>, MCKind, MCOdb, MCSettings, <<Track>>, {}, 0),
   World(<<"scope">>, MCKind, MCOdb, MCSettings, <<Boards, Odd>>, None, 0),
   World(<<"scope">>, MCKind, MCOdb, Horizontal, <<Mixed>>, {}, 0),
   World(<<"scope">>, MCKind, MCOdb, Missing, <<Split, Split>>, None, 0),
   World(<<"scope">>, MCKind, MCOdb, Missing, <<NoHits, Other>>, {}, 0),
   World(<<"scope">>, MCKind, MCOdb, Missing, <<Split>>, {}, 1)}
=============================================================================
