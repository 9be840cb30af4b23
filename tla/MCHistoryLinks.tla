--------------------------- MODULE MCHistoryLinks ---------------------------
(* Model-checking instance of HistoryLinks: two arrays with a scalar each,  *)
(* and one scalar that is always there.  history() returns all of them, or  *)
(* only the last when the series could not be built, or one array when the  *)
(* plugin has one.                                                          *)
EXTENDS HistoryLinks

MCOthers == {<<"Target", "temperature">>}

MCPayloads ==
  {{"Events"}, {"Baseline", "Baseline median", "Events"},
   {"Baseline", "Baseline median", "Noise", "Events"}}
=============================================================================
