---------------------------- MODULE MCAnalyzer ----------------------------
(* Model-checking instance of Analyzer.  The ODB holds the defaults, another  *)
(* list of channels, another rate, another binning, or one that cannot be     *)
(* built; and the wide binning read half way is one that cannot be built.     *)
EXTENDS Analyzer

CONSTANTS default, wide, broken, code, chans, fewer

MCBuilt == [b \in Binnings |-> IF b = broken THEN 4 ELSE 7]

MCMixed ==
  [b \in Binnings |-> {b, default} \union (IF b = wide THEN Binnings \intersect {broken} ELSE {})]

Config(c, b, r) == [channels |-> c, binning |-> b, rate |-> r]

MCConfigs ==
  {Config(chans, default, 4), Config(fewer, default, 2),
   Config(chans, wide, 2), Config(chans, broken, 4)}

LiveConfigs == {Config(chans, default, 4), Config(chans, broken, 4)}
===========================================================================
