--------------------------- MODULE MCRollingHist ---------------------------
(* Model-checking instance of RollingHist: small caps that cover the floor  *)
(* of set_cap (below 2), an odd cap, and caps a factor of three apart, so   *)
(* that a cut can leave a retired half longer than the new cap.             *)
EXTENDS RollingHist

MCCaps == {-1, 3, 4, 8}
=============================================================================
