------------------------------ MODULE MCClimate ------------------------------
(* Model-checking instance of Climate alone.                               *)
EXTENDS Climate
TheTemps == {-53, 0, 207}
=============================================================================
