----------------------------- MODULE MCNetServer -----------------------------
(* Model-checking instance of NetServer and Climate: a temperature below,  *)
(* at and above zero and one humidity, which are all their conditions ask. *)
EXTENDS NetServer
TheTemps == {-53, 0, 207}
=============================================================================
