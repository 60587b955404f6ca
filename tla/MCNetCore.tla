----------------------------- MODULE MCNetCore -----------------------------
(* The instance of NetCore that TLC checks.                                *)
EXTENDS NetCore
=============================================================================
