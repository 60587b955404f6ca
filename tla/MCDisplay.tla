------------------------------ MODULE MCDisplay ------------------------------
(* Model-checking instance of Display.                                     *)
EXTENDS Display
=============================================================================
