----------------------------- MODULE MCDataStore -----------------------------
(* Model-checking instance of DataStore: two show times and two colours    *)
(* are enough to tell an old value from a new one in every field.          *)
EXTENDS DataStore
=============================================================================
