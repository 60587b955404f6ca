---------------------------- MODULE MCTimeEvents ----------------------------
(* Model-checking instance of TimeEvents: a day of two hours of two        *)
(* minutes of two seconds, 01:00 and 01:01 in place of 07:00 and 08:40.    *)
EXTENDS TimeEvents
OnAtOne  == [hour |-> 1, min |-> 0]
OffAtOne == [hour |-> 1, min |-> 1]
=============================================================================
