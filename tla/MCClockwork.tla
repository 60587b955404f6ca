------------------------------ MODULE MCClockwork ------------------------------
(* Model-checking instance of Clockwork.  In one run the user tries dates  *)
(* at the ends of months, leap and common years, and arguments on both     *)
(* sides of every limit, 356 and -1 among them, which a byte cuts.  In     *)
(* another one good and bad dates follow each other, and in a third the    *)
(* clock is set to just before an hour that strikes.                       *)
EXTENDS Clockwork, TLC

Days ==
    [year : {0, 23, 24, 99, 100, 356}, mon : {0, 1, 2, 11, 12, 13},
     mday : {1, 28, 29, 30, 31}, wday : {7}]

Times ==
    {[hour |-> h, min |-> 59, sec |-> s] : h \in {0, 19, 23, 24}, s \in {59, -1}}
        \cup {[hour |-> 23, min |-> 60, sec |-> 59],
              [hour |-> 23, min |-> 59, sec |-> 60]}

At(d, t) == t @@ d

LastSecond == [hour |-> 23, min |-> 59, sec |-> 59]
SomeDay    == [year |-> 24, mon |-> 2, mday |-> 1, wday |-> 7]

Dates1 ==
    {At(d, LastSecond) : d \in Days}
        \cup {At(d, t) : d \in {SomeDay, [SomeDay EXCEPT !.mday = 30]}, t \in Times}

Mixed ==
    {At(SomeDay, LastSecond), At([SomeDay EXCEPT !.mday = 30], LastSecond),
     At([SomeDay EXCEPT !.mon = 13], LastSecond), At([SomeDay EXCEPT !.year = 100], LastSecond)}

Strikes ==
    {At(SomeDay, [hour |-> h, min |-> 59, sec |-> 59]) : h \in {8, 11, 12, 13, 22}}

Given == Dates1 \cup Mixed \cup Strikes

Runs ==
    {[given |-> Dates1,  most |-> 1],
     [given |-> Mixed,   most |-> 3],
     [given |-> Strikes, most |-> 2]}

(* The turn of the century, a carry after it, and the last day that the    *)
(* chip counts right.                                                      *)
Start ==
    {At([year |-> 99, mon |-> 12, mday |-> 31, wday |-> 7], LastSecond),
     At([year |-> 100, mon |-> 1, mday |-> 31, wday |-> 7], LastSecond),
     At([year |-> 100, mon |-> 2, mday |-> 28, wday |-> 7], LastSecond)}

(* 23.5 degrees, 60 per cent.                                              *)
Room == {ClimateFrame(235, 60)}
=============================================================================
