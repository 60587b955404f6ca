------------------------------ MODULE MCCalendar ------------------------------
(* Model-checking instance of Calendar: dates at the ends of months, leap  *)
(* and common years, the last and first second of a day, and arguments on  *)
(* both sides of every limit, 356 and -1 among them, which a byte cuts.    *)
EXTENDS Calendar, TLC

Days ==
    [year : {0, 23, 24, 99, 100, 356}, mon : {0, 1, 2, 11, 12, 13},
     mday : {1, 28, 29, 30, 31}, wday : {7}]

Times ==
    {[hour |-> h, min |-> 59, sec |-> s] : h \in {0, 19, 23, 24}, s \in {59, -1}}
        \cup {[hour |-> 23, min |-> 60, sec |-> 59],
              [hour |-> 23, min |-> 59, sec |-> 60]}

At(d, t) == t @@ d

Given ==
    {At(d, [hour |-> 23, min |-> 59, sec |-> 59]) : d \in Days}
        \cup {At(d, t) : d \in {x \in Days : x.mon = 11 /\ x.year # 23}, t \in Times}

Start ==
    {[year |-> 99, mon |-> 12, mday |-> 31, wday |-> 7,
      hour |-> 23, min |-> 59, sec |-> 59]}

CommonDates == {d \in Given : d.year = 23}
=============================================================================
