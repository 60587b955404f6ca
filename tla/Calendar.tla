------------------------------- MODULE Calendar -------------------------------
(***************************************************************************)
(* Setting and reading the DS3231's clock: the console's sdate command,    *)
(* the check of mid_rtc.c, and hal_ds3231.c's translation between a date   *)
(* and the chip's seven BCD registers.  The chip counts on meanwhile.      *)
(*                                                                         *)
(* Each transfer of the registers is a critical section and the chip reads *)
(* and loads its counters at once, so that a transfer is one step.         *)
(***************************************************************************)
EXTENDS Integers, Sequences

CONSTANTS
    Args,           \* what the user gives sdate: records of integers
    StartDates,     \* dates the chip may hold at the start
    Garbage,        \* what an uninitialised byte may hold
    TicksPerSet     \* bound: seconds that pass after a set

Byte       == 0 .. 255
Dates(S)   == [sec : S, min : S, hour : S, wday : S, mday : S, mon : S, year : S]

ASSUME ArgsAssumption    == Args \subseteq Dates(Int)
ASSUME GarbageAssumption == Garbage \subseteq Byte /\ Garbage # {}
ASSUME TicksAssumption   == TicksPerSet \in Nat

VARIABLES
    chip,       \* the DS3231's registers 0 to 6
    past,       \* the byte behind rtc_days_in_month
    answer,     \* what the last sdate told the user
    right,      \* history: what a right clock would show since the last set
    known,      \* history: that began on a real date and is not out of range
    ticks       \* seconds since then

vars == <<chip, past, answer, right, known, ticks>>

-----------------------------------------------------------------------------
(* BCD.  The bits of the two digits do not overlap: | is +.                *)

bcd2bin(b) == (b % 16) + (b \div 16) * 10
bin2bcd(n) == (((n \div 10) * 16) + (n % 10)) % 256

(* Dates: what the calendar says, and what the DS3231 takes it for.  The   *)
(* chip has two digits and a century bit for the year, and takes every     *)
(* fourth one for a leap year.                                             *)

LeapYear(year) == (year % 4 = 0 /\ year % 100 # 0) \/ year % 400 = 0

RealLeap(d) == LeapYear(2000 + d.year)
ChipLeap(d) == d.year % 4 = 0

MonthLength(mon, leap) ==
    IF mon = 2 THEN IF leap THEN 29 ELSE 28
    ELSE IF mon \in {4, 6, 9, 11} THEN 30 ELSE 31

Exists(d, leap) ==
    /\ d.mon \in 1 .. 12
    /\ d.mday \in 1 .. MonthLength(d.mon, leap)
    /\ d.wday \in 1 .. 7

ChipDay(d) == d.year \in 0 .. 199 /\ Exists(d, ChipLeap(d))
RealDay(d) == d.year \in 0 .. 99 /\ Exists(d, RealLeap(d))

(* The last date that both count alike is 28 February 2100.                *)
Covered(d) ==
    /\ d.year \in 0 .. 100 /\ (d.year = 100 => d.mon <= 2)
    /\ Exists(d, RealLeap(d))

RealTime(d) == d.hour \in 0 .. 23 /\ d.min \in 0 .. 59 /\ d.sec \in 0 .. 59

ASSUME StartAssumption ==
    StartDates \subseteq {d \in Dates(Byte) : Covered(d) /\ RealTime(d)}

-----------------------------------------------------------------------------
(* mid_rtc.c.  The table is indexed from 0, the month counts from 1.       *)

rtc_days_in_month == <<31, 28, 31, 30, 31, 30, 31, 31, 30, 31, 30, 31>>

rtc_month_days(month, year) ==
    (IF month < 12 THEN rtc_days_in_month[month + 1] ELSE past)
        + (IF LeapYear(year) /\ month = 1 THEN 1 ELSE 0)

rtc_valid_tm(t) ==
    /\ t.year <= 100
    /\ t.mon <= 12
    /\ t.mday \in 1 .. rtc_month_days(t.mon, t.year + 2000)
    /\ t.wday <= 7
    /\ t.hour < 24 /\ t.min < 60 /\ t.sec < 60

(* hal_ds3231.c.  The year's byte is uninitialised when the century bit is *)
(* set in it: g is what it held, the code sets its top bit.                *)

YearByte(year, g) == IF year < 100 THEN bin2bcd(year) ELSE (g % 128) + 128

Registers(t, g) ==
    [sec  |-> bin2bcd(t.sec),  min  |-> bin2bcd(t.min),  hour |-> bin2bcd(t.hour),
     wday |-> bin2bcd(t.wday), mday |-> bin2bcd(t.mday), mon  |-> bin2bcd(t.mon),
     year |-> YearByte(t.year, g)]

(* The 12 hour bit and the century bit are masked out of their registers.  *)
HourRead(b) ==
    IF (b \div 64) % 2 = 0 THEN bcd2bin(b)
    ELSE bcd2bin(b % 32) + (IF (b \div 32) % 2 = 0 THEN 0 ELSE 12)

(* Mutant: the century bit is masked out and forgotten.                    *)
YearReadShort(c) == bcd2bin(c.year)

YearRead(c) == (bcd2bin(c.year) + 100 * (c.mon \div 128)) % 256

DateRead(c) ==
    [sec  |-> bcd2bin(c.sec),  min  |-> bcd2bin(c.min),  hour |-> HourRead(c.hour),
     wday |-> bcd2bin(c.wday), mday |-> bcd2bin(c.mday), mon  |-> bcd2bin(c.mon % 128),
     year |-> YearRead(c)]

-----------------------------------------------------------------------------
(* The chip.                                                               *)

Carry(n, last, first) == IF n = last THEN first ELSE n + 1

NextSec(d)  == Carry(d.sec, 59, 0)
NextMin(d)  == IF NextSec(d) = 0 THEN Carry(d.min, 59, 0) ELSE d.min
NextHour(d) == IF NextSec(d) = 0 /\ NextMin(d) = 0 THEN Carry(d.hour, 23, 0) ELSE d.hour
WithTime(d, h, m, s) ==
    [sec  |-> s,      min  |-> m,      hour |-> h,     wday |-> d.wday,
     mday |-> d.mday, mon  |-> d.mon,  year |-> d.year]
NextTime(d) == WithTime(d, NextHour(d), NextMin(d), NextSec(d))

NextMday(d, leap) == Carry(d.mday, MonthLength(d.mon, leap), 1)
NextMon(d, leap)  == IF NextMday(d, leap) = 1 THEN Carry(d.mon, 12, 1) ELSE d.mon
NextYear(d, leap) ==
    IF NextMday(d, leap) = 1 /\ NextMon(d, leap) = 1 THEN Carry(d.year, 199, 0)
    ELSE d.year
NextDay(d, leap) ==
    [d EXCEPT !.wday = Carry(d.wday, 7, 1), !.mday = NextMday(d, leap),
              !.mon = NextMon(d, leap), !.year = NextYear(d, leap)]

Midnight(d) == d.hour = 0 /\ d.min = 0 /\ d.sec = 0

(* The registers of a date the chip counts to: as Registers has them, but  *)
(* the year passes from 99 to 0 as the century bit is toggled.             *)
Counted(t) ==
    [sec  |-> bin2bcd(t.sec),  min  |-> bin2bcd(t.min),  hour |-> bin2bcd(t.hour),
     wday |-> bin2bcd(t.wday), mday |-> bin2bcd(t.mday),
     mon  |-> bin2bcd(t.mon) + 128 * (t.year \div 100),
     year |-> bin2bcd(t.year % 100)]

(* The registers a second later.  What becomes of a day that does not      *)
(* exist is undefined.                                                     *)
TimeCounted(c, t) == WithTime(c, bin2bcd(t.hour), bin2bcd(t.min), bin2bcd(t.sec))
DayLost(c, mday, mon, year) == [c EXCEPT !.mday = mday, !.mon = mon, !.year = year]

Later(c) ==
    LET d == DateRead(c)
        t == NextTime(d)
    IN  IF ~Midnight(t) THEN {TimeCounted(c, t)}
        ELSE IF ChipDay(d) /\ c = Counted(d) THEN {Counted(NextDay(t, ChipLeap(d)))}
        ELSE {DayLost(TimeCounted(c, t), a, b, y) :
                  a \in Garbage, b \in Garbage, y \in Garbage}

TypeOK ==
    /\ chip \in Dates(Byte)
    /\ past \in Byte
    /\ answer \in {"none", "success", "incorrect"}
    /\ right \in Dates(Byte)
    /\ known \in BOOLEAN
    /\ ticks \in 0 .. TicksPerSet

Init ==
    /\ \E d \in StartDates : chip = Counted(d) /\ right = d
    /\ known = TRUE
    /\ past \in Garbage
    /\ answer = "none"
    /\ ticks = 0

Tick ==
    /\ ticks < TicksPerSet
    /\ chip' \in Later(chip)
    /\ right' = IF known /\ Midnight(NextTime(right))
                THEN NextDay(NextTime(right), RealLeap(right)) ELSE NextTime(right)
    /\ known' = (known /\ Covered(right'))
    /\ ticks' = ticks + 1
    /\ UNCHANGED <<past, answer>>

-----------------------------------------------------------------------------
(* The console task.                                                       *)

(* Mutant: struct rtc_time has wider fields.                               *)
FieldsWide(a) == a

(* The fields of struct rtc_time are U8.                                   *)
Fields(a) ==
    [sec  |-> a.sec % 256,  min  |-> a.min % 256,  hour |-> a.hour % 256,
     wday |-> a.wday % 256, mday |-> a.mday % 256, mon  |-> a.mon % 256,
     year |-> a.year % 256]

(* sdate.  On success it reads the date back, which changes nothing.       *)
SetTime(a) ==
    /\ IF rtc_valid_tm(Fields(a))
       THEN /\ chip' \in {Registers(Fields(a), g) : g \in Garbage}
            /\ right' = Fields(a)
            /\ known' = RealDay(Fields(a))
            /\ ticks' = 0
            /\ answer' = "success"
       ELSE /\ answer' = "incorrect"
            /\ UNCHANGED <<chip, right, known, ticks>>
    /\ UNCHANGED past

Next ==
    \/ Tick
    \/ \E a \in Args : SetTime(a)

Spec == Init /\ [][Next]_vars

-----------------------------------------------------------------------------
(* Properties.                                                             *)

(* Whatever the user has given sdate and however long ago, every reader    *)
(* gets a time of day: the clock never shows a digit out of range and the  *)
(* timed events find their second.                                         *)
TimeOfDayInRange == RealTime(DateRead(chip))

(* From a real date of this century on, at every carry, over the turn of   *)
(* the century and until 28 February 2100 is over, what the firmware reads *)
(* from the chip is the date a right clock would show since the last set.  *)
DateIsRight == known => DateRead(chip) = right

(* "Y[0,99] M[1,12] D[1,31] W[1-7] H[0-23] M[0-59] S[0-59]": sdate does not *)
(* refuse a date that exists.                                              *)
RealDatesAreTaken ==
    [][\A a \in Args :
        RealDay(a) /\ RealTime(a) /\ SetTime(a) => answer' = "success"]_vars

=============================================================================
