--------------------------- MODULE Clockwork_proofs ---------------------------
(***************************************************************************)
(* The clock from the chip to the tubes and the buzzer, for every argument *)
(* of sdate, every session and every interleaving.                         *)
(*                                                                         *)
(* First the chip alone, as Calendar has it: the time of day survives      *)
(* every translation, whatever the byte behind the table holds and an      *)
(* uninitialised byte adds to the year, and so does a date that exists.    *)
(* Clockwork's steps are Calendar's, so that this holds in it too; from    *)
(* there the tubes follow by the arithmetic of calc_map, and the strokes   *)
(* by an invariant that accounts for every beep in the two tasks.          *)
(***************************************************************************)
EXTENDS Clockwork, Tubes_proofs

(* Two BCD digits give back the number they were made from.                *)
LEMMA BcdRoundTrip ==
  ASSUME NEW n \in 0 .. 99
  PROVE  bin2bcd(n) \in 0 .. 153 /\ bcd2bin(bin2bcd(n)) = n
<1> DEFINE t == n \div 10
           u == n % 10
<1>1. t \in 0 .. 9 /\ u \in 0 .. 9 /\ n = t * 10 + u
  OBVIOUS
<1> HIDE DEF t, u
<1>2. bin2bcd(n) = (t * 16 + u) % 256
  BY DEF bin2bcd, t, u
<1>3. bin2bcd(n) = t * 16 + u
  BY <1>1, <1>2
<1>4. (t * 16 + u) % 16 = u /\ (t * 16 + u) \div 16 = t
  BY <1>1
<1> QED
  BY <1>1, <1>3, <1>4 DEF bcd2bin

(* An hour of the day sets neither the 12 hour bit nor is it changed.      *)
LEMMA HourRoundTrip ==
  ASSUME NEW h \in 0 .. 23
  PROVE  HourRead(bin2bcd(h)) = h
<1>0. h \in 0 .. 99
  OBVIOUS
<1>1. bin2bcd(h) \in 0 .. 153 /\ bcd2bin(bin2bcd(h)) = h
  BY <1>0, BcdRoundTrip
<1>2. h \div 10 \in 0 .. 2 /\ h % 10 \in 0 .. 9
  <2>1. h \div 10 \in 0 .. 2
    OBVIOUS
  <2>2. h % 10 \in 0 .. 9
    OBVIOUS
  <2> QED
    BY <2>1, <2>2
<1>3. (bin2bcd(h) \div 64) % 2 = 0
  <2> DEFINE t == h \div 10
             u == h % 10
  <2>1. t \in 0 .. 2 /\ u \in 0 .. 9 /\ bin2bcd(h) = (t * 16 + u) % 256
    BY <1>2 DEF bin2bcd
  <2> HIDE DEF t, u
  <2>2. bin2bcd(h) \in 0 .. 41
    BY <2>1
  <2> QED
    BY <2>2
<1> QED
  BY <1>1, <1>3 DEF HourRead

(* A time of day comes back from its three registers.                      *)
LEMMA TimeRoundTrip ==
  ASSUME NEW t, RealTime(t)
  PROVE  /\ HourRead(bin2bcd(t.hour)) = t.hour
         /\ bcd2bin(bin2bcd(t.min)) = t.min
         /\ bcd2bin(bin2bcd(t.sec)) = t.sec
<1>1. t.hour \in 0 .. 23 /\ t.min \in 0 .. 99 /\ t.sec \in 0 .. 99
  BY DEF RealTime
<1>2. HourRead(bin2bcd(t.hour)) = t.hour
  BY <1>1, HourRoundTrip
<1>3. bcd2bin(bin2bcd(t.min)) = t.min
  BY <1>1, BcdRoundTrip
<1>4. bcd2bin(bin2bcd(t.sec)) = t.sec
  BY <1>1, BcdRoundTrip
<1> QED
  BY <1>2, <1>3, <1>4

(* The registers hold a time of day that can be read.                      *)
Holds(c) ==
    /\ c \in Dates(Byte)
    /\ HourRead(c.hour) \in 0 .. 23
    /\ bcd2bin(c.min) \in 0 .. 59
    /\ bcd2bin(c.sec) \in 0 .. 59

(* What is read from them is a date of integers with a real time of day.   *)
LEMMA HoldsIsRealTime ==
  ASSUME NEW c, Holds(c)
  PROVE  DateRead(c) \in Dates(Int) /\ RealTime(DateRead(c))
<1>1. ASSUME NEW b \in Byte PROVE bcd2bin(b) \in Int /\ bcd2bin(b % 128) \in Int
  BY <1>1 DEF bcd2bin, Byte
<1>2. YearRead(c) \in Int
  BY DEF Holds, Dates, YearRead, bcd2bin, Byte
<1> QED
  BY <1>1, <1>2 DEF Holds, Dates, DateRead, RealTime

(* The registers that encode a date with a real time of day hold it.       *)
LEMMA RegistersHold ==
  ASSUME NEW t \in Dates(Int), RealTime(t), NEW g \in Byte
  PROVE  Holds(Registers(t, g))
<1>1. ASSUME NEW n \in Int PROVE bin2bcd(n) \in Byte
  BY <1>1 DEF bin2bcd, Byte
<1>2. YearByte(t.year, g) \in Byte
  BY <1>1 DEF YearByte, Byte, Dates
<1>3. Registers(t, g) \in Dates(Byte)
  BY <1>1, <1>2 DEF Registers, Dates
<1>4. /\ HourRead(bin2bcd(t.hour)) = t.hour
      /\ bcd2bin(bin2bcd(t.min)) = t.min
      /\ bcd2bin(bin2bcd(t.sec)) = t.sec
  BY TimeRoundTrip
<1> QED
  BY <1>3, <1>4 DEF Registers, Holds, RealTime

(* A second later the time of day is real again.                           *)
LEMMA NextTimeIsReal ==
  ASSUME NEW d \in Dates(Int), RealTime(d)
  PROVE  NextTime(d) \in Dates(Int) /\ RealTime(NextTime(d))
<1>1. NextSec(d) \in 0 .. 59
  BY DEF NextSec, Carry, RealTime
<1>2. NextMin(d) \in 0 .. 59
  BY DEF NextMin, Carry, RealTime
<1>3. NextHour(d) \in 0 .. 23
  BY DEF NextHour, Carry, RealTime
<1> QED
  BY <1>1, <1>2, <1>3 DEF NextTime, WithTime, RealTime, Dates

(* The next day begins at the same time of day.                            *)
LEMMA NextDayKeepsTime ==
  ASSUME NEW d \in Dates(Int), RealTime(d), NEW leap \in BOOLEAN
  PROVE  NextDay(d, leap) \in Dates(Int) /\ RealTime(NextDay(d, leap))
<1>1. MonthLength(d.mon, leap) \in Int
  BY DEF MonthLength
<1>2. NextMday(d, leap) \in Int
  BY <1>1 DEF NextMday, Carry, Dates
<1>3. NextMon(d, leap) \in Int
  BY DEF NextMon, Carry, Dates
<1>4. NextYear(d, leap) \in Int /\ Carry(d.wday, 7, 1) \in Int
  BY DEF NextYear, Carry, Dates
<1> QED
  BY <1>2, <1>3, <1>4 DEF NextDay, RealTime, Dates

(* The day after one that the chip counts is one that registers hold.      *)
LEMMA NextDayIsCounted ==
  ASSUME NEW d \in Dates(Int), RealTime(d), ChipDay(d), NEW leap \in BOOLEAN, leap = ChipLeap(d)
  PROVE  /\ NextMday(d, leap) \in 1 .. 31 /\ NextMon(d, leap) \in 1 .. 12
         /\ NextYear(d, leap) \in 0 .. 199 /\ Carry(d.wday, 7, 1) \in 1 .. 7
<1> DEFINE last == MonthLength(d.mon, leap)
<1>1. last \in 28 .. 31
  BY DEF MonthLength
<1>2. d.mday \in 1 .. last /\ d.mon \in 1 .. 12 /\ d.year \in 0 .. 199 /\ d.wday \in 1 .. 7
  BY DEF ChipDay, Exists
<1>3. NextMday(d, leap) = Carry(d.mday, last, 1)
  BY DEF NextMday
<1> HIDE DEF last
<1>4. NextMday(d, leap) \in 1 .. 31
  BY <1>1, <1>2, <1>3 DEF Carry
<1> QED
  BY <1>2, <1>4 DEF NextMon, NextYear, Carry

(* The registers of a date from 2000 to 2199 hold its time of day.         *)
LEMMA CountedHold ==
  ASSUME NEW t \in Dates(Int), RealTime(t), t.mon \in 1 .. 12, t.year \in 0 .. 199
  PROVE  Holds(Counted(t))
<1>1. ASSUME NEW n \in Int PROVE bin2bcd(n) \in Byte
  BY <1>1 DEF bin2bcd, Byte
<1>2. bin2bcd(t.mon) \in 0 .. 18
  BY DEF bin2bcd
<1>3. t.year \div 100 \in 0 .. 1 /\ t.year % 100 \in Int
  OBVIOUS
<1>4. bin2bcd(t.mon) + 128 * (t.year \div 100) \in Byte
  BY <1>2, <1>3 DEF Byte
<1>5. Counted(t) \in Dates(Byte)
  BY <1>1, <1>3, <1>4 DEF Counted, Dates
<1>6. /\ HourRead(bin2bcd(t.hour)) = t.hour
      /\ bcd2bin(bin2bcd(t.min)) = t.min
      /\ bcd2bin(bin2bcd(t.sec)) = t.sec
  BY TimeRoundTrip
<1> QED
  BY <1>5, <1>6 DEF Counted, Holds, RealTime

(* One step of the chip keeps a time of day that can be read.              *)
LEMMA LaterHolds ==
  ASSUME NEW c, Holds(c), NEW e \in Later(c)
  PROVE  Holds(e)
<1> DEFINE d == DateRead(c)
           t == NextTime(d)
           timed == TimeCounted(c, t)
<1>1. t \in Dates(Int) /\ RealTime(t)
  BY HoldsIsRealTime, NextTimeIsReal
<1>2. Holds(timed)
  <2>1. Holds(Registers(t, 0))
    BY <1>1, RegistersHold DEF Byte
  <2> QED
    BY <2>1 DEF Holds, Registers, Dates, TimeCounted, WithTime
<1>3. CASE ~Midnight(t)
  BY <1>2, <1>3 DEF Later
<1>4. CASE Midnight(t) /\ ChipDay(d) /\ c = Counted(d)
  <2> DEFINE n == NextDay(t, ChipLeap(d))
  <2>1. n \in Dates(Int) /\ RealTime(n)
    BY <1>1, NextDayKeepsTime DEF ChipLeap
  <2>2. ChipDay(t) /\ ChipLeap(t) = ChipLeap(d)
    BY <1>4 DEF ChipDay, Exists, ChipLeap, NextTime, WithTime
  <2>3. n.mon \in 1 .. 12 /\ n.year \in 0 .. 199
    BY <1>1, <2>2, NextDayIsCounted DEF NextDay, Dates, ChipLeap
  <2>4. e = Counted(n)
    BY <1>4 DEF Later
  <2> HIDE DEF n
  <2> QED
    BY <2>1, <2>3, <2>4, CountedHold
<1>5. CASE Midnight(t) /\ ~(ChipDay(d) /\ c = Counted(d))
  <2>1. PICK a \in Garbage, b \in Garbage, y \in Garbage :
          e = DayLost(timed, a, b, y)
    BY <1>5 DEF Later
  <2>2. a \in Byte /\ b \in Byte /\ y \in Byte
    BY GarbageAssumption
  <2> QED
    BY <1>2, <2>1, <2>2 DEF Holds, Dates, DayLost
<1> QED
  BY <1>3, <1>4, <1>5

(* The chip holds a real time of day from the start, and after every step. *)
LEMMA ChipHolds == Spec => []Holds(chip)
<1>1. Init => Holds(chip)
  <2> SUFFICES ASSUME Init PROVE Holds(chip)
    OBVIOUS
  <2>1. PICK d \in StartDates : chip = Counted(d)
    BY DEF Init
  <2>2. d \in Dates(Byte) /\ RealTime(d) /\ d.mon \in 1 .. 12 /\ d.year \in 0 .. 199
    BY StartAssumption DEF Covered, Exists
  <2>3. d \in Dates(Int)
    BY <2>2 DEF Dates, Byte
  <2> QED
    BY <2>1, <2>2, <2>3, CountedHold
<1>2. Holds(chip) /\ [Next]_vars => Holds(chip)'
  <2> SUFFICES ASSUME Holds(chip), [Next]_vars PROVE Holds(chip')
    BY DEF Holds
  <2>1. CASE Tick
    BY <2>1, LaterHolds DEF Tick
  <2>2. ASSUME NEW a \in Args, SetTime(a) PROVE Holds(chip')
    <3>1. CASE rtc_valid_tm(Fields(a))
      <4>1. Fields(a) \in Dates(Int)
        BY ArgsAssumption DEF Fields, Dates
      <4>2. a \in Dates(Int)
        BY ArgsAssumption
      <4>3. RealTime(Fields(a))
        BY <3>1, <4>2 DEF rtc_valid_tm, RealTime, Fields, Dates
      <4>4. PICK g \in Garbage : chip' = Registers(Fields(a), g)
        BY <2>2, <3>1 DEF SetTime
      <4> QED
        BY <4>1, <4>3, <4>4, RegistersHold, GarbageAssumption
    <3>2. CASE ~rtc_valid_tm(Fields(a))
      BY <2>2, <3>2 DEF SetTime
    <3> QED
      BY <3>1, <3>2
  <2>3. CASE UNCHANGED vars
    BY <2>3 DEF vars
  <2> QED
    BY <2>1, <2>2, <2>3 DEF Next
<1> QED
  BY <1>1, <1>2, PTL DEF Spec

-----------------------------------------------------------------------------
(* Every reader of the clock gets a time of day.                           *)
THEOREM EveryReadIsATime == Spec => []TimeOfDayInRange
<1>1. Holds(chip) => TimeOfDayInRange
  BY HoldsIsRealTime DEF TimeOfDayInRange
<1> QED
  BY <1>1, ChipHolds, PTL

-----------------------------------------------------------------------------
(* What the firmware reads against a right clock.                          *)

SameTime(d, e) == d.hour = e.hour /\ d.min = e.min /\ d.sec = e.sec

(* The right clock always has a time of day, the firmware reads that time, *)
(* and while the date is known the registers are those of it.              *)
RightInv ==
    /\ Holds(chip)
    /\ right \in Dates(Byte)
    /\ RealTime(right)
    /\ SameTime(DateRead(chip), right)
    /\ known \in BOOLEAN
    /\ known => Covered(right) /\ chip = Counted(right)

(* The registers of a real time of day give that time back, ...            *)
LEMMA TimeReadBack ==
  ASSUME NEW t \in Dates(Int), RealTime(t), NEW g \in Byte
  PROVE  SameTime(DateRead(Registers(t, g)), t)
<1>1. /\ HourRead(bin2bcd(t.hour)) = t.hour
      /\ bcd2bin(bin2bcd(t.min)) = t.min
      /\ bcd2bin(bin2bcd(t.sec)) = t.sec
  BY TimeRoundTrip
<1> QED
  BY <1>1 DEF SameTime, DateRead, Registers

LEMMA CountedTimeBack ==
  ASSUME NEW t \in Dates(Int), RealTime(t)
  PROVE  SameTime(DateRead(Counted(t)), t)
<1>1. /\ HourRead(bin2bcd(t.hour)) = t.hour
      /\ bcd2bin(bin2bcd(t.min)) = t.min
      /\ bcd2bin(bin2bcd(t.sec)) = t.sec
  BY TimeRoundTrip
<1> QED
  BY <1>1 DEF SameTime, DateRead, Counted

(* ... and those of a day the chip counts the whole date, century and all. *)
LEMMA DateReadBack ==
  ASSUME NEW t \in Dates(Int), RealTime(t), ChipDay(t)
  PROVE  DateRead(Counted(t)) = t
<1> DEFINE century == t.year \div 100
           short == t.year % 100
<1>1. t.mday \in 0 .. 99 /\ t.mon \in 1 .. 12 /\ t.wday \in 0 .. 99
  <2>1. MonthLength(t.mon, ChipLeap(t)) \in 28 .. 31
    BY DEF MonthLength, ChipLeap
  <2> QED
    BY <2>1 DEF ChipDay, Exists
<1>2. century \in 0 .. 1 /\ short \in 0 .. 99 /\ t.year = 100 * century + short
  BY DEF ChipDay
<1> HIDE DEF century, short
<1>3. bcd2bin(bin2bcd(t.mday)) = t.mday
  BY <1>1, BcdRoundTrip
<1>4. bcd2bin(bin2bcd(t.wday)) = t.wday
  BY <1>1, BcdRoundTrip
<1>5. bcd2bin(bin2bcd(t.mon)) = t.mon
  <2>1. t.mon \in 0 .. 99
    BY <1>1
  <2> QED
    BY <2>1, BcdRoundTrip
<1>6. bcd2bin(bin2bcd(short)) = short
  BY <1>2, BcdRoundTrip
<1>7. bin2bcd(t.mon) \in 0 .. 18
  BY <1>1 DEF bin2bcd
<1>8. /\ (bin2bcd(t.mon) + 128 * century) % 128 = bin2bcd(t.mon)
      /\ (bin2bcd(t.mon) + 128 * century) \div 128 = century
  BY <1>2, <1>7
<1>9. Counted(t).mon = bin2bcd(t.mon) + 128 * century /\ Counted(t).year = bin2bcd(short)
  BY DEF Counted, century, short
<1>10. YearRead(Counted(t)) = (short + 100 * century) % 256
  BY <1>6, <1>8, <1>9 DEF YearRead
<1>11. YearRead(Counted(t)) = t.year
  BY <1>2, <1>10
<1>12. SameTime(DateRead(Counted(t)), t)
  BY CountedTimeBack
<1>13. Counted(t).mday = bin2bcd(t.mday) /\ Counted(t).wday = bin2bcd(t.wday)
  BY DEF Counted
<1>14. bcd2bin(Counted(t).mon % 128) = t.mon
  BY <1>5, <1>8, <1>9
<1> QED
  BY <1>3, <1>4, <1>11, <1>12, <1>13, <1>14 DEF SameTime, DateRead, Dates

(* The chip counts every date that is covered, ...                         *)
LEMMA CoveredIsCounted ==
  ASSUME NEW d \in Dates(Int), Covered(d)
  PROVE  ChipDay(d) /\ (d.year < 100 => ChipLeap(d) = RealLeap(d))
<1>1. d.year \in 0 .. 100 /\ d.mon \in 1 .. 12 /\ d.wday \in 1 .. 7
      /\ d.mday \in 1 .. MonthLength(d.mon, RealLeap(d)) /\ (d.year = 100 => d.mon <= 2)
  BY DEF Covered, Exists
<1>2. ASSUME d.year < 100 PROVE ChipLeap(d) = RealLeap(d)
  BY <1>1, <1>2 DEF ChipLeap, RealLeap, LeapYear
<1>3. d.year = 100 => ChipLeap(d) = TRUE /\ RealLeap(d) = FALSE
  BY DEF ChipLeap, RealLeap, LeapYear
<1>4. d.mday \in 1 .. MonthLength(d.mon, ChipLeap(d))
  <2>1. CASE d.year < 100
    BY <1>1, <1>2, <2>1
  <2>2. CASE d.year = 100
    BY <1>1, <1>3, <2>2 DEF MonthLength
  <2> QED
    BY <1>1, <2>1, <2>2
<1> QED
  BY <1>1, <1>2, <1>4 DEF ChipDay, Exists

(* ... and where the day after is covered too it counts to that day.       *)
LEMMA SameNextDay ==
  ASSUME NEW d \in Dates(Int), Covered(d), Covered(NextDay(d, RealLeap(d)))
  PROVE  NextDay(d, ChipLeap(d)) = NextDay(d, RealLeap(d))
<1>1. CASE d.year < 100
  BY <1>1, CoveredIsCounted
<1>2. CASE d.year = 100
  <2>1. d.mon \in {1, 2} /\ d.mday \in 1 .. MonthLength(d.mon, RealLeap(d))
    BY <1>2 DEF Covered, Exists
  <2>2. ChipLeap(d) = TRUE /\ RealLeap(d) = FALSE
    BY <1>2 DEF ChipLeap, RealLeap, LeapYear
  <2>3. NextDay(d, FALSE).year = NextYear(d, FALSE) /\ NextDay(d, FALSE).mon = NextMon(d, FALSE)
    BY DEF NextDay, Dates
  <2>4. NextMon(d, FALSE) <= 2
    <3>1. NextYear(d, FALSE) = 100
      BY <1>2, <2>1 DEF NextYear, NextMon, NextMday, MonthLength, Carry
    <3>2. Covered(NextDay(d, FALSE))
      BY <2>2
    <3> QED
      BY <2>3, <3>1, <3>2 DEF Covered
  <2>5. NextMday(d, FALSE) = NextMday(d, TRUE)
    <3>1. CASE d.mon = 1
      BY <3>1 DEF NextMday, MonthLength
    <3>2. CASE d.mon = 2
      <4>1. d.mday \in 1 .. 28 /\ d.mday # 28
        BY <2>1, <2>2, <2>4, <3>2 DEF MonthLength, NextMon, NextMday, Carry
      <4> QED
        BY <3>2, <4>1 DEF MonthLength, NextMday, Carry
    <3> QED
      BY <2>1, <3>1, <3>2
  <2> QED
    BY <2>2, <2>5 DEF NextDay, NextMon, NextYear
<1> QED
  BY <1>1, <1>2 DEF Covered

(* Two clocks that agree on the time agree on it a second later.           *)
LEMMA SameNextTime ==
  ASSUME NEW d, NEW e, SameTime(d, e)
  PROVE  SameTime(NextTime(d), NextTime(e))
  BY DEF SameTime, NextTime, WithTime, NextHour, NextMin, NextSec

(* Later keeps the chip's time a right one.                                *)
LEMMA LaterTime ==
  ASSUME NEW c, Holds(c), NEW e \in Later(c)
  PROVE  SameTime(DateRead(e), NextTime(DateRead(c)))
<1> DEFINE d == DateRead(c)
           t == NextTime(d)
           timed == TimeCounted(c, t)
<1>1. t \in Dates(Int) /\ RealTime(t)
  BY HoldsIsRealTime, NextTimeIsReal
<1>2. /\ timed.hour = bin2bcd(t.hour)
      /\ timed.min = bin2bcd(t.min)
      /\ timed.sec = bin2bcd(t.sec)
  BY DEF TimeCounted, WithTime
<1> HIDE DEF timed
<1>3. /\ HourRead(bin2bcd(t.hour)) = t.hour
      /\ bcd2bin(bin2bcd(t.min)) = t.min
      /\ bcd2bin(bin2bcd(t.sec)) = t.sec
  <2> HIDE DEF t
  <2> QED
    BY <1>1, TimeRoundTrip
<1>4. ASSUME NEW r, r.hour = timed.hour, r.min = timed.min, r.sec = timed.sec
      PROVE  SameTime(DateRead(r), t)
  <2> HIDE DEF t
  <2>1. /\ DateRead(r).hour = HourRead(r.hour)
        /\ DateRead(r).min = bcd2bin(r.min)
        /\ DateRead(r).sec = bcd2bin(r.sec)
    BY DEF DateRead
  <2> QED
    BY <1>2, <1>3, <1>4, <2>1 DEF SameTime
<1>5. CASE ~Midnight(t)
  <2>1. e = timed
    BY <1>5 DEF Later, timed
  <2> QED
    BY <1>4, <2>1
<1>6. CASE Midnight(t) /\ ChipDay(d) /\ c = Counted(d)
  <2> DEFINE n == NextDay(t, ChipLeap(d))
  <2>1. e = Counted(n)
    BY <1>6 DEF Later
  <2>2. n \in Dates(Int) /\ RealTime(n)
    BY <1>1, NextDayKeepsTime DEF ChipLeap
  <2>3. SameTime(n, t)
    BY <1>1 DEF NextDay, SameTime, Dates
  <2> HIDE DEF n
  <2>4. SameTime(DateRead(e), n)
    BY <2>1, <2>2, CountedTimeBack
  <2> QED
    BY <2>3, <2>4 DEF SameTime
<1>7. CASE Midnight(t) /\ ~(ChipDay(d) /\ c = Counted(d))
  <2>1. PICK a \in Garbage, b \in Garbage, y \in Garbage : e = DayLost(timed, a, b, y)
    BY <1>7 DEF Later, timed
  <2>2. e.hour = timed.hour /\ e.min = timed.min /\ e.sec = timed.sec
    BY <2>1 DEF DayLost, TimeCounted, WithTime, timed
  <2> QED
    BY <1>4, <2>2
<1> QED
  BY <1>5, <1>6, <1>7

(* The right clock stays within bytes.                                     *)
LEMMA RightStaysTyped ==
  ASSUME NEW d \in Dates(Byte), RealTime(d)
  PROVE  /\ NextTime(d) \in Dates(Byte) /\ RealTime(NextTime(d))
         /\ Covered(d) => /\ NextDay(NextTime(d), RealLeap(d)) \in Dates(Byte)
                          /\ RealTime(NextDay(NextTime(d), RealLeap(d)))
<1>1. d \in Dates(Int)
  BY DEF Dates, Byte
<1>2. NextTime(d) \in Dates(Int) /\ RealTime(NextTime(d))
  BY <1>1, NextTimeIsReal
<1>3. NextTime(d) \in Dates(Byte)
  BY <1>2 DEF NextTime, WithTime, Dates, RealTime, Byte
<1>4. ASSUME Covered(d)
      PROVE  /\ NextDay(NextTime(d), RealLeap(d)) \in Dates(Byte)
             /\ RealTime(NextDay(NextTime(d), RealLeap(d)))
  <2> DEFINE t == NextTime(d)
             leap == RealLeap(d)
  <2>1. t.mon \in 1 .. 12 /\ t.year \in 0 .. 100 /\ t.wday \in 1 .. 7
        /\ t.mday \in 1 .. MonthLength(t.mon, leap)
    BY <1>4 DEF NextTime, WithTime, Covered, Exists
  <2>2. MonthLength(t.mon, leap) \in 28 .. 31
    BY DEF MonthLength, RealLeap, LeapYear
  <2> HIDE DEF t, leap
  <2>3. /\ NextMday(t, leap) \in Byte /\ NextMon(t, leap) \in Byte
        /\ NextYear(t, leap) \in Byte /\ Carry(t.wday, 7, 1) \in Byte
    BY <2>1, <2>2 DEF NextMday, NextMon, NextYear, Carry, Byte
  <2>4. NextDay(t, leap) \in Dates(Byte) /\ RealTime(NextDay(t, leap))
    BY <1>2, <1>3, <2>3 DEF NextDay, Dates, RealTime, t
  <2> QED
    BY <2>4 DEF t, leap
<1> QED
  BY <1>2, <1>3, <1>4

(* A second of the chip and of the right clock.                            *)
LEMMA TickRight == RightInv /\ Tick => RightInv'
<1> SUFFICES ASSUME RightInv, Tick PROVE RightInv'
  OBVIOUS
<1> DEFINE t == NextTime(right)
<1>1. Holds(chip')
  BY LaterHolds DEF RightInv, Tick
<1>2. right \in Dates(Int)
  BY DEF RightInv, Dates, Byte
<1>3. /\ right' = IF known /\ Midnight(t) THEN NextDay(t, RealLeap(right)) ELSE t
      /\ known' = (known /\ Covered(right'))
  BY DEF Tick
<1>4. right' \in Dates(Byte) /\ RealTime(right')
  BY <1>3, RightStaysTyped DEF RightInv
<1>5. SameTime(right', t)
  BY <1>2, <1>3, NextTimeIsReal DEF SameTime, NextDay, Dates, RightInv
<1>6. SameTime(DateRead(chip'), right')
  <2>1. SameTime(DateRead(chip'), NextTime(DateRead(chip)))
    BY LaterTime DEF RightInv, Tick
  <2>2. SameTime(NextTime(DateRead(chip)), t)
    BY SameNextTime DEF RightInv
  <2> QED
    BY <1>5, <2>1, <2>2 DEF SameTime
<1>7. t \in Dates(Int) /\ RealTime(t) /\ RealLeap(t) = RealLeap(right)
      /\ ChipLeap(t) = ChipLeap(right) /\ (Covered(t) <=> Covered(right))
  BY <1>2, NextTimeIsReal
     DEF RightInv, NextTime, WithTime, RealLeap, ChipLeap, Covered, Exists
<1>8. ASSUME known' PROVE Covered(right') /\ chip' = Counted(right')
  <2>1. known /\ Covered(right')
    BY <1>3, <1>8, Zenon
  <2>2. Covered(right) /\ chip = Counted(right)
    BY <2>1 DEF RightInv
  <2>3. ChipDay(right) /\ DateRead(chip) = right
    BY <1>2, <2>2, CoveredIsCounted, DateReadBack DEF RightInv
  <2>4. CASE Midnight(t)
    <3>1. right' = NextDay(t, RealLeap(right))
      BY <1>3, <2>1, <2>4
    <3>2. chip' = Counted(NextDay(t, ChipLeap(right)))
      BY <2>2, <2>3, <2>4 DEF Tick, Later
    <3>3. NextDay(t, ChipLeap(right)) = NextDay(t, RealLeap(right))
      BY <1>7, <2>1, <2>2, <3>1, SameNextDay
    <3> QED
      BY <2>1, <3>1, <3>2, <3>3
  <2>5. CASE ~Midnight(t)
    <3>1. chip' = TimeCounted(Counted(right), t) /\ right' = t
      BY <1>3, <2>2, <2>3, <2>5 DEF Tick, Later
    <3>2. TimeCounted(Counted(right), t) = Counted(t)
      BY DEF TimeCounted, WithTime, Counted, NextTime
    <3> QED
      BY <2>1, <3>1, <3>2
  <2> QED
    BY <2>4, <2>5
<1>9. known' \in BOOLEAN
  BY <1>3, Zenon DEF RightInv
<1> QED
  BY <1>1, <1>4, <1>6, <1>8, <1>9 DEF RightInv

(* An accepted sdate sets both.                                            *)
LEMMA SetRight ==
  ASSUME RightInv, NEW a \in Args, SetTime(a)
  PROVE  RightInv'
<1>1. CASE rtc_valid_tm(Fields(a))
  <2> DEFINE f == Fields(a)
  <2>1. a \in Dates(Int)
    BY ArgsAssumption
  <2>2. f \in Dates(Byte) /\ f \in Dates(Int)
    <3>1. ASSUME NEW n \in Int PROVE n % 256 \in Byte /\ n % 256 \in Int
      BY <3>1 DEF Byte
    <3> QED
      BY <2>1, <3>1 DEF Fields, Dates
  <2>3. RealTime(f)
    <3>1. f.hour < 24 /\ f.min < 60 /\ f.sec < 60
      BY <1>1 DEF rtc_valid_tm
    <3>2. f.hour \in Byte /\ f.min \in Byte /\ f.sec \in Byte
      BY <2>2 DEF Dates
    <3> HIDE DEF f
    <3> QED
      BY <3>1, <3>2 DEF RealTime, Byte
  <2>4. PICK g \in Garbage : chip' = Registers(f, g)
    BY <1>1 DEF SetTime
  <2>5. right' = f /\ known' = RealDay(f)
    BY <1>1 DEF SetTime
  <2>6. g \in Byte
    BY GarbageAssumption
  <2>7. Holds(chip') /\ SameTime(DateRead(chip'), f)
    BY <2>2, <2>3, <2>4, <2>6, RegistersHold, TimeReadBack
  <2>8. ASSUME RealDay(f) PROVE Covered(f) /\ Registers(f, g) = Counted(f)
    <3>1. f.year \in 0 .. 99 /\ Covered(f)
      BY <2>8 DEF RealDay, Covered
    <3> HIDE DEF f
    <3>2. f.year \div 100 = 0 /\ f.year % 100 = f.year
      BY <3>1
    <3>3. f.mon \in Int
      BY <2>2 DEF Dates
    <3>4. bin2bcd(f.mon) \in Int
      BY <3>3 DEF bin2bcd
    <3>5. bin2bcd(f.mon) + 128 * (f.year \div 100) = bin2bcd(f.mon)
      BY <3>2, <3>4
    <3> QED
      BY <3>1, <3>2, <3>5 DEF Registers, YearByte, Counted
  <2>9. known' \in BOOLEAN
    BY <2>5 DEF RealDay
  <2> QED
    BY <2>2, <2>3, <2>4, <2>5, <2>7, <2>8, <2>9 DEF RightInv
<1>2. CASE ~rtc_valid_tm(Fields(a))
  BY <1>2 DEF SetTime, RightInv
<1> QED
  BY <1>1, <1>2

LEMMA RightInvariance == Spec => []RightInv
<1>1. Init => RightInv
  <2> SUFFICES ASSUME Init PROVE RightInv
    OBVIOUS
  <2>1. PICK d \in StartDates : chip = Counted(d) /\ right = d
    BY DEF Init
  <2>2. d \in Dates(Byte) /\ RealTime(d) /\ Covered(d)
    BY StartAssumption
  <2>3. d \in Dates(Int) /\ d.mon \in 1 .. 12 /\ d.year \in 0 .. 199
    BY <2>2 DEF Dates, Byte, Covered, Exists
  <2>4. Holds(chip) /\ SameTime(DateRead(chip), d)
    BY <2>1, <2>2, <2>3, CountedHold, CountedTimeBack
  <2>5. known = TRUE
    BY DEF Init
  <2> QED
    BY <2>1, <2>2, <2>4, <2>5 DEF RightInv
<1>2. RightInv /\ [Next]_vars => RightInv'
  <2>1. RightInv /\ UNCHANGED vars => RightInv'
    BY DEF RightInv, vars
  <2> QED
    BY <2>1, TickRight, SetRight DEF Next
<1> QED
  BY <1>1, <1>2, PTL DEF Spec

(* From a real date on until 28 February 2100 is over, the firmware reads  *)
(* the date a right clock shows, for every argument and garbage.           *)
THEOREM ReadsTheRightDate == Spec => []DateIsRight
<1>1. RightInv => DateIsRight
  <2> SUFFICES ASSUME RightInv, known PROVE DateRead(chip) = right
    BY DEF DateIsRight
  <2>1. right \in Dates(Int)
    BY DEF RightInv, Dates, Byte
  <2>2. Covered(right) /\ chip = Counted(right) /\ RealTime(right)
    BY DEF RightInv
  <2> QED
    BY <2>1, <2>2, CoveredIsCounted, DateReadBack
<1> QED
  BY <1>1, RightInvariance, PTL

(* The registers, the right clock and the answers stay typed.              *)
THEOREM CalendarTyped == Spec => []TypeOK
<1> DEFINE Rest == /\ past \in Byte
                   /\ answer \in {"none", "success", "incorrect"}
                   /\ ticks \in 0 .. TicksPerSet
<1>1. Init => Rest
  BY GarbageAssumption, TicksAssumption DEF Init
<1>2. Rest /\ [Next]_vars => Rest'
  <2> SUFFICES ASSUME Rest, [Next]_vars PROVE Rest'
    OBVIOUS
  <2>1. CASE Tick
    BY <2>1, TicksAssumption DEF Tick
  <2>2. ASSUME NEW a \in Args, SetTime(a) PROVE Rest'
    BY <2>2, TicksAssumption DEF SetTime
  <2>3. CASE UNCHANGED vars
    BY <2>3 DEF vars
  <2> QED
    BY <2>1, <2>2, <2>3 DEF Next
<1>3. Rest /\ RightInv => TypeOK
  BY DEF RightInv, Holds, TypeOK
<1> QED
  BY <1>1, <1>2, <1>3, RightInvariance, PTL DEF Spec

-----------------------------------------------------------------------------
(* The composition.                                                        *)

(* The parts of the type invariant that belong to the composition.         *)
ClockTyped ==
    /\ alarm \in BOOLEAN /\ infoNew \in BOOLEAN /\ pixelNew \in BOOLEAN
    /\ clkPc \in {"take", "refresh", "show"}
    /\ session \in Sessions /\ sets \in 0 .. session.most

(* Every step of the composition, action by action.                        *)
Steps ==
    ClockTick \/ ClockLooks \/ ClockAdds \/ ClockRefresh \/ ClockShow \/ ClockTimeout
        \/ DisplayFills \/ ClockSet \/ Buzzes \/ UNCHANGED clockVars

LEMMA ClockTypedInvariance == ClockSpec => []ClockTyped
<1>1. ClockInit => ClockTyped
  <2> SUFFICES ASSUME ClockInit PROVE ClockTyped
    OBVIOUS
  <2>1. session \in Sessions /\ session.most \in Nat
    BY SessionsAssumption DEF ClockInit
  <2>2. /\ alarm \in BOOLEAN /\ infoNew \in BOOLEAN /\ pixelNew \in BOOLEAN
        /\ clkPc = "take"
    BY Zenon DEF ClockInit
  <2>3. sets \in 0 .. session.most
    BY <2>1 DEF ClockInit
  <2> QED
    BY <2>1, <2>2, <2>3, Zenon DEF ClockTyped
<1>2. ClockTyped /\ [ClockNext]_clockVars => ClockTyped'
  <2> SUFFICES ASSUME ClockTyped, [ClockNext]_clockVars PROVE ClockTyped'
    OBVIOUS
  <2>1. session.most \in Nat
    BY SessionsAssumption DEF ClockTyped
  <2>0. Steps
    BY DEF Steps, ClockNext, ClockTask
  <2> USE DEF Steps, clockVars, runVars, frameVars, FramesAge, ClockTick, ClockLooks, ClockSet,
              ClockAdds, ClockRefresh, ClockShow, ClockTimeout, DisplayFills, Buzzes
  <2>2. session' = session
    BY <2>0
  <2>3. sets' \in {sets, sets + 1} /\ (sets' # sets => sets < session.most)
    BY <2>0
  <2>4. sets' \in 0 .. session.most
    BY <2>1, <2>3 DEF ClockTyped
  <2>5. alarm' \in {TRUE, FALSE, alarm}
    BY <2>0, Zenon
  <2>6. infoNew' \in {TRUE, FALSE, infoNew}
    BY <2>0, Zenon
  <2>7. pixelNew' \in {FALSE, infoNew, pixelNew}
    BY <2>0, Zenon
  <2>8. clkPc' \in {"take", "refresh", "show", clkPc}
    BY <2>0, Zenon
  <2> QED
    BY <2>2, <2>4, <2>5, <2>6, <2>7, <2>8 DEF ClockTyped
<1> QED
  BY <1>1, <1>2, PTL DEF ClockSpec

(* Every step of the composition is a step of Calendar or leaves it alone. *)
LEMMA StepIsCalendars == ClockTyped /\ [ClockNext]_clockVars => [Next]_vars
<1> SUFFICES ASSUME ClockTyped, [ClockNext]_clockVars PROVE [Next]_vars
  OBVIOUS
<1>1. CASE ClockTick
  BY <1>1 DEF ClockTick, Next
<1>2. CASE ClockSet
  <2>1. PICK a \in session.given : SetTime(a)
    BY <1>2 DEF ClockSet
  <2>2. a \in Args
    BY SessionsAssumption DEF ClockTyped
  <2> QED
    BY <2>1, <2>2 DEF Next
<1>3. CASE \/ ClockLooks \/ ClockAdds \/ ClockRefresh \/ ClockShow
            \/ ClockTimeout \/ DisplayFills \/ Buzzes
  BY <1>3 DEF ClockLooks, ClockAdds, ClockRefresh, ClockShow, ClockTimeout, DisplayFills, Buzzes
<1>4. CASE UNCHANGED clockVars
  BY <1>4 DEF clockVars
<1> QED
  BY <1>1, <1>2, <1>3, <1>4 DEF ClockNext, ClockTask

(* Clockwork implements Calendar: the buzzer and the clock task take       *)
(* nothing from the chip's time.                                           *)
THEOREM ImplementsCalendar == ClockSpec => Spec
<1>1. ClockInit => Init
  BY DEF ClockInit
<1> QED
  BY <1>1, StepIsCalendars, ClockTypedInvariance, PTL DEF ClockSpec, Spec

-----------------------------------------------------------------------------
(* The tubes.                                                              *)

(* Every time of day is shown, digit for digit.                            *)
LEMMA TimeIsShown ==
  ASSUME NEW t, RealTime(t)
  PROVE  /\ Pair(Latch(TimeFrame(t)), 0) = {t.hour}
         /\ Pair(Latch(TimeFrame(t)), 2) = {t.min}
         /\ Pair(Latch(TimeFrame(t)), 4) = {t.sec}
<1> DEFINE f == TimeFrame(t)
<1>1. t.hour \in 0 .. 99 /\ t.min \in 0 .. 99 /\ t.sec \in 0 .. 99
  BY DEF RealTime
<1>2. /\ f[0] = t.hour \div 10 /\ f[1] = t.hour % 10
      /\ f[2] = t.min \div 10  /\ f[3] = t.min % 10
      /\ f[4] = t.sec \div 10  /\ f[5] = t.sec % 10
  BY DEF TimeFrame, Frame, Tube, TUBE_NUM
<1> HIDE DEF f
<1>3. /\ f[0] \in 0 .. 9 /\ f[1] \in 0 .. 9 /\ 10 * f[0] + f[1] = t.hour
      /\ f[2] \in 0 .. 9 /\ f[3] \in 0 .. 9 /\ 10 * f[2] + f[3] = t.min
      /\ f[4] \in 0 .. 9 /\ f[5] \in 0 .. 9 /\ 10 * f[4] + f[5] = t.sec
  BY <1>1, <1>2, TwoDigits
<1>4. \A p \in Tube : f[p] \in 0 .. 9
  BY <1>3 DEF Tube, TUBE_NUM
<1>5. /\ Pair(Latch(f), 0) = {10 * f[0] + f[0 + 1]}
      /\ Pair(Latch(f), 2) = {10 * f[2] + f[2 + 1]}
      /\ Pair(Latch(f), 4) = {10 * f[4] + f[4 + 1]}
  BY <1>4, PairOfDigits
<1> QED
  BY <1>3, <1>5 DEF f

(* What refresh_time_every_500ms makes of a date.                          *)
Suits(f, t) == IF t.sec \in ThSeconds THEN f \in ClimateFrames ELSE f = TimeFrame(t)

(* The frame that is prepared, and the one that is shown, are of the time  *)
(* the chip holds as long as that is the one they were prepared from.      *)
FrameInv ==
    /\ info \in TubeFrames /\ lcd_pixel \in TubeFrames
    /\ infoNew => Suits(info, DateRead(chip))
    /\ pixelNew => Suits(lcd_pixel, DateRead(chip))

(* The frame of a time of day consists of bytes.                           *)
LEMMA TimeFrameIsBytes ==
  ASSUME NEW t, RealTime(t)
  PROVE  TimeFrame(t) \in TubeFrames
<1>1. t.hour \in 0 .. 99 /\ t.min \in 0 .. 99 /\ t.sec \in 0 .. 99
  BY DEF RealTime
<1>2. ASSUME NEW n \in 0 .. 99 PROVE n \div 10 \in Byte /\ n % 10 \in Byte
  BY <1>2 DEF Byte
<1>3. /\ t.hour \div 10 \in Byte /\ t.hour % 10 \in Byte
      /\ t.min \div 10 \in Byte /\ t.min % 10 \in Byte
      /\ t.sec \div 10 \in Byte /\ t.sec % 10 \in Byte
  BY <1>1, <1>2
<1> QED
  BY <1>3 DEF TimeFrame, Frame, TubeFrames, Tube, TUBE_NUM

(* A frame that one digit fills consists of bytes.                         *)
LEMMA FilledIsBytes ==
  ASSUME NEW d \in 0 .. 9
  PROVE  AllDigits(d) \in TubeFrames
  BY DEF AllDigits, TubeFrames, Byte

LEMMA FrameInvariance == ClockSpec => []FrameInv
<1>1. ClockInit => FrameInv
  <2> SUFFICES ASSUME ClockInit PROVE FrameInv
    OBVIOUS
  <2>1. infoNew = FALSE /\ pixelNew = FALSE /\ info = AllDigits(0) /\ lcd_pixel = AllDigits(0)
    BY DEF ClockInit
  <2> QED
    BY <2>1, FilledIsBytes DEF FrameInv
<1>2. RightInv /\ FrameInv /\ [ClockNext]_clockVars => FrameInv'
  <2> SUFFICES ASSUME RightInv, FrameInv, [ClockNext]_clockVars PROVE FrameInv'
    OBVIOUS
  <2>1. CASE ClockRefresh
    <3> DEFINE t == DateRead(chip)
    <3>1. Suits(info', t) /\ UNCHANGED <<chip, lcd_pixel, pixelNew>>
      BY <2>1 DEF ClockRefresh, Suits, vars
    <3>2. info' \in TubeFrames
      BY <3>1, HoldsIsRealTime, TimeFrameIsBytes, ClimateFramesAssumption DEF RightInv, Suits
    <3> QED
      BY <3>1, <3>2 DEF FrameInv
  <2>2. CASE ClockShow
    BY <2>2 DEF ClockShow, FrameInv, vars
  <2>3. CASE DisplayFills
    <3>1. PICK d \in Fills : lcd_pixel' = AllDigits(d)
      BY <2>3 DEF DisplayFills
    <3>2. lcd_pixel' \in TubeFrames
      BY <3>1, FilledIsBytes, FillsAssumption
    <3> QED
      BY <2>3, <3>2 DEF DisplayFills, FrameInv, vars
  <2>4. CASE ClockTick \/ ClockSet
    BY <2>4 DEF ClockTick, ClockSet, FramesAge, FrameInv
  <2>5. CASE UNCHANGED <<chip, frameVars>>
    BY <2>5 DEF frameVars, FrameInv
  <2>6. ClockLooks \/ ClockTimeout \/ ClockAdds \/ Buzzes \/ UNCHANGED clockVars
          => UNCHANGED <<chip, frameVars>>
    BY DEF ClockLooks, ClockTimeout, ClockAdds, Buzzes, clockVars, vars
  <2> QED
    BY <2>1, <2>2, <2>3, <2>4, <2>5, <2>6 DEF ClockNext, ClockTask
<1> QED
  BY <1>1, <1>2, ImplementsCalendar, RightInvariance, PTL DEF ClockSpec

(* A frame of the current second shows the right clock's time, or climate  *)
(* in the seconds that are for it, whatever was given to sdate.            *)
THEOREM TubesAreRight == ClockSpec => []TubesShowTheTime
<1>1. RightInv /\ FrameInv => TubesShowTheTime
  <2> SUFFICES ASSUME RightInv, FrameInv, pixelNew PROVE TubesShowTheTime
    BY Zenon DEF TubesShowTheTime
  <2>1. RealTime(DateRead(chip)) /\ SameTime(DateRead(chip), right)
    BY HoldsIsRealTime DEF RightInv
  <2>2. Suits(lcd_pixel, DateRead(chip)) /\ DateRead(chip).sec = right.sec
    BY <2>1 DEF FrameInv, SameTime
  <2>3. CASE right.sec \in ThSeconds
    BY <2>2, <2>3, Zenon DEF Suits, TubesShowTheTime
  <2>4. CASE right.sec \notin ThSeconds
    <3>1. lcd_pixel = TimeFrame(DateRead(chip))
      BY <2>2, <2>4, Zenon DEF Suits
    <3> QED
      BY <2>1, <2>4, <3>1, TimeIsShown DEF TubesShowTheTime, SameTime
  <2> QED
    BY <2>3, <2>4
<1> QED
  BY <1>1, ImplementsCalendar, RightInvariance, FrameInvariance, PTL
-----------------------------------------------------------------------------
(* The strokes.                                                            *)

(* The clock task strikes what a clock should strike.                      *)
LEMMA BeepsAreStrokes ==
  ASSUME NEW h \in 0 .. 23
  PROVE  beep_times(h) = Strokes(h) /\ beep_times(h) \in 0 .. 12
  BY DEF beep_times, Strokes

(* A counted beep is there to be counted down, whatever meets.             *)
CountInv ==
    /\ warning_times \in 0 .. Word - 1
    /\ buzPc \in {"start", "idle", "on", "off", "write"}
    /\ buzReg \in 0 .. Word - 1
    /\ adding \in 0 .. 12
    /\ addReg \in 0 .. Word - 1
    /\ adding # 0 => addReg + 12 < Word
    /\ buzPc \in {"on", "off"} => warning_times > 0
    /\ buzPc = "write" => buzReg > 0

(* While the two have not met, every stroke is owed that is not yet        *)
(* sounded: waiting in the count or about to be added to it.               *)
OwedInv ==
    /\ owed \in Int
    /\ mixed \in BOOLEAN
    /\ ~mixed =>
         /\ owed = warning_times + adding - (IF buzPc \in {"off", "write"} THEN 1 ELSE 0)
         /\ adding # 0 => addReg = warning_times /\ buzPc \notin {"start", "write"}
         /\ buzPc = "write" => buzReg = warning_times
         /\ buzPc = "start" => warning_times = 0

LEMMA LooksKeeps ==
  ASSUME CountInv, OwedInv, NEW h \in 0 .. 23, integer_time_beep(h, h)
  PROVE  (CountInv /\ OwedInv)'
<1>1. beep_times(h) = Strokes(h) /\ beep_times(h) \in 0 .. 12
  BY BeepsAreStrokes
<1>2. CountInv'
  BY <1>1, WordAssumption DEF CountInv, integer_time_beep, BacklogFits, buzTaskVars
<1>3. mixed' \in BOOLEAN
  BY DEF integer_time_beep, OwedInv
<1>4. ASSUME ~mixed' PROVE ~mixed /\ (beep_times(h) # 0 => buzPc \notin {"start", "write"})
  BY <1>4, Zenon DEF integer_time_beep
<1>5. OwedInv'
  BY <1>1, <1>3, <1>4 DEF CountInv, OwedInv, integer_time_beep, buzTaskVars
<1> QED
  BY <1>2, <1>5

LEMMA AddsKeeps ==
  ASSUME CountInv, OwedInv, set_times
  PROVE  (CountInv /\ OwedInv)'
<1>1. (addReg + adding) % Word = addReg + adding /\ addReg + adding \in 1 .. Word - 1
  BY WordAssumption DEF CountInv, set_times
<1> QED
  BY <1>1, WordAssumption DEF CountInv, OwedInv, set_times, buzTaskVars

LEMMA BuzzerKeeps ==
  ASSUME CountInv, OwedInv, BuzzerTask
  PROVE  (CountInv /\ OwedInv)'
<1> USE DEF CountInv, OwedInv, addVars
<1>1. CASE BuzzerStart
  BY <1>1, WordAssumption DEF BuzzerStart
<1>2. CASE Beep
  BY <1>2 DEF Beep
<1>3. CASE BeepEnds
  BY <1>3 DEF BeepEnds
<1>4. CASE CountRead
  <2>1. mixed' \in BOOLEAN /\ (~mixed' => ~mixed /\ adding = 0)
    BY <1>4 DEF CountRead
  <2> QED
    BY <1>4, <2>1 DEF CountRead
<1>5. CASE CountWrite
  <2>1. (buzReg - 1) % Word = buzReg - 1
    BY <1>5, WordAssumption DEF CountWrite
  <2> QED
    BY <1>5, <2>1, WordAssumption DEF CountWrite
<1> QED
  BY <1>1, <1>2, <1>3, <1>4, <1>5 DEF BuzzerTask

LEMMA BuzzerInvariance == ClockSpec => [](CountInv /\ OwedInv)
<1>1. ClockInit => CountInv /\ OwedInv
  <2> SUFFICES ASSUME BuzzerInit PROVE CountInv /\ OwedInv
    BY DEF ClockInit
  <2>1. CountInv
    BY WordAssumption DEF BuzzerInit, CountInv
  <2>3. mixed \in BOOLEAN
    BY Zenon DEF BuzzerInit
  <2>4. /\ warning_times = 0 /\ buzPc = "start" /\ buzReg = 0
        /\ addReg = 0 /\ adding = 0 /\ owed = 0
    BY DEF BuzzerInit
  <2>5. owed = warning_times + adding - (IF buzPc \in {"off", "write"} THEN 1 ELSE 0)
    <3>1. buzPc \notin {"off", "write"} /\ warning_times = 0 /\ adding = 0 /\ owed = 0
      BY <2>4
    <3>2. owed = warning_times + adding - 0
      BY <3>1
    <3> QED
      BY <3>1, <3>2, Zenon
  <2>6. /\ owed \in Int /\ ~(adding # 0)
        /\ buzPc # "write" /\ warning_times = 0
    BY <2>4
  <2>2. OwedInv
    BY <2>3, <2>5, <2>6, Zenon DEF OwedInv
  <2> QED
    BY <2>1, <2>2
<1>2. RightInv /\ CountInv /\ OwedInv /\ [ClockNext]_clockVars => (CountInv /\ OwedInv)'
  <2> SUFFICES ASSUME RightInv, CountInv, OwedInv, [ClockNext]_clockVars
               PROVE  (CountInv /\ OwedInv)'
    OBVIOUS
  <2>1. CASE UNCHANGED buzzerVars
    BY <2>1 DEF buzzerVars, buzTaskVars, addVars, CountInv, OwedInv
  <2>2. CASE ClockLooks
    <3>1. DateRead(chip).hour = right.hour /\ right.hour \in 0 .. 23
      BY DEF RightInv, SameTime, RealTime
    <3> QED
      BY <2>1, <2>2, <3>1, LooksKeeps DEF ClockLooks
  <2>3. CASE ClockAdds
    BY <2>3, AddsKeeps DEF ClockAdds
  <2>4. CASE Buzzes
    BY <2>4, BuzzerKeeps DEF Buzzes
  <2>5. ClockTick \/ ClockTimeout \/ ClockRefresh \/ ClockShow \/ DisplayFills \/ ClockSet
          \/ UNCHANGED clockVars
          => UNCHANGED buzzerVars
    BY DEF ClockTick, ClockTimeout, ClockRefresh, ClockShow, DisplayFills, ClockSet, clockVars
  <2> QED
    BY <2>1, <2>2, <2>3, <2>4, <2>5 DEF ClockNext, ClockTask
<1> QED
  BY <1>1, <1>2, ImplementsCalendar, RightInvariance, PTL DEF ClockSpec

(* The count never underflows, however the two tasks interleave.           *)
THEOREM NoEndlessBeeping == ClockSpec => []NeverUnderflows
<1>1. CountInv => NeverUnderflows
  BY DEF CountInv, NeverUnderflows
<1> QED
  BY <1>1, BuzzerInvariance, PTL

(* From silence to silence the strokes of the hours sound, exactly.        *)
THEOREM StrokesSound == ClockSpec => []StrokesAreExact
<1>1. CountInv /\ OwedInv => StrokesAreExact
  <2> SUFFICES ASSUME OwedInv, buzPc = "idle", warning_times = 0, adding = 0, ~mixed
               PROVE  owed = 0
    BY Zenon DEF StrokesAreExact
  <2>1. owed = warning_times + adding - 0
    BY DEF OwedInv
  <2> QED
    BY <2>1
<1> QED
  BY <1>1, BuzzerInvariance, PTL

(* Chip, buzzer and clock task stay typed.                                 *)
THEOREM ClockworkTyped == ClockSpec => []ClockTypeOK
<1>1. TypeOK /\ ClockTyped /\ FrameInv /\ CountInv /\ OwedInv => ClockTypeOK
  BY DEF ClockTyped, FrameInv, CountInv, OwedInv, ClockTypeOK, BuzzerTypeOK
<1> QED
  BY <1>1, ImplementsCalendar, CalendarTyped, ClockTypedInvariance, FrameInvariance,
     BuzzerInvariance, PTL

=============================================================================
