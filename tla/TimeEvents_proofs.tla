-------------------------- MODULE TimeEvents_proofs --------------------------
(***************************************************************************)
(* Proofs about TimeEvents for every length of the day and every show time.*)
(*                                                                         *)
(* AlarmIsAttended is inductive by itself and needs no assumption on time. *)
(* That a second which begins while the clock task waits is handled exactly *)
(* once rests on a stronger invariant: in such a second, either the time it *)
(* read is the current one, or one alarm for it is on its way.             *)
(*                                                                         *)
(* That the schedule is obeyed rests on one more: while the loop walks the *)
(* list, the events it has passed have decided what the display was asked, *)
(* and the events' fields are those of the show times.                     *)
(***************************************************************************)
EXTENDS TimeEvents, TLAPS

(* At most one alarm is on its way, and none while the time is being read. *)
OneAlarm ==
    /\ ~(irq /\ sem = 1)
    /\ clkPc = "gettime" => ~irq /\ sem # 1

(* Without an alarm on its way the current second has been read.           *)
QuietIsRead == ~irq /\ sem # 1 /\ clkPc # "gettime" => seen /\ time2 = now

(* With one on its way, it has not been read yet.                          *)
AlarmIsNew == irq \/ sem = 1 \/ clkPc = "gettime" => ~seen

(* A frame prepared in such a second is of this second, and the screen has *)
(* taken or refused one once the pass that read the second is over.        *)
FrameIsNew ==
    /\ clkPc \notin {"init", "insert"}
    /\ clkPc = "show" => frame = FrameOf(now)
    /\ clkPc = "take" /\ seen => screen = FrameOf(now) \/ refused

PassInv ==
    /\ AlarmIsAttended
    /\ ~late => OneAlarm /\ QuietIsRead /\ AlarmIsNew /\ FrameIsNew

(* The state after mid_rtc_init satisfies the invariant.                   *)
LEMMA InitPassInv == Init => PassInv
  BY DEF Init, PassInv, AlarmIsAttended

(* Every step of the RTC, the interrupt and the tasks keeps it.            *)
LEMMA NextPassInv == PassInv /\ [Next]_vars => PassInv'
<1> SUFFICES ASSUME PassInv, [Next]_vars PROVE PassInv'
  OBVIOUS
<1> USE DEF PassInv, AlarmIsAttended, OneAlarm, QuietIsRead, AlarmIsNew, FrameIsNew,
            rtcVars, clkVars, lateVars
<1>1. CASE Tick
  <2>1. /\ irq' = IF a1f THEN irq ELSE TRUE
        /\ UNCHANGED <<sem, clkPc>>
    BY <1>1 DEF Tick
  <2>2. AlarmIsAttended'
    BY <2>1
  <2>3. ASSUME ~late' PROVE (OneAlarm /\ QuietIsRead /\ AlarmIsNew /\ FrameIsNew)'
    <3>1. Waiting /\ ~seen'
      BY <1>1, <2>3, Zenon DEF Tick
    <3>2. clkPc = "take" /\ sem = 0 /\ ~a1f
      BY <3>1 DEF Waiting
    <3>3. irq' /\ sem' = 0 /\ clkPc' = "take"
      BY <2>1, <3>2
    <3> QED
      BY <3>1, <3>3
  <2> QED
    BY <2>2, <2>3
<1>2. CASE Interrupt
  BY <1>2 DEF Interrupt
<1>3. CASE InitEvent
  BY <1>3 DEF InitEvent
<1>4. CASE InsertEvent
  BY <1>4 DEF InsertEvent
<1>5. CASE TakeTimeSync
  BY <1>5 DEF TakeTimeSync
<1>6. CASE TakeTimeout
  BY <1>6 DEF TakeTimeout
<1>7. CASE GetTime
  BY <1>7 DEF GetTime
<1>8. CASE DeIrq
  BY <1>8 DEF DeIrq
<1>9. CASE CheckEvent
  BY <1>9 DEF CheckEvent, AfterCheck
<1>10. CASE Refresh
  BY <1>10 DEF Refresh
<1>14. CASE Show
  BY <1>14 DEF Show
<1>11. ASSUME NEW on \in UserTimes, NEW off \in UserTimes, ShowTime(on, off) PROVE PassInv'
  BY <1>11 DEF ShowTime
<1>12. CASE SetShowtimeFields
  BY <1>12 DEF SetShowtimeFields, SetField
<1>13. CASE UNCHANGED vars
  BY <1>13 DEF vars
<1> QED
  BY <1>1, <1>2, <1>3, <1>4, <1>5, <1>6, <1>7, <1>8, <1>9, <1>10, <1>14, <1>11, <1>12, <1>13
     DEF Next, ClockTask

LEMMA PassInvariance == Spec => []PassInv
<1>1. Init => PassInv
  BY InitPassInv
<1>2. PassInv /\ [Next]_vars => PassInv'
  BY NextPassInv
<1> QED
  BY <1>1, <1>2, PTL DEF Spec

-----------------------------------------------------------------------------
(* The interrupt line never stays low with nobody left to clear the alarm  *)
(* flag, so that edges keep coming, however late the clock task is.        *)
THEOREM AlarmNeverStuck == Spec => []AlarmIsAttended
<1>1. PassInv => AlarmIsAttended
  BY DEF PassInv
<1> QED
  BY <1>1, PassInvariance, PTL

(* A second that begins and ends while the clock task waits has been read, *)
(* and its frame has come to the screen, or the last of its frames met the *)
(* display's protection.                                                   *)
THEOREM EverySecondHandled == Spec => NoSecondIsMissed
<1>1. ASSUME PassInv, [Next]_vars
      PROVE  [SecondInTime => time2 = now /\ (screen = FrameOf(now) \/ refused)]_vars
  BY <1>1 DEF PassInv, QuietIsRead, FrameIsNew, SecondInTime, Waiting
<1> QED
  BY <1>1, PassInvariance, PTL DEF Spec, NoSecondIsMissed

(* A second that begins while it waits is not handled twice.               *)
THEOREM NoSecondHandledTwice == Spec => NoSecondTwice
<1>1. ASSUME PassInv, [Next]_vars PROVE [~late /\ TakeTimeSync => ~seen]_vars
  BY <1>1 DEF PassInv, AlarmIsNew, TakeTimeSync
<1> QED
  BY <1>1, PassInvariance, PTL DEF Spec, NoSecondTwice

-----------------------------------------------------------------------------
(* A show time has an hour and a minute that fit the event's bytes.        *)
LEMMA ShowTimeBytes ==
  ASSUME NEW t \in U16
  PROVE  HourOf(t) \in Byte /\ MinOf(t) \in Byte
<1>0. t \in Nat
  BY SMTT(20) DEF U16
<1>1. t \div 100 \in Int
  BY <1>0
<1> DEFINE h == t \div 100
<1> HIDE DEF h
<1>2. h % 256 \in 0 .. 255
  BY <1>1 DEF h
<1>3. t % 100 \in 0 .. 99
  BY <1>0
<1> QED
  BY <1>2, <1>3 DEF HourOf, MinOf, Byte, h

(* The next second is a time of the same day.                              *)
LEMMA NextIsInstant == \A t \in Instant : NextInstant(t) \in Instant
<1> SUFFICES ASSUME NEW t \in Instant PROVE NextInstant(t) \in Instant
  OBVIOUS
<1>1. ASSUME NEW length \in Nat \ {0}, NEW n \in 0 .. length - 1
      PROVE  Succ(n, length) \in 0 .. length - 1
  BY <1>1 DEF Succ
<1>2. /\ t.hour \in 0 .. Hours - 1
      /\ t.min \in 0 .. Minutes - 1
      /\ t.sec \in 0 .. Seconds - 1
  BY DEF Instant
<1>3. /\ Succ(t.hour, Hours) \in 0 .. Hours - 1
      /\ Succ(t.min, Minutes) \in 0 .. Minutes - 1
      /\ Succ(t.sec, Seconds) \in 0 .. Seconds - 1
  BY <1>1, <1>2, LengthAssumption
<1> QED
  BY <1>2, <1>3 DEF NextInstant, Instant

(* TypeOK in four parts: what the RTC and the console hold, ...            *)
Wires ==
    /\ now \in Instant
    /\ a1f \in BOOLEAN /\ irq \in BOOLEAN /\ sem \in {0, 1}
    /\ ontime \in U16 /\ offtime \in U16
    /\ cliPc \in {"idle", "onhour", "onmin", "offhour", "offmin"}
    /\ changing \in BOOLEAN /\ late \in BOOLEAN /\ seen \in BOOLEAN
    /\ refused \in BOOLEAN

(* ... the clock task's progress, where the two loops of the start fill    *)
(* info and list before the first pass walks through them, ...             *)
Progress ==
    /\ clkPc \in {"init", "insert", "take", "gettime", "deirq", "check", "refresh", "show"}
    /\ index \in 1 .. 6
    /\ validNum = IF clkPc = "init" THEN index - 1 ELSE 5
    /\ clkPc # "insert" => index \in 1 .. 5
    /\ clkPc \in {"take", "gettime", "deirq", "refresh", "show"} => index = 1

(* ... the list it walks through, ...                                      *)
Filled ==
    /\ list \in Seq(Events)
    /\ Len(list) = CASE clkPc = "init" -> 0
                     [] clkPc = "insert" -> index - 1
                     [] OTHER -> 6

(* ... what it has read and asked for, and the events' fields.             *)
Shown ==
    /\ time2 \in Instant
    /\ display \in {"on", "off"}
    /\ fired \in Events \cup {"none"}
    /\ frame \in Frames /\ screen \in Frames

InfoTyped == info \in [Events -> Field]

TypeInv == Wires /\ Progress /\ Filled /\ Shown /\ InfoTyped

LEMMA TypeInvParts == TypeInv => TypeOK
<1> SUFFICES ASSUME TypeInv PROVE TypeOK
  OBVIOUS
<1>1. validNum \in 0 .. 5 /\ Len(list) <= 6
  BY DEF TypeInv, Progress, Filled
<1> QED
  BY <1>1 DEF TypeInv, Wires, Progress, Filled, Shown, InfoTyped, TypeOK

LEMMA InitTypeInv == Init => TypeInv
<1> SUFFICES ASSUME Init PROVE TypeInv
  OBVIOUS
<1>1. Wires
  BY TimesAssumption DEF Init, Wires
<1>2. Progress
  BY DEF Init, Progress
<1>3. Filled
  BY DEF Init, Filled
<1>4. Shown
  BY DEF Init, Shown, Frames
<1>5. Unowned \in Field
  BY DEF Unowned, Field, Byte
<1>6. InfoTyped
  BY <1>5 DEF Init, InfoTyped
<1> QED
  BY <1>1, <1>2, <1>3, <1>4, <1>6 DEF TypeInv

(* The fields of an event stay bytes.                                      *)
LEMMA NextInfoTyped == TypeInv /\ [Next]_vars => InfoTyped'
<1> SUFFICES ASSUME TypeInv, [Next]_vars PROVE InfoTyped'
  OBVIOUS
<1>1. CASE UNCHANGED info
  BY <1>1 DEF TypeInv, InfoTyped
<1>2. /\ HourOf(ontime) \in Byte /\ MinOf(ontime) \in Byte
      /\ HourOf(offtime) \in Byte /\ MinOf(offtime) \in Byte
  BY ShowTimeBytes DEF TypeInv, Wires
<1>3. CASE InitEvent
  <2>1. index \in 1 .. 5
    BY <1>3 DEF InitEvent, TypeInv, Progress
  <2>2. InitOrder[index] \in Events \ {"TIME"}
    BY <2>1 DEF InitOrder, Events
  <2>3. InitialFields(InitOrder[index]) \in Field
    BY <2>2, <1>2, EventsAssumption DEF InitialFields, Field, Byte, Any, Events
  <2> QED
    BY <1>3, <2>2, <2>3 DEF InitEvent, InfoTyped, TypeInv
<1>4. CASE SetShowtimeFields
  <2>1. ASSUME NEW at, NEW e \in Events, NEW field \in {"hour", "min"}, NEW value \in Byte,
               NEW then, SetField(at, e, field, value, then)
        PROVE  InfoTyped'
    <3>1. info[e] \in Field
      BY DEF TypeInv, InfoTyped
    <3>2. [info[e] EXCEPT ![field] = value] \in Field
      BY <3>1 DEF Field
    <3> QED
      BY <2>1, <3>2 DEF SetField, TypeInv, InfoTyped
  <2> QED
    BY <1>2, <1>4, <2>1 DEF SetShowtimeFields, Events
<1>5. ASSUME Tick \/ Interrupt \/ InsertEvent \/ TakeTimeSync \/ TakeTimeout
             \/ GetTime \/ DeIrq \/ CheckEvent \/ Refresh \/ Show
             \/ (\E on, off \in UserTimes : ShowTime(on, off)) \/ UNCHANGED vars
      PROVE  UNCHANGED info
  BY <1>5 DEF vars, Tick, Interrupt, InsertEvent, TakeTimeSync, TakeTimeout, GetTime,
         DeIrq, CheckEvent, Refresh, Show, ShowTime
<1> QED
  BY <1>1, <1>3, <1>4, <1>5 DEF Next, ClockTask

(* The RTC's and the console's part.                                       *)
LEMMA NextWires == Wires /\ [Next]_vars => Wires'
<1> SUFFICES ASSUME Wires, [Next]_vars PROVE Wires'
  OBVIOUS
<1> USE DEF Wires, rtcVars, setVars, cliVars, lateVars
<1>1. CASE Tick
  <2>1. now' \in Instant
    BY <1>1, NextIsInstant DEF Tick
  <2>2. late' \in BOOLEAN /\ changing' \in BOOLEAN
    BY <1>1, Zenon DEF Tick
  <2> QED
    <3>1. a1f' = TRUE /\ irq' \in {irq, TRUE} /\ seen' = FALSE /\ refused' = FALSE
      BY <1>1 DEF Tick
    <3>2. UNCHANGED <<sem, ontime, offtime, cliPc>>
      BY <1>1 DEF Tick
    <3> QED
      BY <2>1, <2>2, <3>1, <3>2
<1>2. CASE Interrupt
  BY <1>2 DEF Interrupt
<1>3. CASE TakeTimeSync \/ GetTime \/ DeIrq
  BY <1>3 DEF TakeTimeSync, GetTime, DeIrq
<1>4. ASSUME NEW on \in UserTimes, NEW off \in UserTimes, ShowTime(on, off) PROVE Wires'
  BY <1>4, TimesAssumption DEF ShowTime
<1>5. CASE SetShowtimeFields
  BY <1>5 DEF SetShowtimeFields, SetField
<1>6. CASE UNCHANGED <<rtcVars, setVars, cliVars, lateVars>>
  BY <1>6
<1>7. InitEvent \/ InsertEvent \/ TakeTimeout \/ CheckEvent \/ Refresh \/ UNCHANGED vars
        => UNCHANGED <<rtcVars, setVars, cliVars, lateVars>>
  BY DEF InitEvent, InsertEvent, TakeTimeout, CheckEvent, Refresh, vars
<1>8. CASE Show
  BY <1>8 DEF Show
<1> QED
  BY <1>1, <1>2, <1>3, <1>4, <1>5, <1>6, <1>7, <1>8 DEF Next, ClockTask

(* The steps that leave the clock task's progress alone.                   *)
LEMMA ClockStays ==
  ASSUME Tick \/ Interrupt \/ (\E on, off \in UserTimes : ShowTime(on, off))
            \/ SetShowtimeFields \/ UNCHANGED vars
  PROVE  UNCHANGED <<clkPc, index, initVars>>
  BY DEF Tick, Interrupt, ShowTime, SetShowtimeFields, SetField, vars, clkVars

(* The clock task's progress.                                              *)
LEMMA NextProgress == Progress /\ [Next]_vars => Progress'
<1> SUFFICES ASSUME Progress, [Next]_vars PROVE Progress'
  OBVIOUS
<1> USE DEF Progress, initVars
<1>1. CASE InitEvent
  BY <1>1 DEF InitEvent, InitOrder
<1>2. CASE InsertEvent
  BY <1>2 DEF InsertEvent, InsertOrder
<1>3. CASE TakeTimeSync \/ TakeTimeout \/ GetTime \/ DeIrq
  BY <1>3 DEF TakeTimeSync, TakeTimeout, GetTime, DeIrq
<1>4. CASE CheckEvent
  BY <1>4 DEF CheckEvent, AfterCheck, LastChecked
<1>5. CASE Refresh \/ Show
  BY <1>5 DEF Refresh, Show
<1>6. CASE UNCHANGED <<clkPc, index, initVars>>
  BY <1>6
<1> QED
  BY <1>1, <1>2, <1>3, <1>4, <1>5, <1>6, ClockStays DEF Next, ClockTask

(* Its list.                                                               *)
LEMMA NextFilled == Progress /\ Filled /\ [Next]_vars => Filled'
<1> SUFFICES ASSUME Progress, Filled, [Next]_vars PROVE Filled'
  OBVIOUS
<1>1. CASE InsertEvent
  <2>1. index \in 1 .. 6 /\ Len(list) = index - 1 /\ Len(InsertOrder) = 6
    BY <1>1 DEF InsertEvent, InsertOrder, Progress, Filled
  <2>2. InsertOrder[index] \in Events
    BY <2>1 DEF InsertOrder, Events
  <2>3. list' \in Seq(Events) /\ Len(list') = index
    BY <1>1, <2>1, <2>2 DEF InsertEvent, ListInsert, Filled
  <2>4. clkPc' = (IF index = 6 THEN "take" ELSE "insert")
        /\ index' = (IF index = 6 THEN 1 ELSE index + 1)
    BY <1>1, <2>1 DEF InsertEvent
  <2> QED
    BY <2>1, <2>3, <2>4 DEF Filled
<1>2. CASE InitEvent
  <2>1. list' = list /\ list \in Seq(Events) /\ Len(list) = 0
    BY <1>2 DEF InitEvent, Filled
  <2>2. clkPc' = "init" \/ (clkPc' = "insert" /\ index' = 1)
    BY <1>2 DEF InitEvent
  <2> QED
    BY <2>1, <2>2 DEF Filled
<1>3. ASSUME clkPc \notin {"init", "insert"}, clkPc' \notin {"init", "insert"}, list' = list
      PROVE  Filled'
  BY <1>3 DEF Filled
<1>4. CASE TakeTimeSync \/ TakeTimeout \/ GetTime \/ DeIrq \/ Refresh \/ Show
  <2>1. /\ clkPc \notin {"init", "insert"}
        /\ clkPc' \notin {"init", "insert"}
        /\ list' = list
    BY <1>4 DEF TakeTimeSync, TakeTimeout, GetTime, DeIrq, Refresh, Show, initVars
  <2> QED
    BY <1>3, <2>1
<1>5. CASE CheckEvent
  <2>1. /\ clkPc = "check"
        /\ clkPc' \in {"check", "refresh"}
        /\ list' = list
    BY <1>5 DEF CheckEvent, AfterCheck, initVars
  <2> QED
    BY <1>3, <2>1
<1>6. CASE UNCHANGED <<clkPc, index, initVars>>
  BY <1>6 DEF initVars, Filled
<1> QED
  BY <1>1, <1>2, <1>4, <1>5, <1>6, ClockStays DEF Next, ClockTask

(* What it has read and asked for.                                         *)
LEMMA NextShown == TypeInv /\ [Next]_vars => Shown'
<1> SUFFICES ASSUME TypeInv, [Next]_vars PROVE Shown'
  OBVIOUS
<1>0. Shown
  BY DEF TypeInv
<1> USE DEF Shown
<1>1. CASE Tick
  BY <1>0, <1>1 DEF Tick, Frames
<1>2. CASE GetTime
  BY <1>0, <1>2 DEF GetTime, TypeInv, Wires
<1>3. CASE CheckEvent
  <2>1. index \in 1 .. 5 /\ Len(list) = 6 /\ list \in Seq(Events)
    <3>1. clkPc = "check" /\ Progress /\ Filled
      BY <1>3 DEF CheckEvent, TypeInv
    <3>2. index \in 1 .. 5
      BY <3>1 DEF Progress
    <3>3. Len(list) = 6 /\ list \in Seq(Events)
      BY <3>1 DEF Filled
    <3> QED
      BY <3>2, <3>3
  <2>2. list[index] \in Events
    <3>1. ASSUME NEW S, NEW q \in Seq(S), NEW i \in 1 .. Len(q) PROVE q[i] \in S
      OBVIOUS
    <3>2. index \in 1 .. Len(list)
      BY <2>1
    <3> QED
      BY <2>1, <3>1, <3>2
  <2>3. \A e \in Events : Asked(e) \in {"on", "off"}
    BY <1>0 DEF Asked
  <2>4. /\ display' \in {Asked(list[index]), display}
        /\ fired' \in {list[index], "none"}
        /\ UNCHANGED <<time2, frame, screen>>
    BY <1>3 DEF CheckEvent
  <2> QED
    BY <1>0, <2>2, <2>3, <2>4
<1>4. CASE Refresh
  BY <1>0, <1>4 DEF Refresh, FrameOf, Frames
<1>5. CASE Show
  BY <1>0, <1>5 DEF Show
<1>6. CASE UNCHANGED <<time2, display, fired, frame, screen>>
  BY <1>0, <1>6
<1>7. Tick \/ GetTime \/ CheckEvent \/ Refresh \/ Show
        \/ UNCHANGED <<time2, display, fired, frame, screen>>
  BY DEF Next, ClockTask, vars, clkVars, Interrupt, InitEvent, InsertEvent, TakeTimeSync,
         TakeTimeout, DeIrq, ShowTime, SetShowtimeFields, SetField
<1> QED
  BY <1>1, <1>2, <1>3, <1>4, <1>5, <1>6, <1>7

(* The clock task's data stays typed, and its walk through the list of     *)
(* events never leaves it.                                                 *)
THEOREM EventsTyped == Spec => []TypeOK
<1>1. Init => TypeInv
  BY InitTypeInv
<1>2. TypeInv /\ [Next]_vars => TypeInv'
  BY NextWires, NextProgress, NextFilled, NextShown, NextInfoTyped DEF TypeInv
<1>3. TypeInv => TypeOK
  BY TypeInvParts
<1> QED
  BY <1>1, <1>2, <1>3, PTL DEF Spec

-----------------------------------------------------------------------------
(* The schedule.  The list's order, as far as the loop walks, ...          *)
Ordered ==
    LET n == CASE clkPc = "init" -> 0 [] clkPc = "insert" -> index - 1 [] OTHER -> 6
    IN  /\ n = 1 => list[1] = "ON1"
        /\ n >= 2 => list[1] = "TIME" /\ list[2] = "ON1"
        /\ n >= 3 => list[3] = "BEEP"
        /\ n >= 4 => list[4] = "OFF1"
        /\ n >= 5 => list[5] = "ON2"

(* ... and the fields of its events, which are the show times' but for the *)
(* ones that setlcd has still to store.                                    *)
OnKept ==
    /\ info["ON1"].sec = 0
    /\ cliPc # "onhour" => info["ON1"].hour = HourOf(ontime)
    /\ cliPc \notin {"onhour", "onmin"} => info["ON1"].min = MinOf(ontime)

OffKept ==
    /\ info["OFF1"].sec = 0
    /\ cliPc \notin {"onhour", "onmin", "offhour"} => info["OFF1"].hour = HourOf(offtime)
    /\ cliPc = "idle" => info["OFF1"].min = MinOf(offtime)

Initialised(k) == clkPc # "init" \/ index > k

FieldsKept ==
    /\ Initialised(2) => OnKept
    /\ Initialised(3) => OffKept
    /\ Initialised(4) => info["ON2"] = At(On2)

ConsoleWaits ==
    /\ clkPc \in {"init", "insert"} => cliPc = "idle"
    /\ ~changing => cliPc = "idle"

(* What the display was asked, when the last of the events on1, off1, on2  *)
(* that match decides.                                                     *)
Decided(on1, off1, on2) ==
    /\ on2 => display = "on"
    /\ ~on2 /\ off1 => display = "off"
    /\ ~on2 /\ ~off1 /\ on1 => display = "on"

(* The first k - 1 events of the list have been looked at.                 *)
DecidedBefore(k) ==
    Decided(k >= 3 /\ IsTime(ontime, now), k >= 5 /\ IsTime(offtime, now),
            k >= 6 /\ now = At(On2))

PassDecides ==
    ~late /\ ~changing =>
        /\ clkPc \in {"deirq", "check"} => seen
        /\ clkPc = "check" => DecidedBefore(index)
        /\ clkPc \in {"refresh", "show", "take"} /\ seen => DecidedBefore(6)

ScheduleInv == Ordered /\ FieldsKept /\ ConsoleWaits /\ PassDecides

LEMMA InitScheduleInv == Init => ScheduleInv
  BY DEF Init, ScheduleInv, Ordered, FieldsKept, Initialised, ConsoleWaits, PassDecides

(* The list is filled from its end, but for TIME.                          *)
LEMMA NextOrdered == Progress /\ Filled /\ Ordered /\ [Next]_vars => Ordered'
<1> SUFFICES ASSUME Progress, Filled, Ordered, [Next]_vars PROVE Ordered'
  OBVIOUS
<1>1. CASE InsertEvent
  <2>1. /\ clkPc = "insert" /\ index \in 1 .. 6
        /\ list \in Seq(Events) /\ Len(list) = index - 1
        /\ list' = ListInsert(list, InsertOrder[index])
    BY <1>1 DEF InsertEvent, Progress, Filled
  <2>2. IF index = 6 THEN clkPc' = "take" ELSE clkPc' = "insert" /\ index' = index + 1
    BY <1>1 DEF InsertEvent, InsertOrder
  <2>3. CASE index = 1
    <3>1. list' = Append(list, "ON1")
      BY <2>1, <2>3 DEF ListInsert, InsertOrder
    <3>2. list'[1] = "ON1"
      BY <2>1, <2>3, <3>1 DEF Events
    <3> QED
      BY <2>2, <2>3, <3>2 DEF Ordered
  <2>4. CASE index = 2
    <3>1. list' = <<"TIME">> \o list /\ list[1] = "ON1"
      BY <2>1, <2>4 DEF ListInsert, InsertOrder, Ordered
    <3>2. list'[1] = "TIME" /\ list'[2] = "ON1"
      BY <2>1, <2>4, <3>1 DEF Events
    <3> QED
      BY <2>2, <2>4, <3>2 DEF Ordered
  <2>5. CASE index \in 3 .. 6
    <3>1. list' = Append(list, InsertOrder[index])
      BY <2>1, <2>5 DEF ListInsert, InsertOrder
    <3>2. InsertOrder[index] \in Events
      BY <2>5 DEF InsertOrder, Events
    <3>3. /\ list'[index] = InsertOrder[index]
          /\ \A i \in 1 .. index - 1 : list'[i] = list[i]
      BY <2>1, <2>5, <3>1, <3>2
    <3>4. /\ list'[1] = "TIME" /\ list'[2] = "ON1"
          /\ index >= 3 => list'[3] = "BEEP"
          /\ index >= 4 => list'[4] = "OFF1"
          /\ index >= 5 => list'[5] = "ON2"
      BY <2>1, <2>5, <3>3 DEF Ordered, InsertOrder
    <3> QED
      BY <2>1, <2>2, <2>5, <3>4 DEF Ordered
  <2> QED
    BY <2>1, <2>3, <2>4, <2>5
<1>2. CASE InitEvent
  BY <1>2 DEF InitEvent, Ordered
<1>3. CASE clkPc \notin {"init", "insert"} /\ clkPc' \notin {"init", "insert"} /\ list' = list
  BY <1>3 DEF Ordered
<1>4. CASE TakeTimeSync \/ TakeTimeout \/ GetTime \/ DeIrq \/ CheckEvent \/ Refresh \/ Show
  <2>1. clkPc \notin {"init", "insert"} /\ clkPc' \notin {"init", "insert"} /\ list' = list
    BY <1>4 DEF TakeTimeSync, TakeTimeout, GetTime, DeIrq, CheckEvent, AfterCheck, Refresh,
                Show, initVars
  <2> QED
    BY <1>3, <2>1
<1>5. CASE UNCHANGED <<clkPc, index, initVars>>
  BY <1>5 DEF initVars, Ordered
<1> QED
  BY <1>1, <1>2, <1>4, <1>5, ClockStays DEF Next, ClockTask

(* The steps that change neither fields nor show times nor who has to.     *)
LEMMA FieldsStay ==
  ASSUME [Next]_vars
  PROVE  \/ InitEvent
         \/ \E on, off \in UserTimes : ShowTime(on, off)
         \/ SetShowtimeFields
         \/ /\ UNCHANGED <<info, setVars, cliPc>>
            /\ clkPc = "init" <=> clkPc' = "init"
            /\ clkPc = "init" => UNCHANGED index
  BY DEF Next, ClockTask, Tick, Interrupt, InsertEvent, TakeTimeSync, TakeTimeout, GetTime,
         DeIrq, CheckEvent, AfterCheck, Refresh, Show, vars, clkVars, cliVars

(* Every field is the show time's, or setlcd is still to store it.         *)
LEMMA NextFieldsKept ==
  TypeInv /\ FieldsKept /\ ConsoleWaits /\ [Next]_vars => FieldsKept'
<1> SUFFICES ASSUME TypeInv, FieldsKept, ConsoleWaits, [Next]_vars PROVE FieldsKept'
  OBVIOUS
<1>0. info \in [Events -> Field]
  BY DEF TypeInv, InfoTyped
<1>1. CASE InitEvent
  <2> DEFINE e == InitOrder[index]
  <2>1. index \in 1 .. 5 /\ e \in Events
    BY <1>1 DEF InitEvent, TypeInv, Progress, InitOrder, Events
  <2>2. /\ clkPc = "init" /\ cliPc = "idle"
        /\ UNCHANGED <<setVars, cliPc>>
        /\ info' = [info EXCEPT ![e] = InitialFields(e)]
        /\ clkPc' = "init" => index' = index + 1
        /\ clkPc' # "init" => index = 5
    BY <1>1 DEF InitEvent, InitOrder, ConsoleWaits, cliVars
  <2>3. \A f \in Events : info'[f] = IF f = e THEN InitialFields(e) ELSE info[f]
    BY <1>0, <2>2
  <2>4. /\ e = "ON1" <=> index = 2
        /\ e = "OFF1" <=> index = 3
        /\ e = "ON2" <=> index = 4
    BY <2>1 DEF InitOrder
  <2> HIDE DEF e
  <2>5. \A k \in 2 .. 4 : Initialised(k)' => index = k \/ Initialised(k)
    BY <2>1, <2>2 DEF Initialised
  <2>6. /\ index = 2 => info'["ON1"] = [hour |-> HourOf(ontime), min |-> MinOf(ontime), sec |-> 0]
        /\ index = 3 => info'["OFF1"] = [hour |-> HourOf(offtime), min |-> MinOf(offtime), sec |-> 0]
        /\ index = 4 => info'["ON2"] = At(On2)
        /\ index # 2 => info'["ON1"] = info["ON1"]
        /\ index # 3 => info'["OFF1"] = info["OFF1"]
        /\ index # 4 => info'["ON2"] = info["ON2"]
    BY <2>1, <2>3, <2>4 DEF InitialFields, At, Events
  <2>7. Initialised(2)' => OnKept'
    BY <2>2, <2>5, <2>6 DEF FieldsKept, OnKept, setVars
  <2>8. Initialised(3)' => OffKept'
    BY <2>2, <2>5, <2>6 DEF FieldsKept, OffKept, setVars
  <2>9. Initialised(4)' => info'["ON2"] = At(On2)
    BY <2>5, <2>6 DEF FieldsKept
  <2> QED
    BY <2>7, <2>8, <2>9 DEF FieldsKept
<1>2. ASSUME NEW on \in UserTimes, NEW off \in UserTimes, ShowTime(on, off) PROVE FieldsKept'
  <2>1. UNCHANGED <<info, clkPc, index>> /\ cliPc' = "onhour"
    BY <1>2 DEF ShowTime, clkVars
  <2> QED
    BY <2>1 DEF FieldsKept, Initialised, OnKept, OffKept
<1>3. CASE SetShowtimeFields
  <2>1. clkPc \notin {"init", "insert"} /\ UNCHANGED <<clkPc, index, setVars>>
    BY <1>3 DEF SetShowtimeFields, SetField, ConsoleWaits, clkVars
  <2>2. OnKept /\ OffKept /\ info["ON2"] = At(On2)
    BY <2>1 DEF FieldsKept, Initialised
  <2>3. ASSUME NEW e \in {"ON1", "OFF1"}, NEW field \in {"hour", "min"}, NEW value,
               NEW at, NEW then, SetField(at, e, field, value, then)
        PROVE  /\ cliPc = at /\ cliPc' = then
               /\ info'["ON2"] = info["ON2"]
               /\ \A f \in {"ON1", "OFF1"} :
                    /\ info'[f].hour = IF f = e /\ field = "hour" THEN value ELSE info[f].hour
                    /\ info'[f].min = IF f = e /\ field = "min" THEN value ELSE info[f].min
                    /\ info'[f].sec = info[f].sec
    <3>1. /\ cliPc = at /\ cliPc' = then
          /\ info' = [info EXCEPT ![e] = [info[e] EXCEPT ![field] = value]]
      BY <2>3 DEF SetField
    <3>2. \A f \in {"ON1", "OFF1"} : f \in Events /\ info[f] \in Field
      BY <1>0 DEF Events
    <3>3. info'["ON2"] = info["ON2"]
      BY <1>0, <3>1 DEF Events
    <3>4. ASSUME NEW f \in {"ON1", "OFF1"}
          PROVE  info'[f] = IF f = e THEN [info[e] EXCEPT ![field] = value] ELSE info[f]
      BY <1>0, <3>1, <3>2
    <3> QED
      BY <3>1, <3>2, <3>3, <3>4 DEF Field
  <2>4. /\ OnKept' /\ OffKept'
        /\ info'["ON2"] = At(On2)
    <3> USE <2>1, <2>2 DEF OnKept, OffKept, setVars
    <3>1. CASE SetField("onhour", "ON1", "hour", HourOf(ontime), "onmin")
      BY <2>3, <3>1
    <3>2. CASE SetField("onmin", "ON1", "min", MinOf(ontime), "offhour")
      BY <2>3, <3>2
    <3>3. CASE SetField("offhour", "OFF1", "hour", HourOf(offtime), "offmin")
      BY <2>3, <3>3
    <3>4. CASE SetField("offmin", "OFF1", "min", MinOf(offtime), "idle")
      BY <2>3, <3>4
    <3> QED
      BY <1>3, <3>1, <3>2, <3>3, <3>4 DEF SetShowtimeFields
  <2> QED
    BY <2>4 DEF FieldsKept
<1>4. CASE /\ UNCHANGED <<info, setVars, cliPc>>
           /\ clkPc = "init" <=> clkPc' = "init"
           /\ clkPc = "init" => UNCHANGED index
  BY <1>4 DEF FieldsKept, Initialised, OnKept, OffKept, setVars
<1> QED
  BY <1>1, <1>2, <1>3, <1>4, FieldsStay

(* The console waits while the clock task starts, and otherwise a second   *)
(* in which it works is marked.                                            *)
LEMMA NextConsoleWaits == ConsoleWaits /\ [Next]_vars => ConsoleWaits'
<1> SUFFICES ASSUME ConsoleWaits, [Next]_vars PROVE ConsoleWaits'
  OBVIOUS
<1> USE DEF ConsoleWaits
<1>1. CASE Tick
  BY <1>1 DEF Tick
<1>2. ASSUME NEW on \in UserTimes, NEW off \in UserTimes, ShowTime(on, off) PROVE ConsoleWaits'
  BY <1>2 DEF ShowTime, clkVars
<1>3. CASE SetShowtimeFields
  BY <1>3 DEF SetShowtimeFields, SetField, clkVars
<1>4. ASSUME Interrupt \/ ClockTask \/ TakeTimeout \/ UNCHANGED vars
      PROVE  /\ UNCHANGED cliVars
             /\ clkPc' \in {"init", "insert"} => clkPc \in {"init", "insert"}
  BY <1>4 DEF Interrupt, ClockTask, InitEvent, InsertEvent, TakeTimeSync, TakeTimeout, GetTime,
         DeIrq, CheckEvent, AfterCheck, Refresh, Show, vars, clkVars
<1>5. CASE Interrupt \/ ClockTask \/ TakeTimeout \/ UNCHANGED vars
  BY <1>4, <1>5 DEF cliVars
<1> QED
  BY <1>1, <1>2, <1>3, <1>5 DEF Next

(* With its fields in order an event matches exactly at its time.          *)
LEMMA FieldsDecide ==
  ASSUME TypeInv, FieldsKept, cliPc = "idle", clkPc = "check"
  PROVE  /\ Matches(info["ON1"], now) <=> IsTime(ontime, now)
         /\ Matches(info["OFF1"], now) <=> IsTime(offtime, now)
         /\ Matches(info["ON2"], now) <=> now = At(On2)
<1>1. OnKept /\ OffKept /\ info["ON2"] = At(On2)
  BY DEF FieldsKept, Initialised
<1>2. now = [hour |-> now.hour, min |-> now.min, sec |-> now.sec] /\ now.sec \in Int
  BY LengthAssumption DEF TypeInv, Wires, Instant
<1>3. Matches(info["ON1"], now) <=> IsTime(ontime, now)
  BY <1>1 DEF OnKept, Matches, IsTime, Any
<1>4. Matches(info["OFF1"], now) <=> IsTime(offtime, now)
  BY <1>1 DEF OffKept, Matches, IsTime, Any
<1>5. Matches(info["ON2"], now) <=> now = At(On2)
  <2>1. On2.hour # 255 /\ On2.min # 255
    BY EventsAssumption
  <2>2. Matches(At(On2), now) <=> now.sec = 0 /\ now.min = On2.min /\ now.hour = On2.hour
    BY <2>1 DEF Matches, At, Any
  <2> QED
    BY <1>1, <1>2, <2>2 DEF At
<1> QED
  BY <1>3, <1>4, <1>5

(* A turn of the loop: the event it looks at decides if it matches.        *)
LEMMA TurnDecides ==
  ASSUME TypeInv, PassInv, ScheduleInv, CheckEvent, ~late, ~changing
  PROVE  /\ seen /\ clkPc' \in {"check", "refresh"}
         /\ clkPc' = "check" => DecidedBefore(index)'
         /\ clkPc' = "refresh" => DecidedBefore(6)'
<1>1. /\ clkPc = "check" /\ index \in 1 .. 5 /\ now \in Instant
      /\ cliPc = "idle" /\ seen
      /\ DecidedBefore(index)
  BY DEF CheckEvent, TypeInv, Wires, Progress, ScheduleInv, ConsoleWaits, PassDecides
<1>2. time2 = now
  BY <1>1 DEF PassInv, AlarmIsNew, QuietIsRead
<1>3. UNCHANGED <<now, ontime, offtime>>
  BY DEF CheckEvent, rtcVars, setVars
<1>4. /\ Matches(info["ON1"], now) <=> IsTime(ontime, now)
      /\ Matches(info["OFF1"], now) <=> IsTime(offtime, now)
      /\ Matches(info["ON2"], now) <=> now = At(On2)
  BY <1>1, FieldsDecide DEF ScheduleInv
<1>5. /\ list[1] = "TIME" /\ list[2] = "ON1" /\ list[3] = "BEEP"
      /\ list[4] = "OFF1" /\ list[5] = "ON2"
  BY <1>1 DEF ScheduleInv, Ordered
<1>6. display' = IF Matches(info[list[index]], now) THEN Asked(list[index]) ELSE display
  BY <1>2 DEF CheckEvent
<1>7. IF index = 5 THEN clkPc' = "refresh" ELSE clkPc' = "check" /\ index' = index + 1
  BY <1>1 DEF CheckEvent, AfterCheck, LastChecked, TypeInv, Progress
<1> DEFINE on1  == IsTime(ontime, now)
           off1 == IsTime(offtime, now)
           on2  == now = At(On2)
<1>8. ASSUME NEW k \in Int
      PROVE  /\ DecidedBefore(k) <=> Decided(k >= 3 /\ on1, k >= 5 /\ off1, k >= 6 /\ on2)
             /\ DecidedBefore(k)' <=> Decided(k >= 3 /\ on1, k >= 5 /\ off1, k >= 6 /\ on2)'
  BY DEF DecidedBefore
<1>9. UNCHANGED <<on1, off1, on2>>
  BY <1>3
<1> HIDE DEF on1, off1, on2
<1>10. CASE index = 1
  BY <1>1, <1>7, <1>8, <1>9, <1>10 DEF Decided
<1>11. CASE index = 2
  BY <1>1, <1>4, <1>5, <1>6, <1>7, <1>8, <1>9, <1>11 DEF Decided, Asked, on1
<1>12. CASE index = 3
  BY <1>1, <1>5, <1>6, <1>7, <1>8, <1>9, <1>12 DEF Decided, Asked
<1>13. CASE index = 4
  BY <1>1, <1>4, <1>5, <1>6, <1>7, <1>8, <1>9, <1>13 DEF Decided, Asked, off1
<1>14. CASE index = 5
  BY <1>1, <1>4, <1>5, <1>6, <1>7, <1>8, <1>9, <1>14 DEF Decided, Asked, on2
<1> QED
  BY <1>1, <1>7, <1>10, <1>11, <1>12, <1>13, <1>14

(* What a second has decided holds until it ends.                          *)
LEMMA NextPassDecides ==
  TypeInv /\ PassInv /\ ScheduleInv /\ [Next]_vars => PassDecides'
<1> SUFFICES ASSUME TypeInv, PassInv, ScheduleInv, [Next]_vars, ~late', ~changing'
             PROVE  /\ clkPc' \in {"deirq", "check"} => seen'
                    /\ clkPc' = "check" => DecidedBefore(index)'
                    /\ clkPc' \in {"refresh", "show", "take"} /\ seen' => DecidedBefore(6)'
  BY DEF PassDecides
<1>1. CASE Tick
  <2>1. Waiting /\ ~seen'
    BY <1>1, Zenon DEF Tick
  <2> QED
    BY <1>1, <2>1 DEF Tick, Waiting
<1>2. ~Tick => ~late /\ ~changing
  BY DEF Next, ClockTask, Interrupt, InitEvent, InsertEvent, TakeTimeSync, TakeTimeout,
         GetTime, DeIrq, CheckEvent, Refresh, Show, ShowTime, SetShowtimeFields, SetField,
         vars, cliVars, lateVars
<1>3. CASE CheckEvent /\ ~Tick
  <2>1. UNCHANGED seen
    BY <1>3 DEF CheckEvent, lateVars
  <2> QED
    BY <1>2, <1>3, <2>1, TurnDecides
<1> SUFFICES ASSUME ~Tick, ~CheckEvent
             PROVE  /\ clkPc' \in {"deirq", "check"} => seen'
                    /\ clkPc' = "check" => DecidedBefore(index)'
                    /\ clkPc' \in {"refresh", "show", "take"} /\ seen' => DecidedBefore(6)'
  BY <1>1, <1>3
<1>4. ~late /\ ~changing /\ cliPc = "idle" /\ clkPc \notin {"init", "insert"}
  BY <1>2 DEF ScheduleInv, ConsoleWaits, PassInv, FrameIsNew
<1>5. UNCHANGED <<now, display, setVars>>
  <2>1. ~(\E on, off \in UserTimes : ShowTime(on, off))
    BY DEF ShowTime
  <2> QED
    BY <2>1 DEF Next, ClockTask, Interrupt, InitEvent, InsertEvent, TakeTimeSync,
         TakeTimeout, GetTime, DeIrq, Refresh, Show, SetShowtimeFields, SetField,
         vars, rtcVars, clkVars
<1>6. ASSUME NEW k \in Int PROVE DecidedBefore(k)' <=> DecidedBefore(k)
  BY <1>5 DEF DecidedBefore, Decided, setVars
<1>7. \/ clkPc' = "gettime"
      \/ clkPc' = "deirq" /\ seen'
      \/ clkPc = "deirq" /\ clkPc' = "check" /\ index' = index /\ seen' = seen
      \/ clkPc \in {"take", "refresh", "show"} /\ clkPc' \in {"take", "refresh", "show"} /\ seen' = seen
      \/ UNCHANGED <<clkPc, index, seen>>
  <2>1. ~(\E on, off \in UserTimes : ShowTime(on, off)) /\ ~InitEvent /\ ~InsertEvent
    BY <1>4 DEF ShowTime, InitEvent, InsertEvent
  <2> QED
    BY <2>1 DEF Next, ClockTask, Interrupt, TakeTimeSync, TakeTimeout, GetTime, DeIrq, Refresh,
                Show, SetShowtimeFields, SetField, vars, clkVars, lateVars
<1>8. DecidedBefore(1)
  BY DEF DecidedBefore, Decided
<1>9. /\ clkPc \in {"deirq", "check"} => seen
      /\ clkPc = "check" => DecidedBefore(index)
      /\ clkPc \in {"refresh", "show", "take"} /\ seen => DecidedBefore(6)
  BY <1>4 DEF ScheduleInv, PassDecides
<1>10. /\ index \in Int
       /\ clkPc = "deirq" => index = 1
  BY DEF TypeInv, Progress
<1> QED
  BY <1>6, <1>7, <1>8, <1>9, <1>10

(* Every show time, of the flash page and of the user, is obeyed in every  *)
(* second with which the clock task keeps up and in which setlcd rests.    *)
THEOREM ScheduleObeyed == Spec => ScheduleIsObeyed
<1> DEFINE Inv == TypeInv /\ PassInv /\ ScheduleInv
           Obeys ==
             CASE now = At(On2)        -> display = "on"
               [] now # At(On2) /\ IsTime(offtime, now) -> display = "off"
               [] now # At(On2) /\ ~IsTime(offtime, now) /\ IsTime(ontime, now)
                                       -> display = "on"
               [] OTHER                -> TRUE
<1>1. Init => Inv
  BY InitTypeInv, InitPassInv, InitScheduleInv
<1>2. Inv /\ [Next]_vars => Inv'
  <2>1. Inv /\ [Next]_vars => TypeInv' /\ PassInv'
    BY NextWires, NextProgress, NextFilled, NextShown, NextInfoTyped, NextPassInv DEF TypeInv
  <2>2. Inv /\ [Next]_vars => ScheduleInv'
    BY NextOrdered, NextFieldsKept, NextConsoleWaits, NextPassDecides DEF TypeInv, ScheduleInv
  <2> QED
    BY <2>1, <2>2
<1>3. ASSUME Inv, [Next]_vars PROVE [SecondInTime /\ ~changing => Obeys]_vars
  <2> SUFFICES ASSUME SecondInTime, ~changing PROVE Obeys
    OBVIOUS
  <2>1. clkPc = "take" /\ ~irq /\ sem # 1 /\ ~late
    BY DEF SecondInTime, Waiting
  <2>2. seen
    BY <1>3, <2>1 DEF PassInv, QuietIsRead
  <2>3. DecidedBefore(6)
    BY <1>3, <2>1, <2>2 DEF ScheduleInv, PassDecides
  <2> QED
    BY <2>3 DEF DecidedBefore, Decided
<1> QED
  BY <1>1, <1>2, <1>3, PTL DEF Spec, ScheduleIsObeyed
=============================================================================
