----------------------------- MODULE TimeEvents -----------------------------
(***************************************************************************)
(* app_time.c with the parts of mid_rtc.c and hal_ds3231.c it runs on: the *)
(* DS3231 raises its alarm flag every second and pulls the interrupt line  *)
(* low until the flag is cleared; the EXTI interrupt gives timeSync; the   *)
(* clock task takes it, reads the time, clears the flag, runs the timed    *)
(* events that match, and refreshes the screen.  The console's setlcd      *)
(* changes two of the events meanwhile, field by field.                    *)
(*                                                                         *)
(* The fields mday, mon and year of every event are 0xFF, so they always   *)
(* match and are left out.                                                 *)
(***************************************************************************)
EXTENDS Integers, Sequences

CONSTANTS
    Hours, Minutes, Seconds,    \* the lengths of a day, an hour, a minute
    On2, Off2,                  \* [hour, min]: 07:00 and 08:40 in the code
    ThSeconds,                  \* seconds that show temperature and humidity
    StoredTimes,                \* show times the flash page may hold
    UserTimes                   \* show times the user sets: hour * 100 + min

ASSUME LengthAssumption ==
    /\ Hours \in Nat \ {0}
    /\ Minutes \in Nat \ {0}
    /\ Seconds \in Nat \ {0, 1}

U16 == 0 .. 65535
ASSUME TimesAssumption == StoredTimes \cup UserTimes \subseteq U16
\* bytes, and not the wildcard 255
ASSUME EventsAssumption == {On2, Off2} \subseteq [hour : 0 .. 254, min : 0 .. 254]

VARIABLES
    now,        \* the RTC's time
    a1f,        \* its alarm flag: the interrupt line is low
    irq,        \* EXTI line 0 is pending
    sem,        \* timeSync: 1 when it can be taken
    ontime, offtime,
    info,       \* events.info: event -> [hour, min, sec]
    validNum,   \* events.valid_num
    list,       \* events.list, head first
    clkPc,      \* the clock task's next statement
    index,      \* progress of its current loop
    time2,      \* the time it read last
    display,    \* what its events last asked of the display
    fired,      \* history: the event that the loop's last turn fired, or "none"
    frame,      \* the frame refresh_time_every_500ms has prepared
    screen,     \* the last frame app_display_show_info took from it
    cliPc,      \* the console task's next statement in setlcd
    changing,   \* history: setlcd was at work in the current second
    late,       \* history: the clock task was not waiting when it began
    seen,       \* history: the clock task has read the time in it
    refused     \* history: the display did not take the last frame in it

rtcVars  == <<now, a1f, irq, sem>>
setVars  == <<ontime, offtime>>
initVars == <<validNum, list>>
clkVars  == <<clkPc, index, time2, display, fired, frame, screen>>
cliVars  == <<cliPc, changing>>
lateVars == <<late, seen, refused>>
vars     == <<rtcVars, setVars, info, initVars, clkVars, cliVars, lateVars>>

(* enum event_id_e, in the order app_time_task initialises and inserts.    *)
InitOrder   == <<"BEEP", "ON1", "OFF1", "ON2", "OFF2">>
InsertOrder == <<"ON1", "TIME", "BEEP", "OFF1", "ON2", "OFF2">>
Events      == {"BEEP", "TIME", "ON1", "OFF1", "ON2", "OFF2"}

Any     == 255
Byte    == 0 .. 255
Instant == [hour : 0 .. Hours - 1, min : 0 .. Minutes - 1, sec : 0 .. Seconds - 1]
Field   == [hour : Byte, min : Byte, sec : Byte]

(* Mutant: the hour is not reduced to a byte.                              *)
HourOfWide(t) == t \div 100

(* The fields are U8, the show times U16.                                  *)
HourOf(t) == (t \div 100) % 256
MinOf(t)  == t % 100

(* events.items[DISPLAY_TIME] has no owner: its fields are read at address *)
(* 0, where the vector table's first byte in sec's place is 176.           *)
Unowned == [hour |-> 0, min |-> 0, sec |-> 176]

Matches(f, t) ==
    /\ f.sec  \in {t.sec, Any}
    /\ f.min  \in {t.min, Any}
    /\ f.hour \in {t.hour, Any}

(* A frame shows the time, or temperature and humidity, of this second or  *)
(* is of a second that is over.                                            *)
Frames == {"time", "th", "old"}
FrameOf(t) == IF t.sec \in ThSeconds THEN "th" ELSE "time"

Succ(n, length) == IF n = length - 1 THEN 0 ELSE n + 1

NextInstant(t) ==
    LET s == Succ(t.sec, Seconds)
        m == IF s = 0 THEN Succ(t.min, Minutes) ELSE t.min
        h == IF s = 0 /\ m = 0 THEN Succ(t.hour, Hours) ELSE t.hour
    IN  [hour |-> h, min |-> m, sec |-> s]

TypeOK ==
    /\ now \in Instant
    /\ a1f \in BOOLEAN
    /\ irq \in BOOLEAN
    /\ sem \in {0, 1}
    /\ ontime \in U16
    /\ offtime \in U16
    /\ info \in [Events -> Field]
    /\ validNum \in 0 .. 5
    /\ list \in Seq(Events) /\ Len(list) <= 6
    /\ clkPc \in {"init", "insert", "take", "gettime", "deirq", "check", "refresh", "show"}
    /\ index \in 1 .. 6
    /\ time2 \in Instant
    /\ display \in {"on", "off"}
    /\ fired \in Events \cup {"none"}
    /\ frame \in Frames
    /\ screen \in Frames
    /\ cliPc \in {"idle", "onhour", "onmin", "offhour", "offmin"}
    /\ changing \in BOOLEAN
    /\ late \in BOOLEAN
    /\ seen \in BOOLEAN
    /\ refused \in BOOLEAN

(* mid_rtc_init has run: timeSync is created available, the alarm matches  *)
(* every second, and its flag is clear.                                    *)
Init ==
    /\ now \in Instant
    /\ a1f = FALSE
    /\ irq = FALSE
    /\ sem = 1
    /\ ontime \in StoredTimes
    /\ offtime \in StoredTimes
    /\ info = [e \in Events |-> Unowned]
    /\ validNum = 0
    /\ list = <<>>
    /\ clkPc = "init"
    /\ index = 1
    /\ time2 = now
    /\ display = "on"
    /\ fired = "none"
    /\ frame = "old"
    /\ screen = "old"
    /\ cliPc = "idle"
    /\ changing = FALSE
    /\ late = TRUE
    /\ seen = FALSE
    /\ refused = FALSE

-----------------------------------------------------------------------------
(* The RTC and its interrupt.                                              *)

Waiting == clkPc = "take" /\ sem = 0 /\ ~irq

Tick ==
    /\ now' = NextInstant(now)
    /\ irq' = IF a1f THEN irq ELSE TRUE
    /\ a1f' = TRUE
    /\ frame' = "old"
    /\ screen' = "old"
    /\ changing' = (cliPc # "idle")
    /\ late' = ~Waiting
    /\ seen' = FALSE
    /\ refused' = FALSE
    /\ UNCHANGED <<sem, setVars, info, initVars, clkPc, index, time2, display,
                   fired, cliPc>>

(* Mutant: the pending bit is not cleared.                                 *)
InterruptStaysPending ==
    /\ irq
    /\ sem' = 1
    /\ UNCHANGED <<now, a1f, irq, setVars, info, initVars, clkVars, cliVars,
                   lateVars>>

(* Mutant: an interrupt that comes while the clock task works is dropped.  *)
InterruptDropped ==
    /\ irq
    /\ irq' = FALSE
    /\ sem' = IF clkPc = "take" THEN 1 ELSE sem
    /\ UNCHANGED <<now, a1f, setVars, info, initVars, clkVars, cliVars,
                   lateVars>>

Interrupt ==
    /\ irq
    /\ irq' = FALSE
    /\ sem' = 1
    /\ UNCHANGED <<now, a1f, setVars, info, initVars, clkVars, cliVars,
                   lateVars>>

-----------------------------------------------------------------------------
(* The clock task: its start.                                              *)

InitialFields(e) ==
    CASE e = "BEEP" -> [hour |-> Any, min |-> 0, sec |-> 0]
      [] e = "ON1"  -> [hour |-> HourOf(ontime), min |-> MinOf(ontime), sec |-> 0]
      [] e = "OFF1" -> [hour |-> HourOf(offtime), min |-> MinOf(offtime), sec |-> 0]
      [] e = "ON2"  -> [hour |-> On2.hour, min |-> On2.min, sec |-> 0]
      [] e = "OFF2" -> [hour |-> Off2.hour, min |-> Off2.min, sec |-> 0]

InitEvent ==
    /\ clkPc = "init"
    /\ info' = [info EXCEPT ![InitOrder[index]] = InitialFields(InitOrder[index])]
    /\ validNum' = validNum + 1
    /\ IF index = Len(InitOrder)
       THEN clkPc' = "insert" /\ index' = 1
       ELSE clkPc' = "init" /\ index' = index + 1
    /\ UNCHANGED <<rtcVars, setVars, list, time2, display,
                   fired, frame, screen, cliVars, lateVars>>

(* vListInsert sorts by xItemValue: portMAX_DELAY goes to the tail, the 0  *)
(* of an item that was never initialised before it.                        *)
ListInsert(l, e) == IF e = "TIME" THEN <<e>> \o l ELSE Append(l, e)

InsertEvent ==
    /\ clkPc = "insert"
    /\ list' = ListInsert(list, InsertOrder[index])
    /\ IF index = Len(InsertOrder)
       THEN clkPc' = "take" /\ index' = 1
       ELSE clkPc' = "insert" /\ index' = index + 1
    /\ UNCHANGED <<rtcVars, setVars, info, validNum, time2, display,
                   fired, frame, screen, cliVars, lateVars>>

-----------------------------------------------------------------------------
(* The clock task: its loop.                                               *)

TakeTimeSync ==
    /\ clkPc = "take"
    /\ sem = 1
    /\ sem' = 0
    /\ clkPc' = "gettime"
    /\ UNCHANGED <<now, a1f, irq, setVars, info, initVars, index, time2, display,
                   fired, frame, screen, cliVars, lateVars>>

TakeTimeout ==
    /\ clkPc = "take"
    /\ sem = 0
    /\ clkPc' = "refresh"
    /\ UNCHANGED <<rtcVars, setVars, info, initVars, index, time2, display, fired,
                   frame, screen, cliVars, lateVars>>

GetTime ==
    /\ clkPc = "gettime"
    /\ time2' = now
    /\ seen' = TRUE
    /\ clkPc' = "deirq"
    /\ UNCHANGED <<rtcVars, setVars, info, initVars, index, display,
                   fired, frame, screen, cliVars, late, refused>>

(* Mutant: the alarm flag is not cleared.                                  *)
DeIrqKeepsFlag ==
    /\ clkPc = "deirq"
    /\ clkPc' = "check"
    /\ UNCHANGED <<rtcVars, setVars, info, initVars, index, time2,
                   display,
                   fired, frame, screen, cliVars, lateVars>>

DeIrq ==
    /\ clkPc = "deirq"
    /\ a1f' = FALSE
    /\ clkPc' = "check"
    /\ UNCHANGED <<now, irq, sem, setVars, info, initVars, index, time2,
                   display,
                   fired, frame, screen, cliVars, lateVars>>

(* Mutant: the loop ends one event early.                                  *)
LastCheckedOneShort == validNum - 1

(* Mutant: an alarm's pass ends without a refresh.                         *)
AfterCheckTake(i) == IF i = validNum THEN "take" ELSE "check"

LastChecked == validNum
AfterCheck(i) == IF i = LastChecked THEN "refresh" ELSE "check"

(* What an event's function asks of the display.                           *)
Asked(e) ==
    CASE e \in {"ON1", "ON2"}   -> "on"
      [] e \in {"OFF1", "OFF2"} -> "off"
      [] OTHER                  -> display

(* One turn of events_triger_check's loop, which visits validNum events.   *)
CheckEvent ==
    /\ clkPc = "check"
    /\ LET e == list[index] IN
       IF Matches(info[e], time2)
       THEN fired' = e /\ display' = Asked(e)
       ELSE fired' = "none" /\ UNCHANGED display
    /\ clkPc' = AfterCheck(index)
    /\ index' = IF clkPc' = "check" THEN index + 1 ELSE 1
    /\ UNCHANGED <<rtcVars, setVars, info, initVars, time2, frame, screen, cliVars,
                   lateVars>>

(* refresh_time_every_500ms reads the time again and prepares a frame, then *)
(* shows it: app_display_show_info drops a frame that comes while the      *)
(* display task's protection is `processing`, which is the Display         *)
(* module's and may begin and end at any time here.                        *)
Refresh ==
    /\ clkPc = "refresh"
    /\ fired' = "none"
    /\ frame' = FrameOf(now)
    /\ clkPc' = "show"
    /\ UNCHANGED <<rtcVars, setVars, info, initVars, index, time2, display,
                   screen, cliVars, lateVars>>

Show ==
    /\ clkPc = "show"
    /\ clkPc' = "take"
    /\ \/ screen' = frame /\ refused' = FALSE
       \/ screen # frame /\ UNCHANGED screen /\ refused' = TRUE
    /\ UNCHANGED <<rtcVars, setVars, info, initVars, index, time2, display, fired,
                   frame, cliVars, late, seen>>

-----------------------------------------------------------------------------
(* The console task: setlcd rejects midnight to midnight.  app_data.c's    *)
(* part of the command is in DataStore.                                    *)

ShowTime(on, off) ==
    /\ cliPc = "idle"
    /\ clkPc \notin {"init", "insert"}
    /\ on # 0 \/ off # 0
    /\ ontime' = on
    /\ offtime' = off
    /\ cliPc' = "onhour"
    /\ changing' = TRUE
    /\ UNCHANGED <<rtcVars, info, initVars, clkVars, lateVars>>

SetField(at, e, field, value, then) ==
    /\ cliPc = at
    /\ info' = [info EXCEPT ![e][field] = value]
    /\ cliPc' = then
    /\ UNCHANGED <<rtcVars, setVars, initVars, clkVars, changing, lateVars>>

(* Mutant: setlcd does not change the minute of the on event.              *)
SetHoursOnly ==
    \/ SetField("onhour",  "ON1",  "hour", HourOf(ontime),  "offhour")
    \/ SetField("offhour", "OFF1", "hour", HourOf(offtime), "offmin")
    \/ SetField("offmin",  "OFF1", "min",  MinOf(offtime),  "idle")

SetShowtimeFields ==
    \/ SetField("onhour",  "ON1",  "hour", HourOf(ontime),  "onmin")
    \/ SetField("onmin",   "ON1",  "min",  MinOf(ontime),   "offhour")
    \/ SetField("offhour", "OFF1", "hour", HourOf(offtime), "offmin")
    \/ SetField("offmin",  "OFF1", "min",  MinOf(offtime),  "idle")

-----------------------------------------------------------------------------
ClockTask ==
    \/ InitEvent \/ InsertEvent \/ TakeTimeSync \/ GetTime \/ DeIrq
    \/ CheckEvent \/ Refresh \/ Show

Next ==
    \/ Tick \/ Interrupt \/ ClockTask \/ TakeTimeout
    \/ \E on, off \in UserTimes : ShowTime(on, off)
    \/ SetShowtimeFields

(* Time passes, interrupts are served, and the tasks are time sliced: the  *)
(* clock task and the console task each run again and again.               *)
Fairness ==
    /\ WF_vars(Tick)
    /\ WF_vars(Interrupt)
    /\ WF_vars(ClockTask)
    /\ WF_vars(SetShowtimeFields)

Spec == Init /\ [][Next]_vars /\ Fairness

-----------------------------------------------------------------------------
(* Properties.                                                             *)

At(hm) == [hour |-> hm.hour, min |-> hm.min, sec |-> 0]

IsTime(t, at) ==
    at.sec = 0 /\ HourOf(t) \in {at.hour, Any} /\ MinOf(t) \in {at.min, Any}

(* The alarm is never stuck: while the interrupt line is low, so that no   *)
(* further edge can come, the interrupt is pending, or timeSync is given,  *)
(* or the clock task is on its way to clear the flag.                      *)
AlarmIsAttended == a1f => irq \/ sem = 1 \/ clkPc \in {"gettime", "deirq"}

(* However late the clock task is, it handles alarms again and again.      *)
AlarmsGoOn == []<>(clkPc = "gettime")

(* The clock task keeps up with a second that begins and ends while it     *)
(* waits for timeSync.                                                     *)
SecondInTime == ~late /\ Waiting /\ Tick

(* When such a second ends, its time has been read for the events, and its *)
(* frame, the time or temperature and humidity, is on the screen, unless   *)
(* the display's protection made it drop the last one.                     *)
NoSecondIsMissed ==
    [][SecondInTime => time2 = now /\ (screen = FrameOf(now) \/ refused)]_vars

(* A second that began while it waited is handled once at most, so that no *)
(* event fires twice.                                                      *)
NoSecondTwice == [][~late /\ TakeTimeSync => ~seen]_vars

(* Whatever show times the flash page held or the user has set, in such a  *)
(* second without setlcd: when the minute of an event has come, the display *)
(* was asked what the last matching event of the list says.                *)
ScheduleIsObeyed ==
    [][SecondInTime /\ ~changing =>
        CASE now = At(On2)        -> display = "on"
          [] now # At(On2) /\ IsTime(offtime, now) -> display = "off"
          [] now # At(On2) /\ ~IsTime(offtime, now) /\ IsTime(ontime, now)
                                  -> display = "on"
          [] OTHER                -> TRUE]_vars

(* A show-on time the user sets is obeyed the next time it comes, however  *)
(* setlcd interleaves with the clock task, unless it is changed again or   *)
(* the clock task does not keep up.                                        *)
NewTimeIsObeyed ==
    \A t \in UserTimes :
        (ontime = t /\ cliPc = "onhour")
            ~> (late \/ ontime # t \/ (fired = "ON1" /\ IsTime(t, time2)))

(* "off 08:40": when the second 08:40:00 is over, the display was asked to *)
(* go off.                                                                 *)
Off2IsObeyed == [][SecondInTime /\ now = At(Off2) => display = "off"]_vars

=============================================================================
