------------------------------ MODULE Clockwork ------------------------------
(***************************************************************************)
(* The clock from the chip to its tubes and its buzzer: Calendar's chip    *)
(* and sdate, the clock task that looks at every second and refreshes the  *)
(* display (see TimeEvents), the strokes of the hour (Buzzer), and what    *)
(* the tubes show (Tubes).                                                 *)
(***************************************************************************)
EXTENDS Calendar, Buzzer, Tubes

CONSTANTS
    ClimateFrames,  \* frames of temperature and humidity
    Fills,          \* digits app_display.c fills in: 0 to 9 in the code
    Sessions        \* what the user does in one run: [given : what sdate gets,
                    \* most : bound, the sdate commands, accepted or refused]

TubeFrames == [Tube -> Byte]

ASSUME ClimateFramesAssumption == ClimateFrames \subseteq TubeFrames /\ ClimateFrames # {}
ASSUME FillsAssumption == Fills \subseteq 0 .. 9
ASSUME SessionsAssumption == \A s \in Sessions : s.given \subseteq Args /\ s.most \in Nat

VARIABLES
    alarm,      \* the clock task has yet to look at the second that began
    clkPc,      \* the clock task's next statement
    info,       \* the frame refresh_time_every_500ms has prepared
    infoNew,    \* history: in this second, as it was last set
    lcd_pixel,  \* what app_display.c shows
    pixelNew,   \* history: prepared in this second, as it was last set
    session,    \* this run
    sets        \* the sdate commands so far

frameVars == <<info, infoNew, lcd_pixel, pixelNew>>
runVars   == <<session, sets>>
clockVars == <<vars, buzzerVars, alarm, clkPc, frameVars, runVars>>

ClockTypeOK ==
    /\ TypeOK
    /\ BuzzerTypeOK
    /\ alarm \in BOOLEAN
    /\ clkPc \in {"take", "refresh", "show"}
    /\ info \in TubeFrames /\ lcd_pixel \in TubeFrames
    /\ infoNew \in BOOLEAN /\ pixelNew \in BOOLEAN
    /\ session \in Sessions
    /\ sets \in 0 .. session.most

AllDigits(d) == [p \in Tube |-> d]

ClockInit ==
    /\ Init
    /\ BuzzerInit
    /\ alarm = FALSE
    /\ clkPc = "take"
    /\ info = AllDigits(0) /\ lcd_pixel = AllDigits(0)
    /\ infoNew = FALSE /\ pixelNew = FALSE
    /\ session \in Sessions
    /\ sets = 0

(* What was prepared before is of another second, or of another date.      *)
FramesAge == infoNew' = FALSE /\ pixelNew' = FALSE /\ UNCHANGED <<info, lcd_pixel>>

(* The clock task keeps up: it has looked at a second before the next.     *)
ClockTick ==
    /\ ~alarm /\ adding = 0
    /\ Tick
    /\ alarm' = TRUE
    /\ FramesAge
    /\ UNCHANGED <<buzzerVars, clkPc, runVars>>

Hour(d) == d.min = 0 /\ d.sec = 0

(* mid_rtc_get_time and the event TIME_EVENT_INTEGER_BEEP.                 *)
ClockLooks ==
    /\ clkPc = "take" /\ alarm
    /\ clkPc' = "refresh"
    /\ alarm' = FALSE
    /\ IF Hour(DateRead(chip))
       THEN integer_time_beep(DateRead(chip).hour, right.hour)
       ELSE UNCHANGED buzzerVars
    /\ UNCHANGED <<vars, frameVars, runVars>>

(* No alarm for 500 ms.                                                    *)
ClockTimeout ==
    /\ clkPc = "take" /\ ~alarm
    /\ clkPc' = "refresh"
    /\ UNCHANGED <<vars, buzzerVars, alarm, frameVars, runVars>>

ThSeconds == (16 .. 20) \cup (36 .. 40) \cup (56 .. 59)

(* refresh_time_every_500ms reads the time and prepares a frame, ...       *)
ClockRefresh ==
    /\ clkPc = "refresh" /\ adding = 0
    /\ clkPc' = "show"
    /\ LET time == DateRead(chip)
       IN  IF time.sec \in ThSeconds THEN info' \in ClimateFrames
           ELSE info' = TimeFrame(time)
    /\ infoNew' = TRUE
    /\ UNCHANGED <<vars, buzzerVars, alarm, lcd_pixel, pixelNew, runVars>>

(* ... and shows it, unless the display's protection makes it drop it.     *)
ClockShow ==
    /\ clkPc = "show"
    /\ clkPc' = "take"
    /\ \/ lcd_pixel' = info /\ pixelNew' = infoNew
       \/ UNCHANGED <<lcd_pixel, pixelNew>>
    /\ UNCHANGED <<vars, buzzerVars, alarm, info, infoNew, runVars>>

(* app_display.c fills lcd_pixel with one digit as the tubes go on or off. *)
DisplayFills ==
    /\ \E d \in Fills : lcd_pixel' = AllDigits(d)
    /\ pixelNew' = FALSE
    /\ UNCHANGED <<vars, buzzerVars, alarm, clkPc, info, infoNew, runVars>>

ClockSet ==
    /\ sets < session.most
    /\ sets' = sets + 1
    /\ \E a \in session.given : SetTime(a)
    /\ FramesAge
    /\ UNCHANGED <<buzzerVars, alarm, clkPc, session>>

ClockAdds == set_times  /\ UNCHANGED <<vars, alarm, clkPc, frameVars, runVars>>
Buzzes    == BuzzerTask /\ UNCHANGED <<vars, alarm, clkPc, frameVars, runVars>>

ClockTask == ClockLooks \/ ClockAdds \/ ClockRefresh \/ ClockShow

ClockNext == ClockTick \/ ClockTask \/ ClockTimeout \/ DisplayFills \/ ClockSet \/ Buzzes

(* The two tasks are time sliced and their delays end.                     *)
ClockSpec ==
    /\ ClockInit
    /\ [][ClockNext]_clockVars
    /\ WF_clockVars(ClockTask)
    /\ WF_clockVars(Buzzes)

-----------------------------------------------------------------------------
(* Properties.                                                             *)

(* Whatever the user has given sdate: once a frame prepared in a second is *)
(* with the display, and until the display fills in one of its own, the    *)
(* digits on the tubes, read in pairs, are the hour, minute and second a   *)
(* right clock would show, no tube dark and none with two digits; but in   *)
(* the seconds 16 to 20, 36 to 40 and 56 to 59 they are temperature and    *)
(* humidity.                                                               *)
TubesShowTheTime ==
    pixelNew =>
        IF right.sec \in ThSeconds THEN lcd_pixel \in ClimateFrames
        ELSE LET latch == Latch(lcd_pixel)
             IN  /\ Pair(latch, 0) = {right.hour}
                 /\ Pair(latch, 2) = {right.min}
                 /\ Pair(latch, 4) = {right.sec}

(* When no more hours come, the buzzer falls silent and stays so, whether  *)
(* or not += and -- have met.                                              *)
SilenceReturns == <>[](buzPc = "idle" /\ warning_times = 0)
=============================================================================
