------------------------------- MODULE Display -------------------------------
(***************************************************************************)
(* app_display.c and app_led.c: the display task drives the tubes from     *)
(* lcd_pixel and switches the high voltage, and with it the LED task, on   *)
(* and off.  The clock task (timed events, refresh) and the console task   *)
(* (lcd, led commands) call into it.  They, and the display task, have the *)
(* same priority and are time sliced; the LED task has a lower one.        *)
(*                                                                         *)
(* A frame stands for seven bytes of lcd_pixel: the digits left and right  *)
(* and the colons, which the display task reads one after the other.       *)
(***************************************************************************)
EXTENDS Integers

CONSTANTS
    Frames,         \* what the clock task asks to show
    StartFrames,    \* frames of the start-up animation: 10 in the code
    Colors,         \* indices of port_list
    DefaultColor,   \* DEFAULT_COLOR_BLUE
    BadColor,       \* a led_color outside port_list, as an erased page gives
    LedStates       \* the states the user gives the led command: {0, 1}

ASSUME StartAssumption == StartFrames \in Nat \ {0}
ASSUME ColorAssumption == DefaultColor \in Colors /\ BadColor \notin Colors

VARIABLES
    hvState,        \* hv_state: what the last on or off asked for
    lit,            \* the high voltage and output enable pins
    pixel,          \* lcd_pixel
    processing,     \* TRUE while the display task protects lcd_pixel
    map,            \* the display task's array for the latches
    shown,          \* what the latches and the colon pins show
    dState,         \* the display task's state variable
    dPc,            \* the display task's next statement
    startDis,       \* start_dis
    pc,             \* next statement of the two calling tasks
    frame,          \* the frame the clock task is about to copy
    ledSuspended,   \* the LED task is in the suspended list
    ledPc,          \* the LED task's next statement
    ledColor,       \* app_led.c's led_color
    pins,           \* the LED pins that are high
    ledWoken        \* history: led 1 was given since the last switch-off

pixVars   == <<pixel, processing, map, shown>>
dispVars  == <<lit, dState, dPc, startDis>>
callVars  == <<pc, frame>>
ledVars   == <<ledSuspended, ledPc, ledColor, pins, ledWoken>>
vars      == <<hvState, pixVars, dispVars, callVars, ledVars>>

Callers == {"clock", "cli"}
Parts   == {"left", "right", "colons"}
Digits  == {"left", "right"}
Pattern == Frames \cup {"zero", "start"}
Whole(f) == [p \in Parts |-> f]
FillDigits(px, f) == [p \in Parts |-> IF p \in Digits THEN f ELSE px[p]]

(* port_list is only indexed inside its bounds, by ledColor, whatever the  *)
(* flash page holds and whenever a led command comes.                      *)
TypeOK ==
    /\ hvState \in {"ON", "OFF"}
    /\ lit \in BOOLEAN
    /\ processing \in BOOLEAN
    /\ pixel \in [Parts -> Pattern]
    /\ map \in [Digits -> Pattern]
    /\ shown \in [Parts -> Pattern]
    /\ dState \in 0 .. 3
    /\ dPc \in {"switch", "guard", "colons", "left", "right", "latch",
                "delay", "suspend", "suspended"}
    /\ startDis \in 0 .. StartFrames
    /\ pc \in [Callers -> {"idle", "resume", "copy", "led0", "led1"}]
    /\ frame \in Frames
    /\ ledSuspended \in BOOLEAN
    /\ ledPc \in {"read", "clamp", "set", "clear"}
    /\ ledColor \in Colors \cup {BadColor}
    /\ ledPc \in {"set", "clear"} => ledColor \in Colors
    /\ pins \subseteq Colors
    /\ ledWoken \in BOOLEAN

Init ==
    /\ hvState = "ON"
    /\ lit = FALSE
    /\ pixel = Whole("zero")
    /\ processing = TRUE
    /\ map = [p \in Digits |-> "zero"]
    /\ shown = Whole("zero")
    /\ dState = 0
    /\ dPc = "switch"
    /\ startDis = 0
    /\ pc = [a \in Callers |-> "idle"]
    /\ frame \in Frames
    /\ ledSuspended = FALSE
    /\ ledPc = "read"
    /\ ledColor = DefaultColor
    /\ pins = {}
    /\ ledWoken = FALSE

-----------------------------------------------------------------------------
(* The display task.  In state 0 with hv_state OFF it spins: no action.    *)

SwitchOn ==
    /\ dPc = "switch" /\ dState = 0
    /\ hvState = "ON"
    /\ lit' = TRUE
    /\ ledSuspended' = FALSE
    /\ startDis' = 0
    /\ dState' = 1
    /\ UNCHANGED <<hvState, pixVars, dPc, callVars, ledPc, ledColor, pins, ledWoken>>

StateAfter(n) == IF n >= StartFrames THEN 2 ELSE 1

StartFrame ==
    /\ dPc = "switch" /\ dState = 1
    /\ startDis' = startDis + 1
    /\ dState' = StateAfter(startDis')
    /\ processing' = TRUE
    /\ pixel' = FillDigits(pixel, "start")
    /\ dPc' = "guard"
    /\ UNCHANGED <<hvState, map, shown, lit, callVars, ledVars>>

Guard ==
    /\ dPc = "guard" \/ (dPc = "switch" /\ dState = 2)
    /\ processing' = TRUE
    /\ IF hvState = "OFF"
       THEN pixel' = FillDigits(pixel, "zero") /\ dState' = 3
       ELSE UNCHANGED <<pixel, dState>>
    /\ dPc' = "colons"
    /\ UNCHANGED <<hvState, map, shown, lit, startDis, callVars, ledVars>>

SetPoint ==
    /\ dPc = "colons"
    /\ shown' = [shown EXCEPT !["colons"] = pixel["colons"]]
    /\ dPc' = "left"
    /\ UNCHANGED <<hvState, pixel, processing, map, lit, dState, startDis,
                   callVars, ledVars>>

ReleasedAt(next) == IF next = "latch" THEN FALSE ELSE processing

CalcMap(part, next) ==
    /\ dPc = part
    /\ map' = [map EXCEPT ![part] = pixel[part]]
    /\ processing' = ReleasedAt(next)
    /\ dPc' = next
    /\ UNCHANGED <<hvState, pixel, shown, lit, dState, startDis, callVars, ledVars>>

(* Mutant: the latches are not strobed.                                    *)
WriteDataNoLatch ==
    /\ dPc = "latch"
    /\ dPc' = "delay"
    /\ UNCHANGED <<hvState, pixVars, lit, dState, startDis, callVars, ledVars>>

WriteData ==
    /\ dPc = "latch"
    /\ shown' = [p \in Parts |-> IF p \in Digits THEN map[p] ELSE shown[p]]
    /\ dPc' = "delay"
    /\ UNCHANGED <<hvState, pixel, processing, map, lit, dState, startDis,
                   callVars, ledVars>>

DelayOver ==
    /\ dPc = "delay"
    /\ dPc' = "switch"
    /\ UNCHANGED <<hvState, pixVars, lit, dState, startDis, callVars, ledVars>>

(* Mutant: the LED task is not suspended.                                  *)
SwitchOffKeepsLed ==
    /\ dPc = "switch" /\ dState = 3
    /\ lit' = FALSE
    /\ pins' = {}
    /\ ledWoken' = FALSE
    /\ dPc' = "suspend"
    /\ UNCHANGED <<hvState, pixVars, dState, startDis, callVars, ledSuspended,
                   ledPc, ledColor>>

(* Mutant: the high voltage stays on.                                      *)
SwitchOffKeepsVoltage ==
    /\ dPc = "switch" /\ dState = 3
    /\ pins' = {}
    /\ ledWoken' = FALSE
    /\ ledSuspended' = TRUE
    /\ dPc' = "suspend"
    /\ UNCHANGED <<hvState, pixVars, lit, dState, startDis, callVars, ledPc, ledColor>>

(* The LED task cannot run between the reset of its pins and its suspension *)
(* because its priority is lower.                                           *)
SwitchOff ==
    /\ dPc = "switch" /\ dState = 3
    /\ lit' = FALSE
    /\ pins' = {}
    /\ ledWoken' = FALSE
    /\ ledSuspended' = TRUE
    /\ dPc' = "suspend"
    /\ UNCHANGED <<hvState, pixVars, dState, startDis, callVars, ledPc, ledColor>>

SuspendSelf ==
    /\ dPc = "suspend"
    /\ dPc' = "suspended"
    /\ UNCHANGED <<hvState, pixVars, lit, dState, startDis, callVars, ledVars>>

-----------------------------------------------------------------------------
(* Calls by the clock and the console task.                                *)

DisplayOn(a) ==
    /\ pc[a] = "idle"
    /\ hvState' = "ON"
    /\ pc' = [pc EXCEPT ![a] = "resume"]
    /\ UNCHANGED <<pixVars, dispVars, frame, ledVars>>

(* Mutant: the display task goes on where it was.                          *)
StateOnResumeRunning == 2

StateOnResume == 0

(* vTaskResume ignores a task that is not suspended; the display task goes *)
(* on with state = 0.                                                      *)
ResumeDisplay(a) ==
    /\ pc[a] = "resume"
    /\ IF dPc = "suspended"
       THEN dPc' = "switch" /\ dState' = StateOnResume
       ELSE UNCHANGED <<dPc, dState>>
    /\ pc' = [pc EXCEPT ![a] = "idle"]
    /\ UNCHANGED <<hvState, pixVars, lit, startDis, frame, ledVars>>

DisplayOff(a) ==
    /\ pc[a] = "idle"
    /\ hvState' = "OFF"
    /\ UNCHANGED <<pixVars, dispVars, callVars, ledVars>>

(* app_display_show_info: the check, then the copy in a critical section.  *)
ShowInfoCheck(f) ==
    /\ pc["clock"] = "idle"
    /\ ~processing
    /\ frame' = f
    /\ pc' = [pc EXCEPT !["clock"] = "copy"]
    /\ UNCHANGED <<hvState, pixVars, dispVars, ledVars>>

ShowInfoCopy ==
    /\ pc["clock"] = "copy"
    /\ pixel' = Whole(frame)
    /\ pc' = [pc EXCEPT !["clock"] = "idle"]
    /\ UNCHANGED <<hvState, processing, map, shown, dispVars, frame, ledVars>>

LedCommand(color, state) ==
    /\ pc["cli"] = "idle"
    /\ ledColor' = color
    /\ pc' = [pc EXCEPT !["cli"] = IF state = 1 THEN "led1" ELSE "led0"]
    /\ UNCHANGED <<hvState, pixVars, dispVars, frame, ledSuspended, ledPc, pins, ledWoken>>

LedSwitch ==
    /\ pc["cli"] \in {"led0", "led1"}
    /\ ledSuspended' = (pc["cli"] = "led0")
    /\ ledWoken' = (ledWoken \/ pc["cli"] = "led1")
    /\ pc' = [pc EXCEPT !["cli"] = "idle"]
    /\ UNCHANGED <<hvState, pixVars, dispVars, frame, ledPc, ledColor, pins>>

-----------------------------------------------------------------------------
(* The LED task.                                                           *)

LedRuns(at) ==
    /\ ledPc = at
    /\ ~ledSuspended
    /\ dPc \in {"delay", "suspended"}
    /\ \A a \in Callers : pc[a] = "idle"

LedReadColor(stored) ==
    /\ LedRuns("read")
    /\ ledColor' = stored
    /\ ledPc' = "clamp"
    /\ UNCHANGED <<hvState, pixVars, dispVars, callVars, ledSuspended, pins, ledWoken>>

(* Mutant: the stored colour is not checked.                               *)
LedClampTrusting ==
    /\ LedRuns("clamp")
    /\ ledPc' = "set"
    /\ UNCHANGED <<hvState, pixVars, dispVars, callVars, ledSuspended, ledColor, pins, ledWoken>>

LedClamp ==
    /\ LedRuns("clamp")
    /\ ledColor' = IF ledColor \in Colors THEN ledColor ELSE DefaultColor
    /\ ledPc' = "set"
    /\ UNCHANGED <<hvState, pixVars, dispVars, callVars, ledSuspended, pins, ledWoken>>

LedSet ==
    /\ LedRuns("set")
    /\ pins' = pins \cup {ledColor}
    /\ ledPc' = "clear"
    /\ UNCHANGED <<hvState, pixVars, dispVars, callVars, ledSuspended, ledColor, ledWoken>>

LedClear ==
    /\ LedRuns("clear")
    /\ pins' = pins \ {ledColor}
    /\ ledPc' = "set"
    /\ UNCHANGED <<hvState, pixVars, dispVars, callVars, ledSuspended, ledColor, ledWoken>>

-----------------------------------------------------------------------------
DisplayTask ==
    \/ SwitchOn \/ StartFrame \/ Guard \/ SetPoint
    \/ CalcMap("left", "right") \/ CalcMap("right", "latch")
    \/ WriteData \/ DelayOver \/ SwitchOff \/ SuspendSelf

Request ==
    \/ \E a \in Callers : DisplayOn(a) \/ DisplayOff(a)
    \/ \E f \in Frames : ShowInfoCheck(f)
    \/ \E color \in Colors, state \in LedStates : LedCommand(color, state)

CliContinue   == ResumeDisplay("cli") \/ LedSwitch
ClockContinue == ResumeDisplay("clock") \/ ShowInfoCopy

LedTask ==
    \/ \E stored \in Colors \cup {BadColor} : LedReadColor(stored)
    \/ LedClamp \/ LedSet \/ LedClear

Next == DisplayTask \/ Request \/ CliContinue \/ ClockContinue \/ LedTask

(* The time sliced tasks of priority 2 get their turn; the LED task need   *)
(* not, and nobody has to ask for anything.                                *)
Fairness == WF_vars(DisplayTask) /\ WF_vars(CliContinue) /\ WF_vars(ClockContinue)

Spec == Init /\ [][Next]_vars /\ Fairness

-----------------------------------------------------------------------------
(* Properties.                                                             *)

(* While the display task is suspended nothing is lit, unless the user has *)
(* turned the LED on in the dark: state 3 turns off the pins, whichever led *)
(* commands left them on, and stops the LED task for good.                 *)
DarkMeansDark == dPc = "suspended" => ~lit /\ (ledWoken \/ pins = {})

(* The voltage follows the display task's state: whichever switch-on and   *)
(* resume of two callers comes when, the task never drives dark tubes and  *)
(* never starts or sleeps with the voltage on.                             *)
VoltageFollowsState ==
    lit <=> dState \in {1, 2} \/ (dState = 3 /\ dPc \notin {"suspend", "suspended"})

(* Switching is obeyed under every interleaving of the two callers: after  *)
(* a switch-off the high voltage goes off, unless somebody asks for it     *)
(* again, and a switch-on that finds the display task asleep wakes it.     *)
OffIsObeyed  == hvState = "OFF" ~> (~lit \/ hvState = "ON")
WakeIsObeyed ==
    (/\ hvState = "ON" /\ dPc = "suspended"
     /\ \E a \in Callers : pc[a] = "resume") ~> (lit \/ hvState = "OFF")
SwitchingIsObeyed == OffIsObeyed /\ WakeIsObeyed

(* A frame the clock wrote reaches the tubes, unless it is overwritten or  *)
(* the display task has seen a switch-off first; and the protection of     *)
(* lcd_pixel is always released again, whichever state the display task    *)
(* took it in: the clock is never shut out for good.                       *)
FrameIsShown ==
    /\ (processing /\ dState # 0) ~> ~processing
    /\ \A f \in Frames :
           (pixel = Whole(f) /\ dState \in {1, 2})
               ~> (shown = Whole(f) \/ pixel # Whole(f) \/ dState = 3)

(* "Lcd display task is working.": once no switch-on is being carried out, *)
(* a display that was last asked to be on is not suspended.                *)
WorkingMeansAwake ==
    hvState = "ON" /\ (\A a \in Callers : pc[a] # "resume") => dPc # "suspended"

(* "state[1:ON,0:OFF]": when led has turned the LED off, no LED is lit.    *)
OffMeansNoLight ==
    ledSuspended /\ (\A a \in Callers : pc[a] = "idle") => pins = {}

=============================================================================
