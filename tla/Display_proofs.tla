--------------------------- MODULE Display_proofs ---------------------------
(* Type correctness of Display and its darkness, for any number of frames, *)
(* colours and led states.                                                 *)
EXTENDS Display, TLAPS

(* From the switch-off on nothing is lit and, until a led command wakes    *)
(* the LED task, that task is suspended with its pins low.                 *)
Dark ==
    dPc \in {"suspend", "suspended"} =>
        ~lit /\ (ledWoken \/ (pins = {} /\ ledSuspended))

(* The animation is over when the last of its frames is counted.           *)
DisplayInv == TypeOK /\ (dState = 1 => startDis < StartFrames) /\ Dark

(* The display task.                                                       *)
LEMMA DisplayTaskKeepsInv ==
    ASSUME DisplayInv, DisplayTask
    PROVE  DisplayInv'
<1> USE StartAssumption, ColorAssumption
<1> USE DEF DisplayInv, TypeOK, Dark, Callers, Parts, Digits, Pattern
<1>1. CASE SwitchOn
  <2>1. lit' \in BOOLEAN /\ ledSuspended' \in BOOLEAN
    BY <1>1 DEF SwitchOn
  <2>2. startDis' \in 0 .. StartFrames /\ startDis' < StartFrames /\ dState' = 1
    BY <1>1 DEF SwitchOn
  <2> QED BY <1>1, <2>1, <2>2 DEF SwitchOn, pixVars, callVars
<1>2. CASE StartFrame
  BY <1>2 DEF StartFrame, StateAfter, FillDigits, pixVars, dispVars, callVars, ledVars
<1>3. CASE Guard
  BY <1>3 DEF Guard, FillDigits, pixVars, dispVars, callVars, ledVars
<1>4. CASE SetPoint
  BY <1>4 DEF SetPoint, pixVars, dispVars, callVars, ledVars
<1>5. CASE CalcMap("left", "right")
  BY <1>5 DEF CalcMap, ReleasedAt, pixVars, dispVars, callVars, ledVars
<1>6. CASE CalcMap("right", "latch")
  BY <1>6 DEF CalcMap, ReleasedAt, pixVars, dispVars, callVars, ledVars
<1>7. CASE WriteData
  BY <1>7 DEF WriteData, pixVars, dispVars, callVars, ledVars
<1>8. CASE DelayOver
  BY <1>8 DEF DelayOver, pixVars, dispVars, callVars, ledVars
<1>9. CASE SwitchOff
  BY <1>9 DEF SwitchOff, pixVars, dispVars, callVars, ledVars
<1>10. CASE SuspendSelf
  BY <1>10 DEF SuspendSelf, pixVars, dispVars, callVars, ledVars
<1> QED BY <1>1, <1>2, <1>3, <1>4, <1>5, <1>6, <1>7, <1>8, <1>9, <1>10 DEF DisplayTask

(* The calls of the clock and the console task, when they begin.           *)
LEMMA RequestKeepsInv ==
    ASSUME DisplayInv, Request
    PROVE  DisplayInv'
<1> USE StartAssumption, ColorAssumption
<1> USE DEF DisplayInv, TypeOK, Dark, Callers, Parts, Digits, Pattern
<1>1. ASSUME NEW a \in Callers, DisplayOn(a)
      PROVE  DisplayInv'
  BY <1>1 DEF DisplayOn, pixVars, dispVars, callVars, ledVars
<1>2. ASSUME NEW a \in Callers, DisplayOff(a)
      PROVE  DisplayInv'
  BY <1>2 DEF DisplayOff, pixVars, dispVars, callVars, ledVars
<1>3. ASSUME NEW f \in Frames, ShowInfoCheck(f)
      PROVE  DisplayInv'
  BY <1>3 DEF ShowInfoCheck, pixVars, dispVars, callVars, ledVars
<1>4. ASSUME NEW color \in Colors, NEW state \in LedStates, LedCommand(color, state)
      PROVE  DisplayInv'
  BY <1>4 DEF LedCommand, pixVars, dispVars, callVars, ledVars
<1> QED BY <1>1, <1>2, <1>3, <1>4 DEF Request

(* The rest of those calls.                                                *)
LEMMA ContinueKeepsInv ==
    ASSUME DisplayInv, CliContinue \/ ClockContinue
    PROVE  DisplayInv'
<1> USE StartAssumption, ColorAssumption
<1> USE DEF DisplayInv, TypeOK, Dark, Callers, Parts, Digits, Pattern
<1>1. CASE ResumeDisplay("cli")
  BY <1>1 DEF ResumeDisplay, StateOnResume, pixVars, dispVars, callVars, ledVars
<1>2. CASE ResumeDisplay("clock")
  BY <1>2 DEF ResumeDisplay, StateOnResume, pixVars, dispVars, callVars, ledVars
<1>3. CASE LedSwitch
  BY <1>3 DEF LedSwitch, pixVars, dispVars, callVars, ledVars
<1>4. CASE ShowInfoCopy
  BY <1>4 DEF ShowInfoCopy, Whole, pixVars, dispVars, callVars, ledVars
<1> QED BY <1>1, <1>2, <1>3, <1>4 DEF CliContinue, ClockContinue

(* The LED task, which runs in the dark only when a led command woke it.   *)
LEMMA LedTaskKeepsInv ==
    ASSUME DisplayInv, LedTask
    PROVE  DisplayInv'
<1> USE StartAssumption, ColorAssumption
<1> USE DEF DisplayInv, TypeOK, Dark, Callers, Parts, Digits, Pattern
<1>1. ASSUME NEW stored \in Colors \cup {BadColor}, LedReadColor(stored)
      PROVE  DisplayInv'
  BY <1>1 DEF LedReadColor, LedRuns, pixVars, dispVars, callVars, ledVars
<1>2. CASE LedClamp
  BY <1>2 DEF LedClamp, LedRuns, pixVars, dispVars, callVars, ledVars
<1>3. CASE LedSet
  BY <1>3 DEF LedSet, LedRuns, pixVars, dispVars, callVars, ledVars
<1>4. CASE LedClear
  BY <1>4 DEF LedClear, LedRuns, pixVars, dispVars, callVars, ledVars
<1> QED BY <1>1, <1>2, <1>3, <1>4 DEF LedTask

LEMMA DisplayInvariance == Spec => []DisplayInv
<1>1. Init => DisplayInv
  <2> SUFFICES ASSUME Init PROVE DisplayInv
    OBVIOUS
  <2>1. lit \in BOOLEAN /\ processing \in BOOLEAN /\ ledSuspended \in BOOLEAN
         /\ ledWoken \in BOOLEAN
    BY DEF Init
  <2>2. startDis \in 0 .. StartFrames
    BY StartAssumption DEF Init
  <2> QED BY <2>1, <2>2, ColorAssumption
       DEF Init, DisplayInv, TypeOK, Dark, Callers, Parts, Digits, Pattern, Whole
<1>2. DisplayInv /\ UNCHANGED vars => DisplayInv'
  BY DEF DisplayInv, TypeOK, Dark, vars, pixVars, dispVars, callVars, ledVars
<1>3. DisplayInv /\ [Next]_vars => DisplayInv'
  BY <1>2, DisplayTaskKeepsInv, RequestKeepsInv, ContinueKeepsInv, LedTaskKeepsInv
  DEF Next
<1> QED BY <1>1, <1>3, PTL DEF Spec

-----------------------------------------------------------------------------
(* Every variable keeps its type; in particular port_list is never indexed *)
(* out of its bounds, whatever colour the flash page holds.                *)
THEOREM DisplayTyped == Spec => []TypeOK
BY DisplayInvariance, PTL DEF DisplayInv

(* A suspended display task has left nothing lit, and only a led command   *)
(* given in the dark lights anything.                                      *)
THEOREM DarkIsDark == Spec => []DarkMeansDark
<1>1. DisplayInv => DarkMeansDark
  BY DEF DisplayInv, Dark, DarkMeansDark
<1> QED BY <1>1, DisplayInvariance, PTL

-----------------------------------------------------------------------------
(* The frame that state 1 prepares goes straight on to state 2.            *)
VoltageInv == VoltageFollowsState /\ (dPc = "guard" => dState \in {1, 2})

LEMMA NextVoltageInv == DisplayInv /\ VoltageInv /\ [Next]_vars => VoltageInv'
<1> SUFFICES ASSUME DisplayInv, VoltageInv, [Next]_vars PROVE VoltageInv'
  OBVIOUS
<1> USE DEF VoltageInv, VoltageFollowsState, dispVars
<1>1. CASE SwitchOn \/ StartFrame
  BY <1>1 DEF SwitchOn, StartFrame, StateAfter
<1>2. CASE Guard
  BY <1>2 DEF Guard
<1>3. CASE SetPoint \/ CalcMap("left", "right") \/ CalcMap("right", "latch") \/ WriteData
             \/ DelayOver
  BY <1>3 DEF SetPoint, CalcMap, WriteData, DelayOver
<1>4. CASE SwitchOff \/ SuspendSelf
  BY <1>4 DEF SwitchOff, SuspendSelf
<1>5. ASSUME NEW a \in Callers, ResumeDisplay(a) PROVE VoltageInv'
  BY <1>5 DEF ResumeDisplay, StateOnResume, DisplayInv, Dark
<1>6. CASE Request \/ LedSwitch \/ ShowInfoCopy \/ LedTask \/ UNCHANGED vars
  <2>1. UNCHANGED dispVars
    BY <1>6 DEF Request, DisplayOn, DisplayOff, ShowInfoCheck, LedCommand, LedSwitch,
                ShowInfoCopy, LedTask, LedReadColor, LedClamp, LedSet, LedClear, vars
  <2> QED
    BY <2>1
<1> QED
  BY <1>1, <1>2, <1>3, <1>4, <1>5, <1>6
     DEF Next, DisplayTask, CliContinue, ClockContinue, Callers

(* Whatever app_display_on and vTaskResume meet, the state the display     *)
(* task goes on with fits the high voltage.                                *)
THEOREM VoltageIsRight == Spec => []VoltageFollowsState
<1>1. Init => VoltageInv
  BY DEF Init, VoltageInv, VoltageFollowsState
<1>2. VoltageInv => VoltageFollowsState
  BY DEF VoltageInv
<1> QED
  BY <1>1, <1>2, NextVoltageInv, DisplayInvariance, PTL DEF Spec

=============================================================================
