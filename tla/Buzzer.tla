-------------------------------- MODULE Buzzer --------------------------------
(***************************************************************************)
(* app_buz.c and its caller integer_time_beep of app_time.c: the clock     *)
(* task adds the strokes of the hour to warning_times and the buzzer task  *)
(* counts it down, one beep at a time.  Neither protects it, and the two   *)
(* tasks are time sliced: += and -- are each a read and a later write.     *)
(***************************************************************************)
EXTENDS Integers

CONSTANT Word   \* the values of a U32: 2^32 in the code

ASSUME WordAssumption == Word \in Nat /\ Word > 12

VARIABLES
    warning_times,
    buzPc,      \* the buzzer task: "idle" is its loop's test and the 100 ms wait
    buzReg,     \* the value its -- has read, 0 between two
    addReg,     \* the value the clock task's += has read
    adding,     \* what it adds, 0 between two
    owed,       \* history: strokes of the hours that came, less the beeps
    mixed       \* history: += and --, or the task's start, have met

buzTaskVars == <<buzPc, buzReg>>
addVars     == <<addReg, adding>>
buzzerVars  == <<warning_times, buzTaskVars, addVars, owed, mixed>>

BuzzerTypeOK ==
    /\ warning_times \in 0 .. Word - 1
    /\ buzPc \in {"start", "idle", "on", "off", "write"}
    /\ buzReg \in 0 .. Word - 1
    /\ addReg \in 0 .. Word - 1
    /\ adding \in 0 .. 12
    /\ owed \in Int
    /\ mixed \in BOOLEAN

BuzzerInit ==
    /\ warning_times = 0
    /\ buzPc = "start"
    /\ buzReg = 0
    /\ addReg = 0
    /\ adding = 0
    /\ owed = 0
    /\ mixed = FALSE

-----------------------------------------------------------------------------
(* The clock task.                                                         *)

(* Mutant: noon is taken for the afternoon.                                *)
beep_times_noon(hour) == IF hour >= 12 THEN hour - 12 ELSE IF hour > 8 THEN hour ELSE 0

beep_times(hour) == IF hour > 12 THEN hour - 12 ELSE IF hour > 8 THEN hour ELSE 0

(* What a clock that strikes from nine in the morning on should strike.    *)
Strokes(hour) == IF hour \in 9 .. 23 THEN ((hour - 1) % 12) + 1 ELSE 0

(* Bound: the beeps that wait fit a U32.                                   *)
BacklogFits == warning_times + 12 < Word

(* integer_time_beep, which read h; the hour that came is hour.            *)
integer_time_beep(h, hour) ==
    /\ adding = 0
    /\ BacklogFits
    /\ adding' = beep_times(h)
    /\ addReg' = IF beep_times(h) = 0 THEN addReg ELSE warning_times
    /\ owed' = owed + Strokes(hour)
    /\ mixed' = (mixed \/ (beep_times(h) # 0 /\ buzPc \in {"start", "write"}))
    /\ UNCHANGED <<warning_times, buzTaskVars>>

set_times ==
    /\ adding # 0
    /\ warning_times' = (addReg + adding) % Word
    /\ adding' = 0
    /\ addReg' = 0
    /\ UNCHANGED <<buzTaskVars, owed, mixed>>

-----------------------------------------------------------------------------
(* The buzzer task.                                                        *)

BuzzerStart ==
    /\ buzPc = "start"
    /\ warning_times' = 0
    /\ buzPc' = "idle"
    /\ UNCHANGED <<buzReg, addVars, owed, mixed>>

(* Mutant: the loop tests at its end.                                      *)
BeepUntested ==
    /\ buzPc = "idle"
    /\ buzPc' = "on"
    /\ UNCHANGED <<warning_times, buzReg, addVars, owed, mixed>>

(* Mutant: the last stroke is left.                                        *)
BeepButLast ==
    /\ buzPc = "idle"
    /\ warning_times > 1
    /\ buzPc' = "on"
    /\ UNCHANGED <<warning_times, buzReg, addVars, owed, mixed>>

Beep ==
    /\ buzPc = "idle"
    /\ warning_times > 0
    /\ buzPc' = "on"
    /\ UNCHANGED <<warning_times, buzReg, addVars, owed, mixed>>

(* 500 ms later.                                                           *)
BeepEnds ==
    /\ buzPc = "on"
    /\ buzPc' = "off"
    /\ owed' = owed - 1
    /\ UNCHANGED <<warning_times, buzReg, addVars, mixed>>

(* 500 ms later: warning_times--.                                          *)
CountRead ==
    /\ buzPc = "off"
    /\ buzReg' = warning_times
    /\ buzPc' = "write"
    /\ mixed' = (mixed \/ adding # 0)
    /\ UNCHANGED <<warning_times, addVars, owed>>

CountWrite ==
    /\ buzPc = "write"
    /\ warning_times' = (buzReg - 1) % Word
    /\ buzReg' = 0
    /\ buzPc' = "idle"
    /\ UNCHANGED <<addVars, owed, mixed>>

BuzzerTask == BuzzerStart \/ Beep \/ BeepEnds \/ CountRead \/ CountWrite

-----------------------------------------------------------------------------
(* Properties.                                                             *)

(* Between two hours, whatever += and -- read and write, the count never   *)
(* passes below 0, from where it would beep for four billion seconds.      *)
NeverUnderflows == buzPc = "write" => buzReg > 0

(* A buzzer that falls silent has sounded the strokes of every hour that   *)
(* came, no more and no less, unless += and -- have met.                   *)
StrokesAreExact == buzPc = "idle" /\ warning_times = 0 /\ adding = 0 /\ ~mixed => owed = 0
=============================================================================
