------------------------------ MODULE DataStore ------------------------------
(***************************************************************************)
(* app_data.c: the settings of the clock (show-on time, show-off time, LED *)
(* colour) live in the RAM record mData and in one flash page.  The        *)
(* console task changes mData and gives dataSync; the storage task takes   *)
(* dataSync, erases the page and programs it again from mData.  Power may  *)
(* be lost between any two steps, or cut by the console's reboot command.  *)
(*                                                                         *)
(* The record is four half words, the unit in which the flash is           *)
(* programmed; a value of Times, Colors, Zero or Erased stands for 16 bits.*)
(***************************************************************************)
EXTENDS Integers

CONSTANTS
    Times,      \* show times a user may ask for
    Colors,     \* values of led_color after app_led_set_color clamped them
    Zero,       \* 0, the high half word of a stored led_color
    Erased,     \* 0xFFFF, what an erased half word reads as
    Broken      \* no record: the abstract page in the middle of a save

VARIABLES
    power,      \* "on" or "off"
    mData,      \* the RAM record: half word -> value
    flash,      \* the page at DATA_START_ADDRESS: half word -> value
    sem,        \* dataSync: 1 when it can be taken
    holder,     \* dataSync's pxMutexHolder
    cliPc,      \* the console task: next statement of the write in progress
    cliOff,     \* the console task: second argument of app_data_write_showtime
    stPc,       \* the storage task: next statement
    stIndex     \* the storage task: next half word to program

memVars == <<mData, flash>>
semVars == <<sem, holder>>
cliVars == <<cliPc, cliOff>>
stVars  == <<stPc, stIndex>>
vars    == <<power, memVars, semVars, cliVars, stVars>>

ShowOn  == 1
ShowOff == 2
LedLow  == 3
LedHigh == 4
HalfWords == 1 .. 4

Value  == Times \cup Colors \cup {Zero, Erased}
Record == [HalfWords -> Value]

ASSUME BrokenAssumption == Broken \notin Record

(* Mutant: the page is programmed without the critical section.            *)
NotCritical == FALSE

(* taskENTER_CRITICAL disables the tick: while the storage task programs   *)
(* the page no other task runs.                                            *)
InCritical == stPc = "program"
CliRuns(pc) == power = "on" /\ cliPc = pc /\ ~InCritical
StRuns(pc)  == power = "on" /\ stPc = pc

TypeOK ==
    /\ power \in {"on", "off"}
    /\ mData \in Record
    /\ flash \in Record
    /\ sem \in {0, 1}
    /\ holder \in {"none", "storage"}
    /\ cliPc \in {"idle", "showoff", "give"}
    /\ cliOff \in Value
    /\ stPc \in {"take", "erase", "erasing", "program"}
    /\ stIndex \in HalfWords

(* The page was erased, or was written by an earlier life of the program.  *)
FactoryPage == [h \in HalfWords |-> Erased]

(* app_data_init has run: the page is loaded, dataSync created and taken   *)
(* once before the scheduler starts, so that it has no holder.             *)
Init ==
    /\ power = "on"
    /\ flash = FactoryPage
    /\ mData = flash
    /\ sem = 0
    /\ holder = "none"
    /\ cliPc = "idle"
    /\ cliOff = Erased
    /\ stPc = "take"
    /\ stIndex = ShowOn

-----------------------------------------------------------------------------
(* The console task: setlcd and led.                                       *)

WriteShowon(on, off) ==
    /\ CliRuns("idle")
    /\ mData' = [mData EXCEPT ![ShowOn] = on]
    /\ cliOff' = off
    /\ cliPc' = "showoff"
    /\ UNCHANGED <<power, flash, semVars, stVars>>

(* Mutant: the write returns before its give.                              *)
WriteShowoffNoGive ==
    /\ CliRuns("showoff")
    /\ mData' = [mData EXCEPT ![ShowOff] = cliOff]
    /\ cliPc' = "idle"
    /\ UNCHANGED <<power, flash, semVars, cliOff, stVars>>

WriteShowoff ==
    /\ CliRuns("showoff")
    /\ mData' = [mData EXCEPT ![ShowOff] = cliOff]
    /\ cliPc' = "give"
    /\ UNCHANGED <<power, flash, semVars, cliOff, stVars>>

WriteLedColor(color) ==
    /\ CliRuns("idle")
    /\ mData' = [mData EXCEPT ![LedLow] = color, ![LedHigh] = Zero]
    /\ cliPc' = "give"
    /\ UNCHANGED <<power, flash, semVars, cliOff, stVars>>

(* Mutant: only a mutex that nobody holds can be given.                    *)
GiveFreeDataSync ==
    /\ CliRuns("give")
    /\ IF holder = "none"
       THEN sem' = 1 /\ holder' = "none"
       ELSE UNCHANGED semVars
    /\ cliPc' = "idle"
    /\ UNCHANGED <<power, memVars, cliOff, stVars>>

(* Giving a mutex that is available fails and is ignored; giving one that  *)
(* another task holds succeeds, for the kernel's assertion is compiled out.*)
GiveDataSync ==
    /\ CliRuns("give")
    /\ sem' = 1
    /\ holder' = "none"
    /\ cliPc' = "idle"
    /\ UNCHANGED <<power, memVars, cliOff, stVars>>

-----------------------------------------------------------------------------
(* The storage task.                                                       *)

TakeDataSync ==
    /\ StRuns("take")
    /\ ~InCritical
    /\ sem = 1
    /\ sem' = 0
    /\ holder' = "storage"
    /\ stPc' = "erase"
    /\ UNCHANGED <<power, memVars, cliVars, stIndex>>

StartErase ==
    /\ StRuns("erase")
    /\ stPc' = "erasing"
    /\ UNCHANGED <<power, memVars, semVars, cliVars, stIndex>>

(* Mutant: the page is programmed without an erase.                        *)
EraseSkipped ==
    /\ StRuns("erasing")
    /\ stPc' = "program"
    /\ stIndex' = ShowOn
    /\ UNCHANGED <<power, memVars, semVars, cliVars>>

EraseDone ==
    /\ StRuns("erasing")
    /\ flash' = [h \in HalfWords |-> Erased]
    /\ stPc' = "program"
    /\ stIndex' = ShowOn
    /\ UNCHANGED <<power, mData, semVars, cliVars>>

(* Mutant: the loop programs one half word too many.                       *)
LastOneMore == LedHigh + 1

LastHalfWord == LedHigh

ProgramHalfWord ==
    /\ StRuns("program")
    /\ flash' = [flash EXCEPT ![stIndex] = mData[stIndex]]
    /\ IF stIndex = LastHalfWord
       THEN stPc' = "take" /\ stIndex' = ShowOn
       ELSE stPc' = "program" /\ stIndex' = stIndex + 1
    /\ UNCHANGED <<power, mData, semVars, cliVars>>

-----------------------------------------------------------------------------
(* Power and reset.                                                        *)

(* An erase cut short leaves every half word old or erased; a half word    *)
(* is programmed or not.  RAM is undefined until the boot loads it.        *)
GoDown ==
    /\ power' = "off"
    /\ \E kept \in IF stPc = "erasing" THEN SUBSET HalfWords ELSE {HalfWords} :
           flash' = [h \in HalfWords |-> IF h \in kept THEN flash[h] ELSE Erased]
    /\ sem' = 0
    /\ holder' = "none"
    /\ cliPc' = "idle"
    /\ cliOff' = Erased
    /\ stPc' = "take"
    /\ stIndex' = ShowOn
    /\ UNCHANGED mData

PowerLoss == power = "on" /\ GoDown

RebootCommand == CliRuns("idle") /\ GoDown

(* Mutant: the boot does not load the page.                                *)
BootNoLoad ==
    /\ power = "off"
    /\ power' = "on"
    /\ UNCHANGED <<memVars, semVars, cliVars, stVars>>

(* app_data_init of the next boot.                                         *)
Boot ==
    /\ power = "off"
    /\ power' = "on"
    /\ mData' = flash
    /\ UNCHANGED <<flash, semVars, cliVars, stVars>>

-----------------------------------------------------------------------------
CliWrite ==
    \/ \E on, off \in Times : WriteShowon(on, off)
    \/ \E color \in Colors : WriteLedColor(color)

CliContinue == WriteShowoff \/ GiveDataSync

Storage == TakeDataSync \/ StartErase \/ EraseDone \/ ProgramHalfWord

Next == CliWrite \/ CliContinue \/ Storage \/ PowerLoss \/ RebootCommand \/ Boot

(* The console and the storage task have the same priority and are time    *)
(* sliced, and each blocks only where its action above is disabled; nobody *)
(* has to type a command, and power need not fail.                         *)
Fairness ==
    /\ WF_vars(CliContinue)
    /\ WF_vars(Storage)
    /\ WF_vars(Boot)

Spec == Init /\ [][Next]_vars /\ Fairness

-----------------------------------------------------------------------------
(* Properties.                                                             *)

Saving == stPc \in {"erasing", "program"}

(* A save is owed: dataSync can be taken, or the storage task has taken it *)
(* and not started the erase, or the console is between its first store    *)
(* and its give.                                                           *)
SaveOwed == sem = 1 \/ cliPc # "idle" \/ stPc = "erase"

(* No update is lost: whenever no save is running or owed, the page holds  *)
(* exactly what the tasks see in mData, although the console stores field  *)
(* by field, gives after its stores, may find dataSync already given, and  *)
(* may give while a save is running.                                       *)
NoLostUpdate ==
    power = "on" /\ ~Saving /\ ~SaveOwed => flash = mData

(* The page never mixes two versions of the record while it is programmed: *)
(* the half words already programmed are those of the current mData, the   *)
(* others are erased (app_data_store_task's critical section).             *)
PageIsPrefixOfRecord ==
    stPc = "program" =>
        \A h \in HalfWords : flash[h] = IF h < stIndex THEN mData[h] ELSE Erased

(* A change of one setting disturbs the page only through a whole save: a  *)
(* half word of the page goes from one value to another through Erased.    *)
NoOverprogramming ==
    [][\A h \in HalfWords : flash'[h] # flash[h] => Erased \in {flash[h], flash'[h]}]_vars

(* Every value a command leaves in a field of mData reaches the page,      *)
(* unless a later write or a restart replaces it in mData first.           *)
CommandReachesFlash ==
    \A h \in HalfWords, v \in Value :
        (power = "on" /\ mData[h] = v) ~> (flash[h] = v \/ mData[h] # v)

(* What the component promises: see PersistentRecord.                      *)
Promise == INSTANCE PersistentRecord WITH
    Record <- Record,
    Broken <- Broken,
    up <- power = "on",
    ram <- mData,
    rom <- IF Saving THEN Broken ELSE flash,
    pending <- SaveOwed

(* The storage component implements the persistent record.                 *)
ImplementsPersistentRecord == Promise!AbsSpec

=============================================================================
