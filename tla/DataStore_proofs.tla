-------------------------- MODULE DataStore_proofs --------------------------
(***************************************************************************)
(* Proofs about DataStore for every set of show times and colours.         *)
(*                                                                         *)
(* The inductive invariant joins the type invariant, the two invariants of *)
(* DataStore and the fact that a power loss resets the storage task: the   *)
(* last program step makes the page equal to mData only because the half   *)
(* words programmed before it still are, and that survives every step only *)
(* because no other task runs in the critical section.                     *)
(***************************************************************************)
EXTENDS DataStore, TLAPS

OffIsReset == power = "off" => stPc = "take"

IInv == TypeOK /\ OffIsReset /\ PageIsPrefixOfRecord /\ NoLostUpdate

-----------------------------------------------------------------------------
(* Every state the boot starts from satisfies the inductive invariant.     *)
LEMMA InitIInv == Init => IInv
  BY DEF Init, IInv, TypeOK, OffIsReset, PageIsPrefixOfRecord, NoLostUpdate,
         Record, Value, HalfWords, FactoryPage, Saving, SaveOwed, ShowOn

(* Every step of a task, and every loss of power, keeps the variables in   *)
(* their types: the storage task's index never leaves the record.          *)
LEMMA NextTypeOK == TypeOK /\ [Next]_vars => TypeOK'
<1> SUFFICES ASSUME TypeOK, [Next]_vars PROVE TypeOK'
  OBVIOUS
<1> USE DEF TypeOK, Record, Value, HalfWords
<1>1. ASSUME NEW on \in Times, NEW off \in Times, WriteShowon(on, off) PROVE TypeOK'
  BY <1>1 DEF WriteShowon, CliRuns, memVars, semVars, cliVars, stVars, ShowOn
<1>2. CASE WriteShowoff
  BY <1>2 DEF WriteShowoff, CliRuns, memVars, semVars, cliVars, stVars, ShowOff
<1>3. ASSUME NEW color \in Colors, WriteLedColor(color) PROVE TypeOK'
  BY <1>3 DEF WriteLedColor, CliRuns, memVars, semVars, cliVars, stVars, LedLow, LedHigh
<1>4. CASE GiveDataSync
  BY <1>4 DEF GiveDataSync, CliRuns, memVars, semVars, cliVars, stVars
<1>5. CASE TakeDataSync
  BY <1>5 DEF TakeDataSync, StRuns, memVars, semVars, cliVars, stVars
<1>6. CASE StartErase
  BY <1>6 DEF StartErase, StRuns, memVars, semVars, cliVars, stVars
<1>7. CASE EraseDone
  BY <1>7 DEF EraseDone, StRuns, memVars, semVars, cliVars, stVars, ShowOn
<1>8. CASE ProgramHalfWord
  BY <1>8 DEF ProgramHalfWord, StRuns, memVars, semVars, cliVars, stVars, ShowOn, LedHigh, LastHalfWord
<1>9. CASE GoDown
  BY <1>9 DEF GoDown, memVars, semVars, cliVars, stVars, ShowOn
<1>10. CASE Boot
  BY <1>10 DEF Boot, memVars, semVars, cliVars, stVars
<1>11. CASE UNCHANGED vars
  BY <1>11 DEF vars, memVars, semVars, cliVars, stVars
<1> QED
  BY <1>1, <1>2, <1>3, <1>4, <1>5, <1>6, <1>7, <1>8, <1>9, <1>10, <1>11
     DEF Next, CliWrite, CliContinue, Storage, PowerLoss, RebootCommand

(* The strengthening is kept by every step.                                *)
LEMMA NextIInv == IInv /\ [Next]_vars => IInv'
<1> SUFFICES ASSUME IInv, [Next]_vars PROVE IInv'
  OBVIOUS
<1>0. TypeOK'
  BY NextTypeOK DEF IInv
<1> DEFINE Rest == OffIsReset /\ PageIsPrefixOfRecord /\ NoLostUpdate
<1> SUFFICES Rest'
  BY <1>0 DEF IInv
<1> USE DEF IInv, OffIsReset, PageIsPrefixOfRecord, NoLostUpdate, Saving, SaveOwed,
            HalfWords, memVars, semVars, cliVars, stVars
<1>1. ASSUME NEW on \in Times, NEW off \in Times, WriteShowon(on, off) PROVE Rest'
  BY <1>1 DEF WriteShowon, CliRuns, InCritical
<1>2. CASE WriteShowoff
  BY <1>2 DEF WriteShowoff, CliRuns, InCritical
<1>3. ASSUME NEW color \in Colors, WriteLedColor(color) PROVE Rest'
  BY <1>3 DEF WriteLedColor, CliRuns, InCritical
<1>4. CASE GiveDataSync
  BY <1>4 DEF GiveDataSync, CliRuns, InCritical
<1>5. CASE TakeDataSync
  BY <1>5 DEF TakeDataSync, StRuns
<1>6. CASE StartErase
  BY <1>6 DEF StartErase, StRuns
<1>7. CASE EraseDone
  BY <1>7 DEF EraseDone, StRuns, ShowOn
<1>8. CASE ProgramHalfWord
  <2>1. OffIsReset'
    BY <1>8 DEF ProgramHalfWord, StRuns
  <2>2. PageIsPrefixOfRecord'
    BY <1>8 DEF ProgramHalfWord, StRuns, TypeOK, Record, LedHigh, ShowOn, LastHalfWord
  <2>3. NoLostUpdate'
    <3>1. CASE stIndex = LedHigh
      <4>1. \A h \in HalfWords : flash'[h] = mData'[h]
        BY <1>8, <3>1 DEF ProgramHalfWord, StRuns, TypeOK, Record, LedHigh, LastHalfWord
      <4> QED
        BY <4>1, <1>0, <1>8, <3>1 DEF ProgramHalfWord, LastHalfWord, TypeOK, Record
    <3>2. CASE stIndex # LedHigh
      BY <1>8, <3>2 DEF ProgramHalfWord, StRuns, LastHalfWord
    <3> QED
      BY <3>1, <3>2
  <2> QED
    BY <2>1, <2>2, <2>3
<1>9. CASE GoDown
  BY <1>9 DEF GoDown
<1>10. CASE Boot
  BY <1>10 DEF Boot
<1>11. CASE UNCHANGED vars
  BY <1>11 DEF vars
<1> QED
  BY <1>1, <1>2, <1>3, <1>4, <1>5, <1>6, <1>7, <1>8, <1>9, <1>10, <1>11
     DEF Next, CliWrite, CliContinue, Storage, PowerLoss, RebootCommand

(* The inductive invariant holds of every reachable state.                 *)
LEMMA Invariance == Spec => []IInv
<1>1. Init => IInv
  BY InitIInv
<1>2. IInv /\ [Next]_vars => IInv'
  BY NextIInv
<1> QED
  BY <1>1, <1>2, PTL DEF Spec

-----------------------------------------------------------------------------
(* Every variable of the settings store keeps its type.                    *)
THEOREM TypeCorrect == Spec => []TypeOK
<1>1. IInv => TypeOK
  BY DEF IInv
<1> QED
  BY <1>1, Invariance, PTL

(* app_data_store_task never goes to sleep on a record older than mData:   *)
(* no command's write is lost, whatever the interleaving.                  *)
THEOREM NothingIsLost == Spec => []NoLostUpdate
<1>1. IInv => NoLostUpdate
  BY DEF IInv
<1> QED
  BY <1>1, Invariance, PTL

(* The page never mixes two versions of mData while it is programmed.      *)
THEOREM PageIsConsistent == Spec => []PageIsPrefixOfRecord
<1>1. IInv => PageIsPrefixOfRecord
  BY DEF IInv
<1> QED
  BY <1>1, Invariance, PTL

(* A half word of the page only goes from erased to programmed or back, as *)
(* the flash requires: no step programs over an old value.                 *)
THEOREM NeverOverprogrammed == Spec => NoOverprogramming
<1> DEFINE Step == \A h \in HalfWords : flash'[h] # flash[h] => Erased \in {flash[h], flash'[h]}
<1>1. ASSUME IInv, [Next]_vars PROVE [Step]_vars
  <2> USE DEF memVars
  <2>1. CASE EraseDone
    BY <2>1 DEF EraseDone
  <2>2. CASE ProgramHalfWord
    BY <1>1, <2>2 DEF ProgramHalfWord, StRuns, IInv, TypeOK, Record, PageIsPrefixOfRecord
  <2>3. CASE GoDown
    BY <2>3 DEF GoDown
  <2>4. CASE UNCHANGED flash
    BY <2>4
  <2> QED
    BY <1>1, <2>1, <2>2, <2>3, <2>4
       DEF Next, CliWrite, CliContinue, Storage, PowerLoss, RebootCommand, WriteShowon,
           WriteShowoff, WriteLedColor, GiveDataSync, TakeDataSync, StartErase, Boot, vars
<1> QED
  BY <1>1, Invariance, PTL DEF Spec, NoOverprogramming

-----------------------------------------------------------------------------
(* The storage component implements the safety part of PersistentRecord:   *)
(* each of its steps is a step of the abstract record or leaves it alone.  *)
LEMMA InitRefines == Init => Promise!AbsInit
  BY DEF Init, Promise!AbsInit, FactoryPage, Record, Value, HalfWords, Saving, SaveOwed

LEMMA StepRefines == IInv /\ IInv' /\ [Next]_vars => [Promise!AbsNext]_Promise!absVars
<1> SUFFICES ASSUME IInv, IInv', [Next]_vars
             PROVE  Promise!AbsNext \/ UNCHANGED Promise!absVars
  OBVIOUS
<1> USE BrokenAssumption DEF Promise!AbsNext, Promise!absVars, Saving, SaveOwed,
        memVars, semVars, cliVars, stVars
<1>t. /\ mData \in Record /\ flash \in Record
      /\ mData' \in Record /\ flash' \in Record
  BY DEF IInv, TypeOK
<1>1. ASSUME NEW on \in Times, NEW off \in Times, WriteShowon(on, off)
      PROVE  Promise!Change
  BY <1>1, <1>t DEF WriteShowon, CliRuns, InCritical, Promise!Change
<1>2. CASE WriteShowoff
  BY <1>2, <1>t DEF WriteShowoff, CliRuns, InCritical, Promise!Change
<1>3. ASSUME NEW color \in Colors, WriteLedColor(color)
      PROVE  Promise!Change
  BY <1>3, <1>t DEF WriteLedColor, CliRuns, InCritical, Promise!Change
<1>4. CASE GiveDataSync
  BY <1>4 DEF GiveDataSync, CliRuns
<1>5. CASE TakeDataSync
  BY <1>5 DEF TakeDataSync, StRuns
<1>6. CASE StartErase
  <2>1. Promise!BeginSave
    BY <1>6, <1>t DEF StartErase, StRuns, Promise!BeginSave
  <2> QED
    BY <2>1
<1>7. CASE EraseDone
  BY <1>7 DEF EraseDone, StRuns
<1>8. CASE ProgramHalfWord
  <2>1. CASE stIndex = LastHalfWord
    <3>1. flash' = mData
      <4>1. \A h \in HalfWords : flash'[h] = mData[h]
        BY <1>8, <2>1 DEF ProgramHalfWord, StRuns, IInv, PageIsPrefixOfRecord, TypeOK,
                          Record, HalfWords, LedHigh, LastHalfWord
      <4> QED
        BY <4>1, <1>t DEF Record
    <3>2. Promise!EndSave
      BY <1>8, <2>1, <3>1, <1>t DEF ProgramHalfWord, StRuns, Promise!EndSave
    <3> QED
      BY <3>2
  <2>2. CASE stIndex # LastHalfWord
    BY <1>8, <2>2 DEF ProgramHalfWord, StRuns
  <2> QED
    BY <2>1, <2>2
<1>9. ASSUME GoDown, power = "on" PROVE Promise!PowerCut
  <2>1. CASE Saving
    BY <1>9, <1>t, <2>1 DEF GoDown, Promise!PowerCut
  <2>2. CASE ~Saving
    <3>1. flash' = flash
      BY <1>9, <1>t, <2>2 DEF GoDown, Record
    <3> QED
      BY <1>9, <1>t, <2>2, <3>1 DEF GoDown, Promise!PowerCut
  <2> QED
    BY <2>1, <2>2
<1>10. CASE Boot
  BY <1>10, <1>t DEF Boot, IInv, OffIsReset, Promise!Restart
<1>11. CASE UNCHANGED vars
  BY <1>11 DEF vars
<1> QED
  BY <1>1, <1>2, <1>3, <1>4, <1>5, <1>6, <1>7, <1>8, <1>9, <1>10, <1>11
     DEF Next, CliWrite, CliContinue, Storage, PowerLoss, RebootCommand, CliRuns

THEOREM ImplementsPromise == Spec => Promise!AbsSafety
<1>1. Init => Promise!AbsInit
  BY InitRefines
<1>2. IInv /\ IInv' /\ [Next]_vars => [Promise!AbsNext]_Promise!absVars
  BY StepRefines
<1> QED
  BY <1>1, <1>2, Invariance, PTL DEF Spec, Promise!AbsSafety

=============================================================================
