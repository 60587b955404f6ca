-------------------------- MODULE PersistentRecord --------------------------
(***************************************************************************)
(* What the storage component promises to the rest of the clock, without   *)
(* its mutex, its tasks or the layout of the flash page: a record in RAM   *)
(* that survives a restart through a copy in ROM.  A save is not atomic    *)
(* (the page is Broken between its erase and its last program operation),  *)
(* but a change is never forgotten: it stays pending until a save that     *)
(* began after it.                                                         *)
(***************************************************************************)
CONSTANTS
    Record,         \* every value the record can take
    Broken          \* the page while it is being rewritten

VARIABLES
    up,             \* is the processor running
    ram,            \* the record the tasks read and write
    rom,            \* the record in flash, or Broken
    pending         \* a change has not been taken up by a save yet

absVars == <<up, ram, rom, pending>>

AbsInit ==
    /\ up = TRUE
    /\ rom \in Record
    /\ ram = rom
    /\ pending = FALSE

Change ==
    /\ up
    /\ ram' \in Record
    /\ pending' = TRUE
    /\ UNCHANGED <<up, rom>>

(* Changes made from here on may or may not be part of the save.           *)
BeginSave ==
    /\ up
    /\ rom # Broken
    /\ rom' = Broken
    /\ pending' \in {FALSE, pending}
    /\ UNCHANGED <<up, ram>>

EndSave ==
    /\ up
    /\ rom = Broken
    /\ rom' = ram
    /\ UNCHANGED <<up, ram, pending>>

PowerCut ==
    /\ up
    /\ up' = FALSE
    /\ IF rom = Broken THEN rom' \in Record ELSE rom' = rom
    /\ pending' = FALSE
    /\ UNCHANGED ram

Restart ==
    /\ ~up
    /\ up' = TRUE
    /\ ram' = rom
    /\ UNCHANGED <<rom, pending>>

AbsNext == Change \/ BeginSave \/ EndSave \/ PowerCut \/ Restart

AbsSafety == AbsInit /\ [][AbsNext]_absVars

AbsSpec == AbsSafety /\ []<>(rom = ram)

=============================================================================
