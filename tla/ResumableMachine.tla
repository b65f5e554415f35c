----------------------------- MODULE ResumableMachine -----------------------------
(***************************************************************************)
(* What suspending and resuming promises: a machine that is restored from  *)
(* a saved copy is the machine that was saved.                             *)
(***************************************************************************)
CONSTANT Off     (* no machine, no copy                                    *)

VARIABLES
  machine,       (* all of a running machine's state, or Off               *)
  saved          (* the last copy made, or Off                             *)

Init == machine = Off /\ saved = Off

Boot == machine = Off /\ saved = Off /\ machine' # Off /\ UNCHANGED saved

Run == machine # Off /\ machine' # Off /\ UNCHANGED saved

Save == machine # Off /\ saved' = machine /\ UNCHANGED machine

Halt == saved # Off /\ machine' = Off /\ UNCHANGED saved

Restore == machine = Off /\ saved # Off /\ machine' = saved /\ UNCHANGED saved

Next == Boot \/ Run \/ Save \/ Halt \/ Restore

Spec == Init /\ [][Next]_<<machine, saved>>
================================================================================
