---------------------------- MODULE MCScheduler ----------------------------
(***************************************************************************)
(* Small instances of Scheduler.                                           *)
(***************************************************************************)
EXTENDS Scheduler

\* The process queued at boot has nice 0, the others twice its weight.
Charges == [p \in Procs |-> IF p = InitProc THEN 4 ELSE 2]
=============================================================================
