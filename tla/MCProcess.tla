------------------------------ MODULE MCProcess ------------------------------
(***************************************************************************)
(* Small instances of Process.                                             *)
(***************************************************************************)
EXTENDS Process, TLC

\* Any child, and one particular PID.
MCTargets == {-1, 3}

\* The addresses other than those of PID 0 and of init are interchangeable.
Symmetry == Permutations(Procs \ {Idle, InitProc})
=============================================================================
