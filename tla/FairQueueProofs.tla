-------------------------- MODULE FairQueueProofs --------------------------
(***************************************************************************)
(* FairQueue keeps its floor below every queued key, for any set of        *)
(* processes and any set of keys.                                          *)
(***************************************************************************)
EXTENDS FairQueue, TLAPS

\* A step keeps the type of the variables and the floor below the keys.
LEMMA FloorInductive ==
  ASSUME Keys \subseteq Nat, 0 \in Keys, TypeOK, FloorBelowKeys, [Next]_vars
  PROVE  TypeOK' /\ FloorBelowKeys'
<1> USE DEF TypeOK, FloorBelowKeys
<1>1. ASSUME NEW p \in Procs, NEW k \in Keys, Enqueue(p, k) PROVE TypeOK' /\ FloorBelowKeys'
  BY <1>1 DEF Enqueue
<1>2. ASSUME NEW p \in Procs, Take(p) PROVE TypeOK' /\ FloorBelowKeys'
  BY <1>2 DEF Take
<1>3. ASSUME NEW f \in Keys, Advance(f) PROVE TypeOK' /\ FloorBelowKeys'
  BY <1>3 DEF Advance
<1>4. CASE UNCHANGED vars
  BY <1>4 DEF vars
<1> QED
  BY <1>1, <1>2, <1>3, <1>4 DEF Next

(***************************************************************************)
(* No process is ever queued below min_vruntime: with the refinement that  *)
(* Scheduler's run checks, this holds of the keys in the scheduler's tree. *)
(***************************************************************************)
THEOREM QueueFloor ==
  ASSUME Keys \subseteq Nat, 0 \in Keys
  PROVE  Spec => []FloorBelowKeys
<1>1. Init => TypeOK /\ FloorBelowKeys
  BY DEF Init, TypeOK, FloorBelowKeys
<1>2. TypeOK /\ FloorBelowKeys /\ [Next]_vars => TypeOK' /\ FloorBelowKeys'
  BY FloorInductive
<1> QED
  BY <1>1, <1>2, PTL DEF Spec
=============================================================================
