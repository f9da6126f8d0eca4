----------------------------- MODULE FairQueue -----------------------------
(***************************************************************************)
(* What the run queue promises: a process is queued at most once, under a  *)
(* key that is not below the floor (min_vruntime), and the one taken out   *)
(* always has a least key.                                                 *)
(***************************************************************************)
EXTENDS Integers

CONSTANTS Procs,
          Keys     \* virtual runtimes

VARIABLES queued,  \* the processes in the queue
          key,     \* the key of each queued process
          floor    \* no process is queued below it

vars == <<queued, key, floor>>

Least(p) == p \in queued /\ \A q \in queued : key[p] <= key[q]

Init ==
  /\ queued \in SUBSET Procs
  /\ key = [p \in Procs |-> 0]
  /\ floor = 0

\* scheduler_add_process() and requeue().
Enqueue(p, k) ==
  /\ p \notin queued
  /\ k >= floor
  /\ queued' = queued \cup {p}
  /\ key' = [key EXCEPT ![p] = k]
  /\ floor' = floor

\* pick_next().
Take(p) ==
  /\ Least(p)
  /\ queued' = queued \ {p}
  /\ key' = [key EXCEPT ![p] = 0]
  /\ floor' = floor

\* update_curr(): min_vruntime follows the leftmost key.
Advance(f) ==
  /\ f > floor
  /\ \A p \in queued : f <= key[p]
  /\ floor' = f
  /\ UNCHANGED <<queued, key>>

Next ==
  \/ \E p \in Procs, k \in Keys : Enqueue(p, k)
  \/ \E p \in Procs : Take(p)
  \/ \E f \in Keys : Advance(f)

Spec == Init /\ [][Next]_vars

\* The type of every variable.
TypeOK ==
  /\ queued \subseteq Procs
  /\ key \in [Procs -> Keys]
  /\ floor \in Keys

\* No queued process has a key below the floor: a process that slept for long cannot
\* come back with an old, small vruntime and hold the CPU until it has caught up.
FloorBelowKeys == \A p \in queued : floor <= key[p]
=============================================================================
