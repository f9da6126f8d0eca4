---------------------------- MODULE BoundedFifo ----------------------------
(***************************************************************************)
(* What the event queue promises its users: a first-in first-out queue     *)
(* that keeps at most Capacity events, loses only events that arrive while *)
(* it is full, and can be emptied.                                         *)
(***************************************************************************)
EXTENDS Naturals, Sequences

CONSTANTS Items, Capacity

VARIABLES fifo,      \* the queued items, oldest first
          delivered  \* the item most recently handed out

vars == <<fifo, delivered>>

Init == fifo = <<>> /\ delivered \in Items

Put(x) == Len(fifo) < Capacity /\ fifo' = Append(fifo, x) /\ delivered' = delivered

Get == fifo # <<>> /\ delivered' = Head(fifo) /\ fifo' = Tail(fifo)

Clear == fifo' = <<>> /\ delivered' = delivered

Next == Get \/ Clear \/ \E x \in Items : Put(x)

Spec == Init /\ [][Next]_vars
=============================================================================
