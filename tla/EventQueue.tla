----------------------------- MODULE EventQueue -----------------------------
(***************************************************************************)
(* The global event queue: producers push from interrupt handlers, one     *)
(* consumer polls it or blocks in event_wait().                            *)
(*                                                                         *)
(* event_wait() polls with interrupts masked, restores them, and halts.    *)
(* With interrupts enabled in the caller an event may arrive between the   *)
(* poll and the HLT, and then only the next interrupt ends the halt; with  *)
(* interrupts disabled STI takes effect after HLT has begun, so the window *)
(* does not exist.                                                         *)
(***************************************************************************)
EXTENDS Ring

CONSTANTS Events,            \* the events
          EVENT_QUEUE_SIZE

ASSUME QueueAssumption == EVENT_QUEUE_SIZE \in Nat \ {0}

VARIABLES queue,      \* g_event_queue
          delivered,  \* the consumer's event
          pc,         \* "user", or inside event_wait(): "poll", "polled", "halted"
          if_flag     \* the consumer's interrupt flag

vars == <<queue, delivered, pc, if_flag>>

Init ==
  /\ \E e \in Events : queue = EmptyRing(EVENT_QUEUE_SIZE, e) /\ delivered = e
  /\ pc = "user"
  /\ if_flag \in BOOLEAN

\* STI takes effect before HLT has begun.
InterruptibleBug == if_flag \/ pc \in {"polled", "halted"}

\* Interrupts reach the CPU while the consumer runs with them enabled, and in any halt.
Interruptible == if_flag \/ pc = "halted"

\* The halt is repeated without another poll.
ResumeBug == IF pc = "halted" THEN "polled" ELSE pc

\* Any interrupt ends a halt.
Resume == IF pc = "halted" THEN "poll" ELSE pc

\* An interrupt whose handler calls event_push().
EventPush(e) ==
  /\ Interruptible
  /\ queue' = Push(queue, EVENT_QUEUE_SIZE, e)
  /\ pc' = Resume
  /\ UNCHANGED <<delivered, if_flag>>

\* An interrupt that pushes nothing (the timer).
TimerInterrupt ==
  /\ Interruptible
  /\ pc' = Resume
  /\ UNCHANGED <<queue, delivered, if_flag>>

\* event_poll(); the consumer's event and the queue are unchanged when it is empty.
EventPoll ==
  IF queue.count = 0 THEN UNCHANGED <<queue, delivered>>
  ELSE delivered' = First(queue) /\ queue' = Pop(queue, EVENT_QUEUE_SIZE)

Poll == pc = "user" /\ EventPoll /\ UNCHANGED <<pc, if_flag>>

EventWait == pc = "user" /\ pc' = "poll" /\ UNCHANGED <<queue, delivered, if_flag>>

\* One test of event_wait()'s loop.
WaitPoll ==
  /\ pc = "poll"
  /\ EventPoll
  /\ pc' = IF queue.count = 0 THEN "polled" ELSE "user"
  /\ UNCHANGED if_flag

\* hlt_wait_preserve_if().
Halt == pc = "polled" /\ pc' = "halted" /\ UNCHANGED <<queue, delivered, if_flag>>

EventClear ==
  /\ pc = "user"
  /\ queue' = Reset(queue)
  /\ UNCHANGED <<delivered, pc, if_flag>>

\* The consumer changes its interrupt flag outside the queue's routines.
SetFlag == pc = "user" /\ if_flag' = ~if_flag /\ UNCHANGED <<queue, delivered, pc>>

Next ==
  \/ \E e \in Events : EventPush(e)
  \/ TimerInterrupt \/ Poll \/ EventWait \/ WaitPoll \/ Halt \/ EventClear \/ SetFlag

Spec == Init /\ [][Next]_vars

\* The timer keeps ticking, and a consumer inside event_wait() keeps executing.
Fairness == WF_vars(TimerInterrupt) /\ WF_vars(WaitPoll) /\ WF_vars(Halt)
FairSpec == Spec /\ Fairness
-----------------------------------------------------------------------------
\* The type of every variable; indices and count are within the buffer.
TypeOK ==
  /\ queue \in RingType(EVENT_QUEUE_SIZE, Events)
  /\ delivered \in Events
  /\ pc \in {"user", "poll", "polled", "halted"}
  /\ if_flag \in BOOLEAN

\* The write index is where the read index and the count say it is, whatever was
\* dropped at a full queue, wrapped or cleared: event_push() never overwrites an event
\* that has not been read and event_poll() never reads a slot that was not written.
IndicesAgree == queue \in Rings(EVENT_QUEUE_SIZE, Events)

\* A consumer that called event_wait() with interrupts disabled never goes to sleep while
\* an event is queued (STI; HLT cannot lose an interrupt).
NoHaltWithEvent == pc \in {"polled", "halted"} /\ ~if_flag => queue.count = 0

\* event_wait() returns once an event is queued, even if that event slipped in between
\* its poll and its HLT.
WaitReturns == (pc # "user" /\ queue.count > 0) ~> pc = "user"

\* The ring is a bounded first-in first-out queue.
Fifo == INSTANCE BoundedFifo WITH Items <- Events, Capacity <- EVENT_QUEUE_SIZE,
                                  fifo <- Contents(queue, EVENT_QUEUE_SIZE)
ImplementsFifo == Fifo!Spec
=============================================================================
