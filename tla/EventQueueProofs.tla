-------------------------- MODULE EventQueueProofs --------------------------
(***************************************************************************)
(* For every queue size and every set of events: the event queue's indices *)
(* stay consistent, no halt loses an event when interrupts were disabled,  *)
(* and the ring implements a bounded first-in first-out queue.             *)
(***************************************************************************)
EXTENDS EventQueue, SequenceTheorems, TLAPS

-----------------------------------------------------------------------------
\* Ring arithmetic: the slot d places after slot i.
LEMMA Offset ==
  ASSUME NEW n \in Nat \ {0}, NEW i \in 0..(n - 1), NEW d \in 0..n
  PROVE  /\ Slot(i + d, n) = IF i + d < n THEN i + d ELSE i + d - n
         /\ Slot(i + d, n) \in 0..(n - 1)
<1>1. CASE i + d < n
  BY <1>1 DEF Slot
<1>2. CASE i + d >= n
  <2>1. i + d - n \in 0..(n - 1)
    BY <1>2
  <2>2. (i + d) % n = (i + d - n) % n
    BY <1>2
  <2> QED BY <1>2, <2>1, <2>2 DEF Slot
<1> QED BY <1>1, <1>2

\* The slots of a ring that is not full: the write slot is not one of those in use, and
\* advancing the write index and the count together keeps them in step.
WriteSlotFree(n, r, c, w) ==
  /\ Slot(w + 1, n) = Slot(r + (c + 1), n)
  /\ Slot(w + 1, n) \in 0..(n - 1)
  /\ \A i \in 1..c : Slot(r + i - 1, n) # w
  /\ Slot(r + (c + 1) - 1, n) = w

LEMMA PushSlots ==
  ASSUME NEW n \in Nat \ {0}, NEW r \in 0..(n - 1), NEW c \in 0..(n - 1),
         NEW w \in 0..(n - 1), w = Slot(r + c, n)
  PROVE  WriteSlotFree(n, r, c, w)
<1>0. c \in 0..n /\ 1 \in 0..n
  OBVIOUS
<1>1. w = IF r + c < n THEN r + c ELSE r + c - n
  BY <1>0, Offset
<1>2. Slot(w + 1, n) = (IF w + 1 < n THEN w + 1 ELSE w + 1 - n) /\ Slot(w + 1, n) \in 0..(n - 1)
  BY <1>0, Offset
<1>3. c + 1 \in 0..n
  OBVIOUS
<1>4. Slot(r + (c + 1), n) = IF r + (c + 1) < n THEN r + (c + 1) ELSE r + (c + 1) - n
  BY <1>3, Offset
<1>5. ASSUME NEW i \in 1..c PROVE Slot(r + i - 1, n) # w
  <2>1. i - 1 \in 0..n /\ r + i - 1 = r + (i - 1)
    OBVIOUS
  <2>2. Slot(r + (i - 1), n) = IF r + (i - 1) < n THEN r + (i - 1) ELSE r + (i - 1) - n
    BY <2>1, Offset
  <2> QED BY <1>1, <2>1, <2>2
<1>6. r + (c + 1) - 1 = r + c
  OBVIOUS
<1>7. Slot(w + 1, n) = Slot(r + (c + 1), n)
  BY <1>1, <1>2, <1>4
<1> QED BY <1>2, <1>5, <1>6, <1>7 DEF WriteSlotFree

\* The slots of a ring that is not empty, before and after the read index advances.
ReadSlotsShift(n, r, c, w, s) ==
  /\ s \in 0..(n - 1)
  /\ w = Slot(s + (c - 1), n)
  /\ \A i \in 1..(c - 1) : Slot(s + i - 1, n) = Slot(r + (i + 1) - 1, n)
  /\ Slot(r + 1 - 1, n) = r

LEMMA PopSlots ==
  ASSUME NEW n \in Nat \ {0}, NEW r \in 0..(n - 1), NEW c \in 1..n,
         NEW w \in 0..(n - 1), w = Slot(r + c, n), NEW s, s = Slot(r + 1, n)
  PROVE  ReadSlotsShift(n, r, c, w, s)
<1>0. c \in 0..n /\ 1 \in 0..n
  OBVIOUS
<1>1. w = IF r + c < n THEN r + c ELSE r + c - n
  BY <1>0, Offset
<1>2. s = (IF r + 1 < n THEN r + 1 ELSE r + 1 - n) /\ s \in 0..(n - 1)
  BY <1>0, Offset
<1>3. c - 1 \in 0..n
  OBVIOUS
<1>4. Slot(s + (c - 1), n) = IF s + (c - 1) < n THEN s + (c - 1) ELSE s + (c - 1) - n
  BY <1>2, <1>3, Offset
<1>5. ASSUME NEW i \in 1..(c - 1) PROVE Slot(s + i - 1, n) = Slot(r + (i + 1) - 1, n)
  <2>1. i - 1 \in 0..n /\ i \in 0..n /\ s + i - 1 = s + (i - 1) /\ r + (i + 1) - 1 = r + i
    BY <1>2
  <2>2. Slot(s + (i - 1), n) = IF s + (i - 1) < n THEN s + (i - 1) ELSE s + (i - 1) - n
    BY <1>2, <2>1, Offset
  <2>3. Slot(r + i, n) = IF r + i < n THEN r + i ELSE r + i - n
    BY <2>1, Offset
  <2>4. CASE r + 1 < n
    <3>1. s + (i - 1) = r + i
      BY <1>2, <2>4
    <3> QED BY <2>1, <3>1
  <2>5. CASE r + 1 = n
    BY <1>2, <2>1, <2>2, <2>3, <2>5
  <2> QED BY <2>4, <2>5
<1>6. Slot(r + 1 - 1, n) = r
  <2>1. r + 1 - 1 = r + 0 /\ 0 \in 0..n
    OBVIOUS
  <2>2. Slot(r + 0, n) = IF r + 0 < n THEN r + 0 ELSE r + 0 - n
    BY <2>1, Offset
  <2> QED BY <2>1, <2>2
<1>7. w = Slot(s + (c - 1), n)
  BY <1>1, <1>2, <1>4
<1> QED BY <1>2, <1>5, <1>6, <1>7 DEF ReadSlotsShift

-----------------------------------------------------------------------------
\* What membership in Rings says of the fields.
LEMMA RingFields ==
  ASSUME NEW n \in Nat \ {0}, NEW Items, NEW q \in Rings(n, Items)
  PROVE  /\ q.buf \in [0..(n - 1) -> Items]
         /\ q.r \in 0..(n - 1)
         /\ q.w \in 0..(n - 1)
         /\ q.count \in 0..n
         /\ q.w = Slot(q.r + q.count, n)
  BY DEF Rings, RingType

\* The elements of a ring form a sequence of that many items.
LEMMA ContentsIsSeq ==
  ASSUME NEW n \in Nat \ {0}, NEW Items, NEW q \in Rings(n, Items)
  PROVE  /\ Contents(q, n) \in Seq(Items)
         /\ Len(Contents(q, n)) = q.count
         /\ \A i \in 1..q.count : Contents(q, n)[i] = q.buf[Slot(q.r + i - 1, n)]
<1>1. /\ q.buf \in [0..(n - 1) -> Items] /\ q.r \in 0..(n - 1) /\ q.count \in Nat
  BY RingFields
<1>2. ASSUME NEW i \in 1..q.count PROVE Slot(q.r + i - 1, n) \in 0..(n - 1)
  <2>1. i - 1 \in 0..n /\ q.r + i - 1 = q.r + (i - 1)
    BY <1>1, RingFields
  <2> QED BY <1>1, <2>1, Offset
<1>3. Contents(q, n) \in [1..q.count -> Items]
  BY <1>1, <1>2 DEF Contents
<1>4. Contents(q, n) \in Seq(Items)
  BY <1>1, <1>3, SeqDef
<1>5. DOMAIN Contents(q, n) = 1..q.count
  BY <1>3
<1>6. Len(Contents(q, n)) = q.count
  BY <1>1, <1>4, <1>5, LenProperties
<1> QED BY <1>4, <1>6 DEF Contents

\* A push into a ring that is not full keeps the indices consistent and appends.
LEMMA PushAppends ==
  ASSUME NEW n \in Nat \ {0}, NEW Items, NEW q \in Rings(n, Items), NEW x \in Items,
         q.count < n
  PROVE  /\ Push(q, n, x) \in Rings(n, Items)
         /\ Contents(Push(q, n, x), n) = Append(Contents(q, n), x)
<1> DEFINE p == Push(q, n, x)
<1>1. /\ q.buf \in [0..(n - 1) -> Items] /\ q.r \in 0..(n - 1) /\ q.w \in 0..(n - 1)
      /\ q.count \in 0..(n - 1) /\ q.w = Slot(q.r + q.count, n)
  BY RingFields
<1>2. /\ p.buf = [q.buf EXCEPT ![q.w] = x]
      /\ p.r = q.r
      /\ p.w = Slot(q.w + 1, n)
      /\ p.count = q.count + 1
      /\ p = [buf |-> p.buf, r |-> p.r, w |-> p.w, count |-> p.count]
  <2>1. ~(q.count >= n)
    BY <1>1
  <2>2. p = [buf |-> [q.buf EXCEPT ![q.w] = x], r |-> q.r, w |-> Slot(q.w + 1, n),
             count |-> q.count + 1]
    BY <2>1 DEF Push
  <2> QED BY <2>2
<1>3. /\ Slot(q.w + 1, n) = Slot(q.r + (q.count + 1), n)
      /\ Slot(q.w + 1, n) \in 0..(n - 1)
      /\ \A i \in 1..q.count : Slot(q.r + i - 1, n) # q.w
      /\ Slot(q.r + (q.count + 1) - 1, n) = q.w
  <2>1. WriteSlotFree(n, q.r, q.count, q.w)
    BY <1>1, PushSlots
  <2> QED BY <2>1 DEF WriteSlotFree
<1> HIDE DEF p
<1>4. p \in Rings(n, Items)
  <2>1. p.buf \in [0..(n - 1) -> Items]
    BY <1>1, <1>2
  <2>2. p.r \in 0..(n - 1) /\ p.w \in 0..(n - 1) /\ p.count \in 0..n
    BY <1>1, <1>2, <1>3
  <2>3. p.w = Slot(p.r + p.count, n)
    BY <1>2, <1>3
  <2>4. p \in RingType(n, Items)
    BY <1>2, <2>1, <2>2 DEF RingType
  <2> QED BY <2>3, <2>4 DEF Rings
<1>5. Contents(p, n) = Append(Contents(q, n), x)
  <2>1. /\ Contents(p, n) \in Seq(Items) /\ Len(Contents(p, n)) = q.count + 1
        /\ \A i \in 1..(q.count + 1) : Contents(p, n)[i] = p.buf[Slot(q.r + i - 1, n)]
    <3>1. /\ Contents(p, n) \in Seq(Items) /\ Len(Contents(p, n)) = p.count
          /\ \A i \in 1..p.count : Contents(p, n)[i] = p.buf[Slot(p.r + i - 1, n)]
      BY <1>4, ContentsIsSeq
    <3> QED BY <1>2, <3>1
  <2>2. /\ Contents(q, n) \in Seq(Items) /\ Len(Contents(q, n)) = q.count
        /\ \A i \in 1..q.count : Contents(q, n)[i] = q.buf[Slot(q.r + i - 1, n)]
    BY ContentsIsSeq
  <2>3. /\ Append(Contents(q, n), x) \in Seq(Items)
        /\ Len(Append(Contents(q, n), x)) = q.count + 1
        /\ \A i \in 1..q.count : Append(Contents(q, n), x)[i] = Contents(q, n)[i]
        /\ Append(Contents(q, n), x)[q.count + 1] = x
    BY <2>2, AppendProperties
  <2>4. ASSUME NEW i \in 1..q.count
        PROVE  p.buf[Slot(q.r + i - 1, n)] = q.buf[Slot(q.r + i - 1, n)]
    BY <1>1, <1>2, <1>3
  <2>5. p.buf[Slot(q.r + (q.count + 1) - 1, n)] = x
    BY <1>1, <1>2, <1>3
  <2>6. ASSUME NEW i \in 1..(q.count + 1)
        PROVE  Contents(p, n)[i] = Append(Contents(q, n), x)[i]
    <3>1. CASE i \in 1..q.count
      BY <2>1, <2>2, <2>3, <2>4, <3>1
    <3>2. CASE i = q.count + 1
      BY <2>1, <2>3, <2>5, <3>2
    <3>3. i \in 1..q.count \/ i = q.count + 1
      BY <1>1
    <3> QED BY <3>1, <3>2, <3>3
  <2> QED BY <2>1, <2>3, <2>6, SeqEqual
<1> QED BY <1>4, <1>5 DEF p

\* A pop from a ring that is not empty keeps the indices consistent and takes the first
\* element.
LEMMA PopTakesFirst ==
  ASSUME NEW n \in Nat \ {0}, NEW Items, NEW q \in Rings(n, Items), q.count # 0
  PROVE  /\ Pop(q, n) \in Rings(n, Items)
         /\ First(q) \in Items
         /\ Contents(q, n) # <<>>
         /\ First(q) = Head(Contents(q, n))
         /\ Contents(Pop(q, n), n) = Tail(Contents(q, n))
<1> DEFINE p == Pop(q, n)
<1>1. /\ q.buf \in [0..(n - 1) -> Items] /\ q.r \in 0..(n - 1) /\ q.w \in 0..(n - 1)
      /\ q.count \in 1..n /\ q.w = Slot(q.r + q.count, n)
  BY RingFields
<1>2. /\ p.buf = q.buf
      /\ p.r = Slot(q.r + 1, n)
      /\ p.w = q.w
      /\ p.count = q.count - 1
      /\ p = [buf |-> p.buf, r |-> p.r, w |-> p.w, count |-> p.count]
  BY DEF Pop
<1> HIDE DEF p
<1>3. /\ p.r \in 0..(n - 1)
      /\ q.w = Slot(p.r + (q.count - 1), n)
      /\ \A i \in 1..(q.count - 1) : Slot(p.r + i - 1, n) = Slot(q.r + (i + 1) - 1, n)
      /\ Slot(q.r + 1 - 1, n) = q.r
  <2>1. ReadSlotsShift(n, q.r, q.count, q.w, p.r)
    BY <1>1, <1>2, PopSlots
  <2> QED BY <2>1 DEF ReadSlotsShift
<1>4. p \in Rings(n, Items)
  <2>1. p.count \in 0..n
    BY <1>1, <1>2
  <2>2. p \in RingType(n, Items)
    BY <1>1, <1>2, <1>3, <2>1 DEF RingType
  <2> QED BY <1>2, <1>3, <2>2 DEF Rings
<1>5. /\ Contents(q, n) \in Seq(Items) /\ Len(Contents(q, n)) = q.count
      /\ \A i \in 1..q.count : Contents(q, n)[i] = q.buf[Slot(q.r + i - 1, n)]
  BY ContentsIsSeq
<1>6. Contents(q, n) # <<>>
  BY <1>1, <1>5
<1>7. First(q) \in Items /\ First(q) = Head(Contents(q, n))
  <2>1. 1 \in 1..q.count
    BY <1>1
  <2>2. Contents(q, n)[1] = q.buf[q.r]
    BY <1>3, <1>5, <2>1
  <2> QED BY <1>1, <1>5, <1>6, <2>2 DEF First
<1>8. Contents(p, n) = Tail(Contents(q, n))
  <2>1. /\ Contents(p, n) \in Seq(Items) /\ Len(Contents(p, n)) = q.count - 1
        /\ \A i \in 1..(q.count - 1) : Contents(p, n)[i] = q.buf[Slot(p.r + i - 1, n)]
    <3>1. /\ Contents(p, n) \in Seq(Items) /\ Len(Contents(p, n)) = p.count
          /\ \A i \in 1..p.count : Contents(p, n)[i] = p.buf[Slot(p.r + i - 1, n)]
      BY <1>4, ContentsIsSeq
    <3> QED BY <1>2, <3>1
  <2>2. /\ Tail(Contents(q, n)) \in Seq(Items)
        /\ Len(Tail(Contents(q, n))) = q.count - 1
        /\ \A i \in 1..(q.count - 1) : Tail(Contents(q, n))[i] = Contents(q, n)[i + 1]
    BY <1>5, <1>6, HeadTailProperties
  <2>3. ASSUME NEW i \in 1..(q.count - 1)
        PROVE  Contents(p, n)[i] = Tail(Contents(q, n))[i]
    <3>1. i + 1 \in 1..q.count
      BY <1>1
    <3>2. Contents(q, n)[i + 1] = q.buf[Slot(q.r + (i + 1) - 1, n)]
      BY <1>5, <3>1
    <3>3. Slot(p.r + i - 1, n) = Slot(q.r + (i + 1) - 1, n)
      BY <1>3
    <3> QED BY <2>1, <2>2, <3>2, <3>3
  <2> QED BY <2>1, <2>2, <2>3, SeqEqual
<1> QED BY <1>4, <1>6, <1>7, <1>8 DEF p

-----------------------------------------------------------------------------
\* A ring reset to count 0 with both indices 0 is empty.
LEMMA ResetIsEmpty ==
  ASSUME NEW n \in Nat \ {0}, NEW Items, NEW q \in RingType(n, Items),
         q.r = 0, q.w = 0, q.count = 0
  PROVE  q \in Rings(n, Items) /\ Contents(q, n) = <<>>
<1>1. Slot(0 + 0, n) = 0
  BY DEF Slot
<1>2. q \in Rings(n, Items)
  BY <1>1 DEF Rings
<1>3. Contents(q, n) \in Seq(Items) /\ Len(Contents(q, n)) = 0
  BY <1>2, ContentsIsSeq
<1> QED BY <1>2, <1>3

\* What the type, the indices and the halts of the consumer need of one another.
Inv == TypeOK /\ IndicesAgree /\ NoHaltWithEvent

\* The abstract queue of the refinement mapping.
Abs == Contents(queue, EVENT_QUEUE_SIZE)

\* Each action preserves Inv and is a step of BoundedFifo, or leaves its variables alone.
LEMMA Step ==
  ASSUME Inv, [Next]_vars
  PROVE  Inv' /\ [Fifo!Next]_(Fifo!vars)
<1> DEFINE N == EVENT_QUEUE_SIZE
<1>1. /\ N \in Nat \ {0}
      /\ queue \in Rings(N, Events)
      /\ queue.count \in 0..N
  BY QueueAssumption, RingFields DEF Inv, IndicesAgree
<1>2. \A q \in Rings(N, Events) : q \in RingType(N, Events)
  BY DEF Rings
<1>3. ASSUME NEW e \in Events, EventPush(e)
      PROVE  Inv' /\ [Fifo!Next]_(Fifo!vars)
  <2>1. CASE queue.count < N
    <3>1. queue' \in Rings(N, Events) /\ Abs' = Append(Abs, e)
      BY <1>1, <1>3, <2>1, PushAppends DEF EventPush, Abs
    <3>2. Inv'
      BY <1>2, <1>3, <3>1 DEF Inv, TypeOK, IndicesAgree, NoHaltWithEvent, EventPush,
         Interruptible, Resume
    <3>3. Len(Abs) < N
      BY <1>1, <2>1, ContentsIsSeq DEF Abs
    <3>4. Fifo!Put(e)
      BY <1>3, <3>1, <3>3 DEF Fifo!Put, EventPush, Abs
    <3> QED BY <3>2, <3>4 DEF Fifo!Next
  <2>2. CASE queue.count >= N
    <3>1. queue' = queue
      BY <1>3, <2>2 DEF EventPush, Push
    <3>2. Inv'
      BY <1>3, <3>1 DEF Inv, TypeOK, IndicesAgree, NoHaltWithEvent, EventPush,
         Interruptible, Resume
    <3> QED BY <1>3, <3>1, <3>2 DEF Fifo!vars, EventPush
  <2> QED BY <1>1, <2>1, <2>2
<1>4. ASSUME EventPoll, queue.count # 0
      PROVE  /\ queue' \in Rings(N, Events) /\ delivered' \in Events
             /\ Fifo!Get
  <2>1. /\ queue' \in Rings(N, Events) /\ delivered' \in Events
        /\ Abs # <<>> /\ delivered' = Head(Abs) /\ Abs' = Tail(Abs)
    BY <1>1, <1>4, PopTakesFirst DEF EventPoll, Abs
  <2> QED BY <2>1 DEF Fifo!Get, Abs
<1>5. CASE Poll \/ WaitPoll
  <2>1. CASE queue.count = 0
    <3>1. UNCHANGED <<queue, delivered>>
      BY <1>5, <2>1 DEF Poll, WaitPoll, EventPoll
    <3>2. Inv'
      BY <1>5, <2>1, <3>1 DEF Inv, TypeOK, IndicesAgree, NoHaltWithEvent, Poll, WaitPoll
    <3> QED BY <3>1, <3>2 DEF Fifo!vars
  <2>2. CASE queue.count # 0
    <3>1. EventPoll
      BY <1>5 DEF Poll, WaitPoll
    <3>2. pc' = "user" /\ if_flag' = if_flag
      BY <1>5, <2>2 DEF Poll, WaitPoll
    <3>3. /\ queue' \in Rings(N, Events) /\ delivered' \in Events /\ Fifo!Get
      BY <1>4, <2>2, <3>1
    <3>4. Inv'
      BY <1>2, <3>2, <3>3 DEF Inv, TypeOK, IndicesAgree, NoHaltWithEvent
    <3> QED BY <3>3, <3>4 DEF Fifo!Next
  <2> QED BY <2>1, <2>2
<1>6. CASE EventClear
  <2>1. queue' \in RingType(N, Events) /\ queue'.r = 0 /\ queue'.w = 0 /\ queue'.count = 0
    BY <1>1, <1>6 DEF EventClear, Reset, Inv, TypeOK, RingType
  <2>2. queue' \in Rings(N, Events) /\ Abs' = <<>>
    BY <1>1, <2>1, ResetIsEmpty DEF Abs
  <2>3. Inv'
    BY <1>6, <2>1, <2>2 DEF Inv, TypeOK, IndicesAgree, NoHaltWithEvent, EventClear
  <2>4. Fifo!Clear
    BY <1>6, <2>2 DEF Fifo!Clear, EventClear, Abs
  <2> QED BY <2>3, <2>4 DEF Fifo!Next
<1>7. CASE TimerInterrupt \/ EventWait \/ Halt \/ SetFlag \/ UNCHANGED vars
  <2>1. UNCHANGED <<queue, delivered>>
    BY <1>7 DEF TimerInterrupt, EventWait, Halt, SetFlag, vars
  <2>2. Inv'
    BY <1>7, <2>1 DEF Inv, TypeOK, IndicesAgree, NoHaltWithEvent, TimerInterrupt, EventWait,
       Halt, SetFlag, vars, Resume, Interruptible
  <2> QED BY <2>1, <2>2 DEF Fifo!vars
<1> QED BY <1>3, <1>5, <1>6, <1>7 DEF Next

\* The initial state satisfies Inv and is an initial state of BoundedFifo.
LEMMA Initial == Init => Inv /\ Fifo!Init
<1> DEFINE N == EVENT_QUEUE_SIZE
<1> SUFFICES ASSUME Init PROVE Inv /\ Fifo!Init
  OBVIOUS
<1>1. PICK e \in Events : queue = EmptyRing(N, e) /\ delivered = e
  BY DEF Init
<1>2. queue \in RingType(N, Events) /\ queue.r = 0 /\ queue.w = 0 /\ queue.count = 0
  BY <1>1, QueueAssumption DEF EmptyRing, RingType
<1>3. queue \in Rings(N, Events) /\ Abs = <<>>
  BY <1>2, QueueAssumption, ResetIsEmpty DEF Abs
<1> QED BY <1>1, <1>2, <1>3 DEF Init, Inv, TypeOK, IndicesAgree, NoHaltWithEvent, Fifo!Init, Abs

\* The invariant holds throughout.
LEMMA Invariant == Spec => []Inv
<1>1. Inv /\ [Next]_vars => Inv'
  BY Step
<1> QED BY <1>1, Initial, PTL DEF Spec

\* Every variable of the event queue keeps its type, for every queue size.
THEOREM QueueTypeCorrect == Spec => []TypeOK
<1>1. Inv => TypeOK
  BY DEF Inv
<1> QED BY <1>1, Invariant, PTL

\* event_push(), event_poll() and event_clear() keep the indices and the count in step.
THEOREM QueueIndicesAgree == Spec => []IndicesAgree
<1>1. Inv => IndicesAgree
  BY DEF Inv
<1> QED BY <1>1, Invariant, PTL

\* event_wait() called with interrupts disabled never halts on a non-empty queue.
THEOREM QueueNoHaltWithEvent == Spec => []NoHaltWithEvent
<1>1. Inv => NoHaltWithEvent
  BY DEF Inv
<1> QED BY <1>1, Invariant, PTL

\* The ring buffer of events.c implements a bounded first-in first-out queue.
THEOREM QueueImplementsFifo == Spec => ImplementsFifo
<1>1. Inv /\ [Next]_vars => [Fifo!Next]_(Fifo!vars)
  BY Step
<1> QED BY <1>1, Initial, Invariant, PTL DEF Spec, ImplementsFifo, Fifo!Spec
=============================================================================
