-------------------------------- MODULE Ring --------------------------------
(***************************************************************************)
(* The ring buffer that the kernel's input path uses three times: for the  *)
(* global event queue, for $/dev/input/event0 and for $/dev/input/kbd0.    *)
(* A ring of n slots is a record of its buffer, its read and write indices *)
(* and its element count.  Every operation runs with interrupts masked.    *)
(***************************************************************************)
EXTENDS Integers, Sequences

\* Indices wrap around.
Slot(i, n) == i % n

RingType(n, Items) ==
  [buf : [0..(n - 1) -> Items], r : 0..(n - 1), w : 0..(n - 1), count : 0..n]

\* The rings whose two indices agree with the count.
Rings(n, Items) == {q \in RingType(n, Items) : q.w = Slot(q.r + q.count, n)}

\* A zeroed ring; blank is what the memory holds.
EmptyRing(n, blank) == [buf |-> [i \in 0..(n - 1) |-> blank], r |-> 0, w |-> 0, count |-> 0]

\* Wrong versions of Push: the test for a full ring comes one too late, a full ring
\* overwrites its oldest element.
PushLateBug(q, n, x) ==
  IF q.count > n THEN q
  ELSE [buf |-> [q.buf EXCEPT ![q.w] = x], r |-> q.r, w |-> Slot(q.w + 1, n), count |-> q.count + 1]
PushOverwriteBug(q, n, x) ==
  IF q.count >= n
  THEN [buf |-> [q.buf EXCEPT ![q.w] = x], r |-> Slot(q.r + 1, n), w |-> Slot(q.w + 1, n), count |-> n]
  ELSE [buf |-> [q.buf EXCEPT ![q.w] = x], r |-> q.r, w |-> Slot(q.w + 1, n), count |-> q.count + 1]

\* A full ring drops the new element.
Push(q, n, x) ==
  IF q.count >= n THEN q
  ELSE [buf |-> [q.buf EXCEPT ![q.w] = x], r |-> q.r, w |-> Slot(q.w + 1, n), count |-> q.count + 1]

\* The count stays.
PopBug(q, n) == [buf |-> q.buf, r |-> Slot(q.r + 1, n), w |-> q.w, count |-> q.count]

\* The oldest element of a non-empty ring, and the ring without it.
First(q) == q.buf[q.r]
Pop(q, n) == [buf |-> q.buf, r |-> Slot(q.r + 1, n), w |-> q.w, count |-> q.count - 1]

\* The write index stays.
ResetBug(q) == [buf |-> q.buf, r |-> 0, w |-> q.w, count |-> 0]

\* The ring with nothing in it; the old elements stay in the buffer.
Reset(q) == [buf |-> q.buf, r |-> 0, w |-> 0, count |-> 0]

\* The elements of a ring, oldest first.
Contents(q, n) == [i \in 1..q.count |-> q.buf[Slot(q.r + i - 1, n)]]
=============================================================================
