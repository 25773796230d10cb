-------------------------------- MODULE Intq --------------------------------
(***************************************************************************)
(* The queue between threads and an interrupt handler (devices/intq.c) as  *)
(* operators on struct intq.  Its functions run with interrupts off, so    *)
(* each is one step up to the point where the caller blocks.               *)
(***************************************************************************)
EXTENDS Integers, Sequences

CONSTANTS
  INTQ_BUFSIZE,     \* at least 2
  NULL

intq_init ==
  [buf |-> [pos \in 0 .. INTQ_BUFSIZE - 1 |-> NULL], head |-> 0, tail |-> 0,
   not_full |-> NULL, not_empty |-> NULL, holder |-> NULL]

next(pos) == (pos + 1) % INTQ_BUFSIZE

intq_empty(q) == q.head = q.tail

intq_full(q) == next(q.head) = q.tail

Front(q) == q.buf[q.tail]

\* Takes the first byte and wakes the thread that waits for room.  What stays
\* behind in buf is not to be read again: it is NULL here.
Getc(q) == [q EXCEPT !.buf[q.tail] = NULL, !.tail = next(@), !.not_full = NULL]

\* A mistake: the reader is not woken.
Putc_Silent(q, byte) == [q EXCEPT !.buf[q.head] = byte, !.head = next(@)]

\* Appends a byte and wakes the thread that waits for one.
Putc(q, byte) == [q EXCEPT !.buf[q.head] = byte, !.head = next(@), !.not_empty = NULL]

\* lock_acquire (&q->lock); wait (q, &q->not_empty), and the same for not_full.
WaitNotEmpty(q, t) == [q EXCEPT !.holder = t, !.not_empty = t]
WaitNotFull(q, t) == [q EXCEPT !.holder = t, !.not_full = t]
Release(q) == [q EXCEPT !.holder = NULL]

\* The bytes in the queue, first one first.
Content(q) ==
  [i \in 1 .. (q.head - q.tail) % INTQ_BUFSIZE |-> q.buf[(q.tail + i - 1) % INTQ_BUFSIZE]]

==============================================================================
