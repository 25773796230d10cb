------------------------------ MODULE Inversion ------------------------------
(***************************************************************************)
(* Priority inversion: four threads with fixed programs on the operations  *)
(* of Synch.                                                               *)
(*                                                                         *)
(*   low   creates the others, then acquires and releases A for ever;      *)
(*   mid   waits for an interrupt, acquires B, then A inside B, for ever;  *)
(*   hog   waits for an interrupt, then computes for ever;                 *)
(*   high  waits for an interrupt, acquires and releases B, for ever.      *)
(*                                                                         *)
(* Without donation hog would keep low from releasing A, hence mid from    *)
(* releasing B, hence high from running at all.                            *)
(***************************************************************************)
EXTENDS Synch

CONSTANTS low, mid, hog, high, A, B, go

InversionAssumption ==
  /\ Thread = {low, mid, hog, high} /\ InitialThread = low
  /\ Lock = {A, B}
  /\ go \in [{mid, hog, high} -> Semaphore]
  /\ Priority = {1, 2, 3, 4}

VARIABLE step       \* where each thread is in its program

Programs == <<vars, step>>

\* A call of an operation, in the program of t between the places m and n.
Call(t, m, n, Operation) ==
  /\ step[t] = m
  /\ Operation
  /\ step' = [step EXCEPT ![t] = n]

Create(u, p) == thread_create(low, u, p) /\ UNCHANGED <<value, waiters>>

Acquire(t, l) == lock_acquire_free(t, l) \/ lock_acquire_held(t, l)

Low ==
  \/ Call(low, 0, 1, Create(mid, 2))
  \/ Call(low, 1, 2, Create(hog, 3))
  \/ Call(low, 2, 3, Create(high, 4))
  \/ Call(low, 3, 4, Acquire(low, A))
  \/ Call(low, 4, 3, lock_release(low, A))

Mid ==
  \/ Call(mid, 0, 1, sema_down(mid, go[mid]))
  \/ Call(mid, 1, 2, Acquire(mid, B))
  \/ Call(mid, 2, 3, Acquire(mid, A))
  \/ Call(mid, 3, 4, lock_release(mid, A))
  \/ Call(mid, 4, 0, lock_release(mid, B))

Hog == Call(hog, 0, 1, sema_down(hog, go[hog]))

High ==
  \/ Call(high, 0, 1, sema_down(high, go[high]))
  \/ Call(high, 1, 2, Acquire(high, B))
  \/ Call(high, 2, 0, lock_release(high, B))

\* The operation that t is in goes on.
Continue(t) ==
  /\ \/ thread_create_yield(t) /\ UNCHANGED <<value, waiters>>
     \/ sema_down_resume(t)
     \/ lock_acquire_resume(t)
     \/ lock_release_up(t)
  /\ UNCHANGED step

Device == (\E s \in Semaphore : sema_up_interrupt(s)) /\ UNCHANGED step

Timer == Preempt /\ UNCHANGED <<value, waiters, step>>

ProgramInit ==
  /\ Init
  /\ priority[low] = 1
  /\ \A s \in Semaphore : value[s] = 0
  /\ step = [t \in Thread |-> 0]

\* The running thread goes on: each of these needs its thread to run.
Execute == Low \/ Mid \/ Hog \/ High \/ \E t \in Thread : Continue(t)

ProgramNext == Execute \/ Device \/ Timer

\* The processor executes the running thread and the timer keeps ticking.
\* Nothing is assumed of the devices.  Some thread is always ready, so the
\* idle thread has no part here.
ProgramSpec ==
  /\ ProgramInit /\ [][ProgramNext]_Programs
  /\ WF_Programs(Execute) /\ WF_Programs(Timer)

\* high waits for B, whose holder mid waits for A, which low holds.
Chained ==
  /\ pc[high] = "acquire" /\ holder[B] = mid
  /\ blocking_lock[mid] = A /\ holder[A] = low

\* Donation along the chain of locks gets low through its critical section
\* although hog never blocks: while high waits for B, whose holder mid waits
\* for A, the holder of A comes to release it (thread_propagate_priority).
ChainIsDonated == Chained ~> pc[low] = "release"

\* "L releases the lock, which wakes up H" (tests/threads/
\* priority-donate-sema.c): once the holder of A is in lock_release, mid, which
\* waits for A and has the priority of high, which waits for mid, gets it.
ReleaseWakesWaiter ==
  /\ pc[low] = "release" /\ pc[mid] = "acquire" /\ arg[mid] = A
  /\ holder[B] = mid /\ pc[high] = "acquire" /\ arg[high] = B
  ~> holder[A] = mid

==============================================================================
