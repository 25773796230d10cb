------------------------------- MODULE Monitor -------------------------------
(***************************************************************************)
(* The condition variables of threads/synch.c: threads that enter and      *)
(* leave one monitor and wait, signal and broadcast inside.                *)
(*                                                                         *)
(* cond_wait puts a struct semaphore_elem of its own stack frame on        *)
(* cond->waiters; here the list holds the thread, and waiter[t] is the     *)
(* semaphore in the frame of t.  An ASSERT that fails stops the kernel:    *)
(* panic becomes TRUE and nothing happens any more.                        *)
(***************************************************************************)
EXTENDS Synch

CONSTANTS lock, Condition, waiter

MonitorAssumption ==
  /\ Lock = {lock}
  /\ waiter \in [Thread -> Semaphore] /\ IsInjective(waiter)
  /\ MaxValue >= 1

VARIABLES
  cond_waiters,     \* struct condition.waiters
  at,               \* where a thread is in the monitor operations
  elem,             \* the thread whose elem cond_signal is about to remove
  panic

monitorVars == <<cond_waiters, at, elem, panic>>
allVars == <<vars, monitorVars>>

Out == <<"out", NULL>>
In == <<"in", NULL>>

\* Thread t, in no operation of Synch, goes from place m to place n.
Go(t, m, n) == Runs(t) /\ at[t] = m /\ at' = [at EXCEPT ![t] = n]

AcquireLock(t) == lock_acquire_free(t, lock) \/ lock_acquire_held(t, lock)

----------------------------------------------------------------------------

enter(t) ==
  /\ Go(t, Out, In)
  /\ AcquireLock(t)
  /\ UNCHANGED <<cond_waiters, elem, panic>>

leave(t) ==
  /\ Go(t, In, Out)
  /\ lock_release(t, lock)
  /\ UNCHANGED <<cond_waiters, elem, panic>>

\* cond_wait: the waiter joins the list and the lock is released (its
\* semaphore, which sema_init sets to 0, is 0 whenever t is not waiting), ...
cond_wait(t, c) ==
  /\ Go(t, In, <<"wait", c>>)
  /\ cond_waiters' = [cond_waiters EXCEPT ![c] = Append(@, t)]
  /\ lock_release(t, lock)
  /\ UNCHANGED <<elem, panic>>

\* A mistake: the semaphore is initialised only now.
cond_wait_down_Init(t, c) ==
  /\ Go(t, <<"wait", c>>, <<"woken", c>>)
  /\ WaitFor(waiter[t], "down", priority, ready_list)
  /\ UNCHANGED <<cond_waiters, elem, panic, priority, original_priority,
                 donor_threads, blocking_lock, holder>>

\* ... then the thread waits for the signal, ...
cond_wait_down(t, c) ==
  /\ Go(t, <<"wait", c>>, <<"woken", c>>)
  /\ sema_down(t, waiter[t])
  /\ UNCHANGED <<cond_waiters, elem, panic>>

\* ... and acquires the lock again.
cond_wait_acquire(t, c) ==
  /\ Go(t, <<"woken", c>>, In)
  /\ AcquireLock(t)
  /\ UNCHANGED <<cond_waiters, elem, panic>>

\* list_max (&cond->waiters, cond_sema_priority_less): compares the first
\* threads that wait for the semaphores of two elements, and with them asserts
\* that there are some.  A list of one element needs no comparison.
Comparable(c) ==
  \/ Len(cond_waiters[c]) = 1
  \/ \A u \in Range(cond_waiters[c]) : waiters[waiter[u]] # <<>>

\* cond_signal, called at place m: ups the semaphore of the chosen element, ...
Signal(t, c, m, n) ==
  /\ holder[lock] = t
  /\ cond_waiters[c] # <<>>
  /\ \/ /\ Comparable(c)
        /\ LET u == list_max(cond_waiters[c], priority)
           IN  /\ SemaUp(waiter[u], FALSE)
               /\ elem' = [elem EXCEPT ![t] = u]
        /\ Go(t, m, n)
        /\ UNCHANGED panic
     \/ /\ ~Comparable(c)
        /\ Runs(t) /\ at[t] = m
        /\ panic' = TRUE
        /\ UNCHANGED <<status, current, ready_list, value, waiters, at, elem>>
  /\ UNCHANGED <<cond_waiters, priority, original_priority, donor_threads,
                 blocking_lock, holder, pc, arg>>

\* ... and, running again, takes the element off the list.
SignalRemove(t, c, m, n) ==
  /\ Go(t, m, n)
  /\ cond_waiters' = [cond_waiters EXCEPT ![c] = list_remove(@, elem[t])]
  /\ elem' = [elem EXCEPT ![t] = NULL]
  /\ UNCHANGED <<vars, panic>>

cond_signal(t, c) ==
  \/ Signal(t, c, In, <<"signal", c>>)
  \/ SignalRemove(t, c, <<"signal", c>>, In)

\* cond_broadcast: cond_signal until the list is empty.
cond_broadcast(t, c) ==
  \/ /\ Go(t, In, <<"broadcast", c>>)
     /\ UNCHANGED <<vars, cond_waiters, elem, panic>>
  \/ Signal(t, c, <<"broadcast", c>>, <<"broadcast_signal", c>>)
  \/ SignalRemove(t, c, <<"broadcast_signal", c>>, <<"broadcast", c>>)
  \/ /\ cond_waiters[c] = <<>>
     /\ Go(t, <<"broadcast", c>>, In)
     /\ UNCHANGED <<vars, cond_waiters, elem, panic>>

----------------------------------------------------------------------------

\* The operation of Synch that t is in goes on.
Continue(t) ==
  /\ \/ thread_create_yield(t) /\ UNCHANGED <<value, waiters>>
     \/ sema_down_resume(t)
     \/ lock_acquire_resume(t)
     \/ lock_release_up(t)
  /\ UNCHANGED monitorVars

Environment ==
  /\ \/ idle
     \/ Preempt
     \/ \E t, u \in Thread, p \in Priority : at[t] = Out /\ thread_create(t, u, p)
  /\ UNCHANGED <<value, waiters, monitorVars>>

MonitorInit ==
  /\ Init
  /\ \A s \in Semaphore : value[s] = 0
  /\ cond_waiters = [c \in Condition |-> <<>>]
  /\ at = [t \in Thread |-> Out]
  /\ elem = [t \in Thread |-> NULL]
  /\ panic = FALSE

MonitorNext ==
  \/ /\ ~panic
     /\ \/ \E t \in Thread :
             \/ enter(t) \/ leave(t) \/ Continue(t)
             \/ \E c \in Condition :
                  \/ cond_wait(t, c) \/ cond_wait_down(t, c) \/ cond_wait_acquire(t, c)
                  \/ cond_signal(t, c) \/ cond_broadcast(t, c)
        \/ Environment
  \/ panic /\ UNCHANGED allVars

MonitorSpec == MonitorInit /\ [][MonitorNext]_allVars

----------------------------------------------------------------------------
(* Properties *)

\* No signal is lost: a thread whose element cond_signal has taken off the
\* list is not left waiting for its semaphore.  A semaphore is up for a
\* signalled thread only, so the next cond_wait does not return early.
NoLostSignal ==
  \A t \in Thread :
    LET Waits(c) == t \in Range(cond_waiters[c])
        signalled == \E u \in Thread : elem[u] = t
    IN  /\ \A c \in Condition :
             at[t] \in {<<"wait", c>>, <<"woken", c>>} /\ (~Waits(c) \/ signalled) =>
               waiters[waiter[t]] = <<>>
        /\ value[waiter[t]] > 0 =>
             at[t][1] \in {"wait", "woken"} /\ (signalled \/ ~Waits(at[t][2]))

\* cond_wait "atomically releases LOCK and waits for COND to be signaled"
\* (synch.c:337): cond_signal finds every thread on the list waiting, so the
\* assertion of list_front in cond_sema_priority_less holds.
NoPanic == ~panic

==============================================================================
