-------------------------------- MODULE Synch --------------------------------
(***************************************************************************)
(* The semaphores and locks of threads/synch.c on top of the scheduler.    *)
(* Every lock contains a semaphore of the same name: value[l], waiters[l]. *)
(*                                                                         *)
(* Threads call the operations in any order that keeps the ASSERTs at      *)
(* their head: a thread does not acquire a lock it holds, releases only    *)
(* locks it holds, and does not exit with a lock.                          *)
(***************************************************************************)
EXTENDS Threads, FiniteSets

CONSTANTS
  Semaphore,        \* the struct semaphores that are not part of a lock
  MaxValue          \* bound on the values of those

ASSUME SynchAssumption ==
  /\ Semaphore \cap Lock = {}
  /\ NULL \notin Semaphore
  /\ (Semaphore \cup Lock) \cap (Thread \cup {Idle}) = {}
  /\ MaxValue \in Nat

VARIABLES
  value,            \* struct semaphore.value
  waiters           \* struct semaphore.waiters

vars == <<threadVars, value, waiters>>

Sema == Semaphore \cup Lock

----------------------------------------------------------------------------
(* Semaphores *)

\* The body of the loop of sema_down, entered by the running thread with the
\* priorities pri and the run queue rl: wait for s, resume at label.
WaitFor(s, label, pri, rl) ==
  /\ waiters' = [waiters EXCEPT ![s] = Enqueue(waiters[s], current, pri)]
  /\ thread_block(rl)
  /\ Goto(current, label, s)
  /\ UNCHANGED value

\* The end of sema_down.
Take(s) ==
  /\ value[s] > 0
  /\ value' = [value EXCEPT ![s] = @ - 1]
  /\ UNCHANGED waiters

\* sema_down
sema_down(t, s) ==
  /\ Runs(t)
  /\ \/ Take(s) /\ UNCHANGED <<status, current, ready_list, pc, arg>>
     \/ value[s] = 0 /\ WaitFor(s, "down", priority, ready_list)
  /\ UNCHANGED <<priority, original_priority, donor_threads, blocking_lock, holder>>

\* sema_down goes on after thread_block: the loop looks at the value again.
sema_down_resume(t) ==
  LET s == arg[t] IN
  /\ current = t /\ pc[t] = "down"
  /\ \/ Take(s) /\ Goto(t, "run", NULL) /\ UNCHANGED <<status, current, ready_list>>
     \/ value[s] = 0 /\ WaitFor(s, "down", priority, ready_list)
  /\ UNCHANGED <<priority, original_priority, donor_threads, blocking_lock, holder>>

\* sema_try_down that succeeds; one that fails changes nothing.
sema_try_down(t, s) ==
  /\ Runs(t)
  /\ Take(s)
  /\ UNCHANGED threadVars

\* Mistakes in sema_up: the waiter is the front of the list instead of the
\* maximum, or is woken only when the value was 0.
SemaUp_Front(s, interrupt) ==
  /\ value' = [value EXCEPT ![s] = @ + 1]
  /\ IF waiters[s] = <<>>
     THEN UNCHANGED <<waiters, status, current, ready_list>>
     ELSE LET t == Head(waiters[s])
          IN  /\ waiters' = [waiters EXCEPT ![s] = Tail(@)]
              /\ status' = [status EXCEPT ![t] = "ready"]
              /\ ready_list' = Enqueue(ready_list, t, priority)
              /\ UNCHANGED current

SemaUp_WasZero(s, interrupt) ==
  IF value[s] = 0 THEN SemaUp_Front(s, interrupt)
  ELSE /\ value' = [value EXCEPT ![s] = @ + 1]
       /\ UNCHANGED <<waiters, status, current, ready_list>>

\* sema_up: the first of the waiters with the highest priority becomes
\* ready.  The caller yields to it if it has the higher priority, unless the
\* caller is an interrupt handler.
SemaUp(s, interrupt) ==
  /\ value' = [value EXCEPT ![s] = @ + 1]
  /\ IF waiters[s] = <<>>
     THEN UNCHANGED <<waiters, status, current, ready_list>>
     ELSE LET t == list_max(waiters[s], priority)
              st == [status EXCEPT ![t] = "ready"]
              rl == Enqueue(ready_list, t, priority)
          IN  /\ waiters' = [waiters EXCEPT ![s] = list_remove(@, t)]
              /\ IF ~interrupt /\ priority[t] > priority[current]
                 THEN thread_yield(st, rl)
                 ELSE status' = st /\ ready_list' = rl /\ UNCHANGED current

sema_up(t, s) ==
  /\ Runs(t)
  /\ value[s] < MaxValue
  /\ SemaUp(s, FALSE)
  /\ UNCHANGED <<priority, original_priority, donor_threads, blocking_lock, holder,
                 pc, arg>>

\* sema_up by an interrupt handler, such as the one of the disk.
sema_up_interrupt(s) ==
  /\ InterruptsOn
  /\ value[s] < MaxValue
  /\ SemaUp(s, TRUE)
  /\ UNCHANGED <<priority, original_priority, donor_threads, blocking_lock, holder,
                 pc, arg>>

----------------------------------------------------------------------------
(* Locks *)

\* What lock_acquire does when sema_down has returned.
Own(t, l) ==
  /\ holder' = [holder EXCEPT ![l] = t]
  /\ blocking_lock' = [blocking_lock EXCEPT ![t] = NULL]

\* lock_acquire of a lock that has no holder.  The semaphore may still be 0:
\* the lock is in the middle of a lock_release or a lock_try_acquire.
lock_acquire_free(t, l) ==
  /\ Runs(t)
  /\ holder[l] = NULL
  /\ \/ /\ Take(l)
        /\ Own(t, l)
        /\ UNCHANGED <<status, current, ready_list, pc, arg>>
     \/ /\ value[l] = 0
        /\ WaitFor(l, "acquire", priority, ready_list)
        /\ UNCHANGED <<holder, blocking_lock>>
  /\ UNCHANGED <<priority, original_priority, donor_threads>>

\* lock_acquire of a lock that has a holder: t becomes its donor, and waits
\* (the semaphore of a held lock is 0, see LockAccounting).
lock_acquire_held(t, l) ==
  /\ Runs(t)
  /\ holder[l] \notin {NULL, t}
  /\ blocking_lock' = [blocking_lock EXCEPT ![t] = l]
  /\ donor_threads' = [donor_threads EXCEPT ![holder[l]] = @ \cup {t}]
  /\ value[l] = 0
  /\ \E w \in {Propagate(t, l, priority)} :
       /\ priority' = w.pri
       /\ WaitFor(l, "acquire", w.pri, w.ready)
  /\ UNCHANGED <<original_priority, holder>>

\* A mistake: after the wait the lock is taken without another look.
lock_acquire_resume_If(t) ==
  /\ current = t /\ pc[t] = "acquire"
  /\ value' = [value EXCEPT ![arg[t]] = 0]
  /\ Own(t, arg[t])
  /\ Goto(t, "run", NULL)
  /\ UNCHANGED <<status, current, ready_list, waiters, priority, original_priority,
                 donor_threads>>

\* lock_acquire goes on after thread_block.  A lock taken by somebody else in
\* the meantime is waited for again, without a donation to its new holder.
lock_acquire_resume(t) ==
  LET l == arg[t] IN
  /\ current = t /\ pc[t] = "acquire"
  /\ \/ /\ Take(l)
        /\ Own(t, l)
        /\ Goto(t, "run", NULL)
        /\ UNCHANGED <<status, current, ready_list>>
     \/ /\ value[l] = 0
        /\ WaitFor(l, "acquire", priority, ready_list)
        /\ UNCHANGED <<holder, blocking_lock>>
  /\ UNCHANGED <<priority, original_priority, donor_threads>>

\* lock_try_acquire: takes the semaphore with interrupts off, ...
lock_try_acquire(t, l) ==
  /\ Runs(t)
  /\ holder[l] # t
  /\ Take(l)
  /\ Goto(t, "try_acquire", l)
  /\ UNCHANGED <<status, current, ready_list, priority, original_priority,
                 donor_threads, blocking_lock, holder>>

\* ... and sets the holder with interrupts on again.
lock_try_acquire_hold(t) ==
  /\ current = t /\ pc[t] = "try_acquire"
  /\ holder' = [holder EXCEPT ![arg[t]] = t]
  /\ Goto(t, "run", NULL)
  /\ UNCHANGED <<status, current, ready_list, priority, original_priority,
                 donor_threads, blocking_lock, value, waiters>>

\* A mistake: the donors stay, and with them the donated priority.
lock_release_KeepDonors(t, l) ==
  /\ Runs(t)
  /\ holder[l] = t
  /\ holder' = [holder EXCEPT ![l] = NULL]
  /\ Goto(t, "release", l)
  /\ UNCHANGED <<status, current, ready_list, priority, original_priority,
                 donor_threads, blocking_lock, value, waiters>>

\* lock_release: forgets the donors that wait for l and the holder, ...
lock_release(t, l) ==
  /\ Runs(t)
  /\ holder[l] = t
  /\ donor_threads' = [donor_threads EXCEPT ![t] = {d \in @ : blocking_lock[d] # l}]
  /\ holder' = [holder EXCEPT ![l] = NULL]
  /\ priority' = [priority EXCEPT
                    ![t] = DonatedPriority(t, original_priority, donor_threads')]
  /\ Goto(t, "release", l)
  /\ UNCHANGED <<status, current, ready_list, original_priority, blocking_lock,
                 value, waiters>>

\* ... and, after an instant with interrupts on, ups the semaphore.
lock_release_up(t) ==
  /\ current = t /\ pc[t] = "release"
  /\ SemaUp(arg[t], FALSE)
  /\ Goto(t, "run", NULL)
  /\ UNCHANGED <<priority, original_priority, donor_threads, blocking_lock, holder>>

----------------------------------------------------------------------------
(* The system *)

\* Owns(t, l): t is the holder, is about to become it, or has not given the
\* semaphore back yet.
Owns(t, l) ==
  \/ holder[l] = t
  \/ pc[t] \in {"try_acquire", "release"} /\ arg[t] = l

Init ==
  /\ ThreadInit
  /\ value \in [Sema -> 0..MaxValue] /\ \A l \in Lock : value[l] = 1
  /\ waiters = [s \in Sema |-> <<>>]

ThreadStep(t) ==
  /\ \/ \E u \in Thread, p \in Priority : thread_create(t, u, p)
     \/ thread_create_yield(t)
     \/ (\A l \in Lock : ~Owns(t, l)) /\ thread_exit(t)
     \/ \E p \in Priority : thread_set_priority(t, p)
     \/ thread_set_priority_update(t)
     \/ thread_set_priority_yield(t)
  /\ UNCHANGED <<value, waiters>>

SemaStep(t) ==
  \/ \E s \in Semaphore : sema_down(t, s) \/ sema_try_down(t, s) \/ sema_up(t, s)
  \/ sema_down_resume(t)

LockStep(t) ==
  \/ \E l \in Lock :
       \/ lock_acquire_free(t, l) \/ lock_acquire_held(t, l)
       \/ lock_try_acquire(t, l) \/ lock_release(t, l)
  \/ lock_acquire_resume(t)
  \/ lock_try_acquire_hold(t)
  \/ lock_release_up(t)

Next ==
  \/ \E t \in Thread : ThreadStep(t) \/ SemaStep(t) \/ LockStep(t)
  \/ \E s \in Semaphore : sema_up_interrupt(s)
  \/ (idle \/ Preempt) /\ UNCHANGED <<value, waiters>>

Spec == Init /\ [][Next]_vars

----------------------------------------------------------------------------
(* Properties *)

Labels == {"run", "create", "set_priority", "set_priority_yield", "down",
           "acquire", "try_acquire", "release"}

\* The variables have their types.
TypeOK ==
  /\ status \in [Thread \cup {Idle} -> ThreadStatus]
  /\ current \in Thread \cup {Idle}
  /\ ready_list \in Seq(Thread)
  /\ priority \in [Thread -> Priority]
  /\ original_priority \in [Thread -> Priority]
  /\ donor_threads \in [Thread -> SUBSET Thread]
  /\ blocking_lock \in [Thread -> Lock \cup {NULL}]
  /\ holder \in [Lock -> Thread \cup {NULL}]
  /\ pc \in [Thread -> Labels]
  /\ arg \in [Thread -> Thread \cup Sema \cup {NULL}]
  /\ value \in [Sema -> Nat]
  /\ waiters \in [Sema -> Seq(Thread)]

\* A thread's elem is on one list at most (thread.h:104-109): the run queue
\* links exactly the ready threads, the wait list of a semaphore exactly the
\* threads blocked on it, and no thread is on a list twice.
OneListPerThread ==
  /\ IsInjective(ready_list)
  /\ Range(ready_list) = {t \in Thread : status[t] = "ready"}
  /\ \A s \in Sema :
       /\ IsInjective(waiters[s])
       /\ Range(waiters[s]) = {t \in Thread : status[t] = "blocked" /\ arg[t] = s}

\* The run queue stays in the order of the priorities although donations
\* change the priorities of queued threads.
RunQueueSorted ==
  \A i, j \in 1..Len(ready_list) :
    i < j => priority[ready_list[i]] >= priority[ready_list[j]]

\* Mutual exclusion, and no lock gets lost: the semaphore of a lock is 1 when
\* nobody owns the lock, and 0 when exactly one thread does.
LockAccounting ==
  \A l \in Lock :
    /\ value[l] \in {0, 1}
    /\ (value[l] = 1) <=> (\A t \in Thread : ~Owns(t, l))
    /\ \A t, u \in Thread : Owns(t, l) /\ Owns(u, l) => t = u

\* Donations are neither missing nor stale.  donor_threads of t links threads
\* that wait for a lock t holds (so no donor_elem is on two lists or outlives
\* its thread), and t has the priority of each of them at least, however long
\* the chain of locks is.  A priority above the thread's own is owed to one
\* that still waits: lock_release takes the donation back.
DonationsExact ==
  \A t \in Thread :
    /\ \A d \in donor_threads[t] :
         /\ status[d] \in {"ready", "blocked"} /\ pc[d] = "acquire"
         /\ blocking_lock[d] = arg[d] /\ holder[arg[d]] = t
         /\ priority[t] >= priority[d]
    /\ status[t] # "free" /\ pc[t] # "set_priority" =>
         /\ priority[t] >= original_priority[t]
         /\ priority[t] > original_priority[t] =>
              \E w \in Thread :
                pc[w] = "acquire" /\ holder[arg[w]] = t /\ priority[w] >= priority[t]

\* No wakeup is lost: while threads wait for a semaphore that is up, as many
\* woken threads as its value are on their way to take it.
NoLostWakeup ==
  \A s \in Sema :
    waiters[s] # <<>> =>
      Cardinality({t \in Thread : /\ status[t] \in {"ready", "running"}
                                  /\ pc[t] \in {"down", "acquire"}
                                  /\ arg[t] = s}) >= value[s]

\* sema_up wakes a waiter of the highest priority, also when donations have
\* changed the waiters' priorities since they joined the list.
WakesHighestPriority ==
  [][\A s \in Sema, t \in Thread :
       t \in Range(waiters[s]) \ Range(waiters'[s]) =>
         \A w \in Range(waiters'[s]) : priority[w] <= priority[t]]_vars

\* A thread switch goes to a ready thread of the highest priority, and to the
\* idle thread only when no thread is ready.
SwitchToHighestPriority ==
  [][current' # current =>
       \A u \in Range(ready_list') :
         current' # Idle /\ priority'[u] <= priority'[current']]_vars

=============================================================================
