----------------------------- MODULE SynchProofs -----------------------------
(***************************************************************************)
(* Proofs about Synch, for any number of threads, locks and semaphores:    *)
(* every operation keeps Inv, and what follows from Inv.                   *)
(***************************************************************************)
EXTENDS SynchInvariant

(* One lemma per group of operations *)

\* The operations of thread.c.
LEMMA ThreadStepOK ==
  ASSUME Inv, NEW t \in Thread, ThreadStep(t)
  PROVE  Inv' /\ SchedStep
<1>1. /\ priority \in [Thread -> Priority] /\ original_priority \in [Thread -> Priority]
      /\ donor_threads \in [Thread -> SUBSET Thread]
      /\ blocking_lock \in [Thread -> Lock \cup {NULL}]
      /\ holder \in [Lock -> Thread \cup {NULL}]
      /\ pc \in [Thread -> Labels] /\ arg \in [Thread -> Thread \cup Sema \cup {NULL}]
      /\ value \in [Sema -> Nat]
  BY DEF Inv, TypeOK
<1>2. value' = value /\ waiters' = waiters
  BY DEF ThreadStep
<1>3. \A l \in Lock : value'[l] = value[l]
  BY <1>2
<1>4. "run" \in Labels /\ "set_priority" \in Labels /\ "set_priority_yield" \in Labels
      /\ NULL \in Thread \cup Sema \cup {NULL}
  BY DEF Labels
<1>5. CASE \E u \in Thread, p \in Priority : thread_create(t, u, p)
  <2>1. PICK u \in Thread, p \in Priority : thread_create(t, u, p)
    BY <1>5
  <2>2. SchedStep
    BY <1>2, <2>1, CreateStep, Zenon
  <2>3. /\ current = t /\ pc[t] = "run" /\ status[u] = "free"
        /\ priority' = [priority EXCEPT ![u] = p]
        /\ original_priority' = [original_priority EXCEPT ![u] = p]
        /\ donor_threads' = [donor_threads EXCEPT ![u] = {}]
        /\ blocking_lock' = [blocking_lock EXCEPT ![u] = NULL]
        /\ pc' = [pc EXCEPT ![t] = "create", ![u] = "run"]
        /\ arg' = [arg EXCEPT ![t] = u, ![u] = NULL]
        /\ holder' = holder
    BY <2>1 DEF thread_create, Runs
  <2>4. pc[u] = "run" /\ t # u
    BY <2>3 DEF Inv, LockInv, SchedInv
  <2>5. /\ pc'[t] = "create" /\ pc'[u] = "run"
        /\ \A x \in Thread : x # t /\ x # u => pc'[x] = pc[x] /\ arg'[x] = arg[x]
    BY <1>1, <2>3, <2>4
  <2>6. DataTypes'
    <3>1. priority' \in [Thread -> Priority] /\ original_priority' \in [Thread -> Priority]
      BY <1>1, <2>3
    <3>2. /\ donor_threads' \in [Thread -> SUBSET Thread]
          /\ blocking_lock' \in [Thread -> Lock \cup {NULL}]
      BY <1>1, <2>3
    <3>3. pc' \in [Thread -> Labels]
      BY <1>1, <2>3 DEF Labels
    <3>4. arg' \in [Thread -> Thread \cup Sema \cup {NULL}]
      BY <1>1, <2>3
    <3> QED
      BY <1>1, <1>2, <2>3, <3>1, <3>2, <3>3, <3>4, Zenon DEF DataTypes
  <2>7. \A x \in Thread, l \in Lock : Owns(x, l)' <=> Owns(x, l)
    BY <2>3, <2>4, <2>5, Zenon DEF Owns
  <2>8. LockAccounting'
    BY <1>3, <2>7, SameOwners
  <2>9. ArgsOK' /\ Local
    <3>1. ArgsOK
      BY DEF Inv, LockInv, ArgsOK
    <3>2. ArgsOK'
      BY <2>5, <3>1 DEF ArgsOK
    <3> QED
      BY <2>3, <2>5, <3>2, Zenon DEF Local
  <2>10. HandOver'
    <3>1. HandOver /\ holder' = holder
      BY <2>3 DEF Inv, LockInv
    <3>2. \A x \in Thread : pc'[x] \in {"try_acquire", "release"} =>
                              pc'[x] = pc[x] /\ arg'[x] = arg[x]
      BY <2>5
    <3> QED
      BY <3>1, <3>2 DEF HandOver
  <2> QED
    BY <2>2, <2>6, <2>8, <2>9, <2>10, InvStep, Zenon
<1>6. CASE thread_create_yield(t)
  <2>1. /\ current = t /\ pc[t] = "create" /\ Goto(t, "run", NULL)
        /\ \/ thread_yield(status, ready_list)
           \/ status' = status /\ current' = current /\ ready_list' = ready_list
        /\ priority' = priority /\ original_priority' = original_priority
        /\ donor_threads' = donor_threads /\ blocking_lock' = blocking_lock
        /\ holder' = holder
    BY <1>6 DEF thread_create_yield
  <2>2. \A u \in Thread : u # current => arg'[u] = arg[u]
    BY <1>1, <2>1 DEF Goto
  <2>3. SchedStep
    BY <1>2, <2>1, <2>2, MaybeYield
  <2> QED
    BY <1>1, <1>2, <1>3, <1>4, <2>1, <2>3, QuietStep, Zenon
<1>7. CASE (\A l \in Lock : ~Owns(t, l)) /\ thread_exit(t)
  <2>1. SchedStep
    BY <1>2, <1>7, ExitStep, Zenon
  <2>2. /\ priority' = priority /\ original_priority' = original_priority
        /\ donor_threads' = donor_threads /\ blocking_lock' = blocking_lock
        /\ holder' = holder /\ pc' = pc /\ arg' = arg
    BY <1>7 DEF thread_exit
  <2>3. DataTypes'
    BY <1>1, <1>2, <2>2 DEF DataTypes
  <2> QED
    BY <1>3, <2>1, <2>2, <2>3, StayStep
<1>8. CASE \E p \in Priority : thread_set_priority(t, p)
  <2>1. PICK p \in Priority : thread_set_priority(t, p)
    BY <1>8
  <2>2. /\ current = t /\ pc[t] = "run" /\ Goto(t, "set_priority", NULL)
        /\ original_priority' = [original_priority EXCEPT ![t] = p]
        /\ status' = status /\ current' = current /\ ready_list' = ready_list
        /\ priority' = priority /\ donor_threads' = donor_threads
        /\ blocking_lock' = blocking_lock /\ holder' = holder
    BY <2>1 DEF thread_set_priority, Runs
  <2>3. \A u \in Thread : u # current => arg'[u] = arg[u]
    BY <1>1, <2>2, Zenon DEF Goto
  <2>4. SchedStep
    BY <1>2, <2>2, <2>3, MaybeYield, Zenon
  <2>5. original_priority' \in [Thread -> Priority]
    BY <1>1, <2>2
  <2> QED
    BY <1>1, <1>2, <1>3, <1>4, <2>2, <2>4, <2>5, QuietStep, Zenon
<1>9. CASE thread_set_priority_update(t)
  <2>1. PICK p : p = DonatedPriority(t, original_priority, donor_threads)
    OBVIOUS
  <2>2. PICK own : own = [priority EXCEPT ![t] = p]
    BY Zenon
  <2>3. PICK w : w = Propagate(t, blocking_lock[t], own)
    OBVIOUS
  <2>4. /\ current = t /\ pc[t] = "set_priority" /\ Goto(t, "set_priority_yield", NULL)
        /\ priority' = w.pri /\ ready_list' = w.ready
        /\ status' = status /\ current' = current
        /\ original_priority' = original_priority /\ donor_threads' = donor_threads
        /\ blocking_lock' = blocking_lock /\ holder' = holder
    BY <1>9, <2>1, <2>2, <2>3, Zenon DEF thread_set_priority_update
  <2>5. p \in Priority
    BY <1>1, <2>1, DonatedPriorityType, Zenon
  <2>6. own \in [Thread -> Priority] /\ QueueOK(status, ready_list, own)
    BY <2>2, <2>4, <2>5, OwnPriority, Zenon
  <2>7. WalkOK(w)
    <3>1. TypeOK /\ blocking_lock[t] \in Lock \cup {NULL}
      BY <1>1 DEF Inv
    <3> QED
      BY <2>3, <2>6, <3>1, PropagateOK, Zenon
  <2>8. priority' \in [Thread -> Priority] /\ QueueOK(status, ready_list', priority')
    BY <2>4, <2>7 DEF WalkOK
  <2>9. \A u \in Thread : u # current => arg'[u] = arg[u]
    BY <1>1, <2>4 DEF Goto
  <2>10. SchedStep
    BY <1>2, <2>4, <2>8, <2>9, Reprioritise, Zenon
  <2> QED
    BY <1>1, <1>2, <1>3, <1>4, <2>4, <2>8, <2>10, QuietStep, Zenon
<1>10. CASE thread_set_priority_yield(t)
  <2>1. /\ current = t /\ pc[t] = "set_priority_yield" /\ Goto(t, "run", NULL)
        /\ \/ thread_yield(status, ready_list)
           \/ status' = status /\ current' = current /\ ready_list' = ready_list
        /\ priority' = priority /\ original_priority' = original_priority
        /\ donor_threads' = donor_threads /\ blocking_lock' = blocking_lock
        /\ holder' = holder
    BY <1>10 DEF thread_set_priority_yield
  <2>2. \A u \in Thread : u # current => arg'[u] = arg[u]
    BY <1>1, <2>1 DEF Goto
  <2>3. SchedStep
    BY <1>2, <2>1, <2>2, MaybeYield, Zenon
  <2> QED
    BY <1>1, <1>2, <1>3, <1>4, <2>1, <2>3, QuietStep, Zenon
<1> QED
  BY <1>5, <1>6, <1>7, <1>8, <1>9, <1>10 DEF ThreadStep

\* A wait for a semaphore inside sema_down or lock_acquire.
LEMMA WaitStepOK ==
  ASSUME Inv, NEW t \in Thread, current = t, NEW s \in Sema,
         NEW label \in {"down", "acquire"},
         label = "down" => s \in Semaphore, label = "acquire" => s \in Lock,
         pc[t] \notin {"try_acquire", "release"},
         NEW pri \in [Thread -> Priority], NEW rl, QueueOK(status, rl, pri),
         priority' = pri, WaitFor(s, label, pri, rl),
         original_priority' = original_priority,
         donor_threads' \in [Thread -> SUBSET Thread],
         blocking_lock' \in [Thread -> Lock \cup {NULL}],
         holder' = holder
  PROVE  Inv' /\ SchedStep
<1>1. SchedStep
  BY WaitForStep
<1>2. Goto(t, label, s) /\ value' = value
  BY DEF WaitFor
<1>3. original_priority \in [Thread -> Priority] /\ value \in [Sema -> Nat]
  BY DEF Inv, TypeOK
<1>4. /\ label \in Labels /\ s \in Thread \cup Sema \cup {NULL}
      /\ label \notin {"try_acquire", "release"}
      /\ \A l \in Lock : value'[l] = value[l]
  BY <1>2 DEF Labels
<1>5. /\ priority' \in [Thread -> Priority] /\ value' \in [Sema -> Nat]
      /\ original_priority' \in [Thread -> Priority]
  BY <1>2, <1>3
<1> QED
  BY <1>1, <1>2, <1>4, <1>5, QuietStep

\* The operations on semaphores that are not part of a lock.
LEMMA SemaStepOK ==
  ASSUME Inv, NEW t \in Thread, SemaStep(t)
  PROVE  Inv' /\ SchedStep
<1>1. /\ priority \in [Thread -> Priority] /\ original_priority \in [Thread -> Priority]
      /\ donor_threads \in [Thread -> SUBSET Thread]
      /\ blocking_lock \in [Thread -> Lock \cup {NULL}]
      /\ holder \in [Lock -> Thread \cup {NULL}]
      /\ pc \in [Thread -> Labels] /\ arg \in [Thread -> Thread \cup Sema \cup {NULL}]
      /\ value \in [Sema -> Nat]
      /\ QueueOK(status, ready_list, priority)
  BY Running DEF Inv, TypeOK
<1>2. ASSUME NEW s \in Semaphore
      PROVE  /\ s \in Sema /\ s \notin Lock
             /\ Take(s) => /\ value' \in [Sema -> Nat] /\ waiters' = waiters
                           /\ \A l \in Lock : value'[l] = value[l]
             /\ value' = [value EXCEPT ![s] = @ + 1] =>
                  /\ value' \in [Sema -> Nat]
                  /\ \A l \in Lock : value'[l] = value[l]
  <2>1. s \in Sema /\ s \notin Lock
    BY SynchAssumption DEF Sema
  <2>2. CASE Take(s)
    <3>1. value[s] - 1 \in Nat
      BY <1>1, <2>1, <2>2 DEF Take
    <3>2. value' = [value EXCEPT ![s] = value[s] - 1] /\ waiters' = waiters
      BY <2>2 DEF Take
    <3>3. value' \in [Sema -> Nat] /\ \A l \in Lock : value'[l] = value[l]
      BY <1>1, <2>1, <3>1, <3>2 DEF Sema
    <3> QED
      BY <2>1, <3>2, <3>3
  <2>3. CASE value' = [value EXCEPT ![s] = @ + 1]
    <3>1. value[s] + 1 \in Nat
      BY <1>1, <2>1
    <3>2. value' \in [Sema -> Nat] /\ \A l \in Lock : value'[l] = value[l]
      BY <1>1, <2>1, <2>3, <3>1, Zenon DEF Sema
    <3> QED
      BY <2>1, <2>3, <3>2 DEF Take
  <2> QED
    BY <2>1, <2>2, <2>3
<1>3. CASE \E s \in Semaphore : sema_down(t, s)
  <2>1. PICK s \in Semaphore : sema_down(t, s)
    BY <1>3
  <2>2. /\ current = t /\ pc[t] = "run"
        /\ priority' = priority /\ original_priority' = original_priority
        /\ donor_threads' = donor_threads /\ blocking_lock' = blocking_lock
        /\ holder' = holder
    BY <2>1 DEF sema_down, Runs
  <2>3. CASE /\ Take(s) /\ status' = status /\ current' = current
             /\ ready_list' = ready_list /\ pc' = pc /\ arg' = arg
    <3>1. /\ value' \in [Sema -> Nat] /\ waiters' = waiters
          /\ \A l \in Lock : value'[l] = value[l]
      BY <1>2, <2>3
    <3>2. SchedStep
      BY <2>2, <2>3, <3>1, MaybeYield, Zenon
    <3>3. DataTypes'
      BY <1>1, <2>2, <2>3, <3>1, Zenon DEF DataTypes
    <3> QED
      BY <2>2, <2>3, <3>1, <3>2, <3>3, StayStep, Zenon
  <2>4. CASE WaitFor(s, "down", priority, ready_list)
    BY <1>1, <1>2, <2>2, <2>4, WaitStepOK, Zenon
  <2> QED
    BY <2>1, <2>3, <2>4, Zenon DEF sema_down
<1>4. CASE \E s \in Semaphore : sema_try_down(t, s)
  <2>1. PICK s \in Semaphore : sema_try_down(t, s)
    BY <1>4
  <2>2. /\ Take(s) /\ status' = status /\ current' = current
        /\ ready_list' = ready_list /\ pc' = pc /\ arg' = arg
        /\ priority' = priority /\ original_priority' = original_priority
        /\ donor_threads' = donor_threads /\ blocking_lock' = blocking_lock
        /\ holder' = holder
    BY <2>1 DEF sema_try_down, threadVars
  <2>3. /\ value' \in [Sema -> Nat] /\ waiters' = waiters
        /\ \A l \in Lock : value'[l] = value[l]
    BY <1>2, <2>2
  <2>4. SchedStep
    BY <2>2, <2>3, MaybeYield, Zenon
  <2>5. DataTypes'
    BY <1>1, <2>2, <2>3, Zenon DEF DataTypes
  <2> QED
    BY <2>2, <2>3, <2>4, <2>5, StayStep, Zenon
<1>5. CASE \E s \in Semaphore : sema_up(t, s)
  <2>1. PICK s \in Semaphore : sema_up(t, s)
    BY <1>5
  <2>2. /\ SemaUp(s, FALSE)
        /\ priority' = priority /\ original_priority' = original_priority
        /\ donor_threads' = donor_threads /\ blocking_lock' = blocking_lock
        /\ holder' = holder /\ pc' = pc /\ arg' = arg
    BY <2>1, Zenon DEF sema_up
  <2>3. value' = [value EXCEPT ![s] = @ + 1]
    BY <2>2 DEF SemaUp
  <2>4. s \in Sema /\ value' \in [Sema -> Nat] /\ \A l \in Lock : value'[l] = value[l]
    BY <1>2, <2>3, Zenon
  <2>5. SchedStep
    BY <2>2, <2>4, SemaUpStep, Zenon
  <2>6. DataTypes'
    BY <1>1, <2>2, <2>4, Zenon DEF DataTypes
  <2> QED
    BY <2>2, <2>4, <2>5, <2>6, StayStep, Zenon
<1>6. CASE sema_down_resume(t)
  <2>1. PICK s : s = arg[t]
    OBVIOUS
  <2>2. /\ current = t /\ pc[t] = "down"
        /\ priority' = priority /\ original_priority' = original_priority
        /\ donor_threads' = donor_threads /\ blocking_lock' = blocking_lock
        /\ holder' = holder
        /\ \/ /\ Take(s) /\ Goto(t, "run", NULL) /\ status' = status
              /\ current' = current /\ ready_list' = ready_list
           \/ WaitFor(s, "down", priority, ready_list)
    BY <1>6, <2>1, Zenon DEF sema_down_resume
  <2>3. s \in Semaphore
    BY <2>1, <2>2, Zenon DEF Inv, LockInv
  <2>4. CASE /\ Take(s) /\ Goto(t, "run", NULL) /\ status' = status
             /\ current' = current /\ ready_list' = ready_list
    <3>1. /\ value' \in [Sema -> Nat] /\ waiters' = waiters
          /\ \A l \in Lock : value'[l] = value[l]
      BY <1>2, <2>3, <2>4, Zenon
    <3>2. \A u \in Thread : u # current => arg'[u] = arg[u]
      BY <1>1, <2>2, <2>4, Zenon DEF Goto
    <3>3. SchedStep
      BY <2>2, <2>4, <3>1, <3>2, MaybeYield, Zenon
    <3>4. "run" \in Labels /\ NULL \in Thread \cup Sema \cup {NULL}
      BY Zenon DEF Labels
    <3> QED
      BY <1>1, <2>2, <2>4, <3>1, <3>3, <3>4, QuietStep, Zenon
  <2>5. CASE WaitFor(s, "down", priority, ready_list)
    BY <1>1, <1>2, <2>2, <2>3, <2>5, WaitStepOK, Zenon
  <2> QED
    BY <2>2, <2>4, <2>5
<1> QED
  BY <1>3, <1>4, <1>5, <1>6, Zenon DEF SemaStep

\* The thread that takes the semaphore of a lock becomes its holder.
LEMMA OwnStepOK ==
  ASSUME Inv, NEW t \in Thread, current = t, NEW l \in Lock, Take(l), Own(t, l),
         pc[t] \in {"run", "acquire"}, pc'[t] = "run",
         pc' \in [Thread -> Labels], arg' \in [Thread -> Thread \cup Sema \cup {NULL}],
         ArgsOK',
         \A u \in Thread : u # current => pc'[u] = pc[u] /\ arg'[u] = arg[u],
         status' = status, current' = current, ready_list' = ready_list,
         priority' = priority, original_priority' = original_priority,
         donor_threads' = donor_threads
  PROVE  Inv' /\ SchedStep
<1>1. /\ priority \in [Thread -> Priority] /\ original_priority \in [Thread -> Priority]
      /\ donor_threads \in [Thread -> SUBSET Thread]
      /\ blocking_lock \in [Thread -> Lock \cup {NULL}]
      /\ holder \in [Lock -> Thread \cup {NULL}]
      /\ value \in [Sema -> Nat] /\ LockAccounting
  BY DEF Inv, TypeOK, LockInv
<1>2. /\ value[l] > 0 /\ value' = [value EXCEPT ![l] = value[l] - 1] /\ waiters' = waiters
      /\ holder' = [holder EXCEPT ![l] = t]
      /\ blocking_lock' = [blocking_lock EXCEPT ![t] = NULL]
  BY Zenon DEF Take, Own
<1>3. \A u \in Thread : ~Owns(u, l)
  BY <1>1, <1>2, SMTT(20) DEF LockAccounting
<1>4. \A u \in Thread, k \in Lock : Owns(u, k)' <=> Owns(u, k) \/ (u = t /\ k = l)
  BY <1>1, <1>2, <1>3, Zenon DEF Owns
<1>5. LockAccounting'
  BY <1>4, NewOwner, Zenon
<1>6. SchedStep
  BY <1>2, MaybeYield, Zenon
<1>7. value' \in [Sema -> Nat]
  <2>1. l \in Sema /\ value[l] - 1 \in Nat
    BY <1>1, <1>2, SMTT(20) DEF Sema
  <2> QED
    BY <1>1, <1>2, <2>1, Zenon
<1>8. /\ holder' \in [Lock -> Thread \cup {NULL}]
      /\ blocking_lock' \in [Thread -> Lock \cup {NULL}]
  BY <1>1, <1>2, Zenon
<1>9. DataTypes'
  BY <1>1, <1>7, <1>8, Zenon DEF DataTypes
<1>10. Local
  BY <1>1, <1>2, Zenon DEF Local
<1>11. HandOver'
  <2>1. \A u \in Thread : pc[u] \in {"try_acquire", "release"} => arg[u] # l
    BY <1>3 DEF Owns
  <2> QED
    BY <1>1, <1>2, <2>1, SMTT(20) DEF HandOver, Inv, LockInv
<1> QED
  BY <1>5, <1>6, <1>9, <1>10, <1>11, InvStep, Zenon

\* lock_acquire.
LEMMA AcquireOK ==
  ASSUME Inv, NEW t \in Thread,
         \/ \E l \in Lock : lock_acquire_free(t, l) \/ lock_acquire_held(t, l)
         \/ lock_acquire_resume(t)
  PROVE  Inv' /\ SchedStep
<1>1. /\ priority \in [Thread -> Priority]
      /\ donor_threads \in [Thread -> SUBSET Thread]
      /\ blocking_lock \in [Thread -> Lock \cup {NULL}]
      /\ holder \in [Lock -> Thread \cup {NULL}]
      /\ pc \in [Thread -> Labels] /\ arg \in [Thread -> Thread \cup Sema \cup {NULL}]
      /\ QueueOK(status, ready_list, priority) /\ TypeOK /\ ArgsOK
  BY Running DEF Inv, TypeOK, LockInv, ArgsOK
<1>2. \A l \in Lock : l \in Sema
  BY DEF Sema
<1>3. CASE \E l \in Lock : lock_acquire_free(t, l)
  <2>1. PICK l \in Lock : lock_acquire_free(t, l)
    BY <1>3, Zenon
  <2>2. /\ current = t /\ pc[t] = "run"
        /\ priority' = priority /\ original_priority' = original_priority
        /\ donor_threads' = donor_threads
        /\ \/ /\ Take(l) /\ Own(t, l) /\ status' = status /\ current' = current
              /\ ready_list' = ready_list /\ pc' = pc /\ arg' = arg
           \/ /\ WaitFor(l, "acquire", priority, ready_list)
              /\ holder' = holder /\ blocking_lock' = blocking_lock
    BY <2>1, Zenon DEF lock_acquire_free, Runs
  <2>3. CASE /\ Take(l) /\ Own(t, l) /\ status' = status /\ current' = current
             /\ ready_list' = ready_list /\ pc' = pc /\ arg' = arg
    <3>1. ArgsOK'
      BY <1>1, <2>3, Zenon DEF ArgsOK
    <3> QED
      BY <1>1, <2>2, <2>3, <3>1, OwnStepOK, Zenon
  <2>4. CASE /\ WaitFor(l, "acquire", priority, ready_list)
             /\ holder' = holder /\ blocking_lock' = blocking_lock
    BY <1>1, <1>2, <2>2, <2>4, WaitStepOK, Zenon
  <2> QED
    BY <2>2, <2>3, <2>4
<1>4. CASE \E l \in Lock : lock_acquire_held(t, l)
  <2>1. PICK l \in Lock : lock_acquire_held(t, l)
    BY <1>4
  <2>2. PICK w : w = Propagate(t, l, priority)
    OBVIOUS
  <2>3. /\ current = t /\ pc[t] = "run" /\ holder[l] \notin {NULL, t}
        /\ blocking_lock' = [blocking_lock EXCEPT ![t] = l]
        /\ donor_threads' = [donor_threads EXCEPT ![holder[l]] = @ \cup {t}]
        /\ priority' = w.pri /\ WaitFor(l, "acquire", w.pri, w.ready)
        /\ original_priority' = original_priority /\ holder' = holder
    BY <2>1, <2>2, Zenon DEF lock_acquire_held, Runs
  <2>4. WalkOK(w)
    <3>1. l \in Lock \cup {NULL}
      OBVIOUS
    <3> QED
      BY <1>1, <2>2, <3>1, PropagateOK, Zenon
  <2>5. w.pri \in [Thread -> Priority] /\ QueueOK(status, w.ready, w.pri)
    BY <2>4 DEF WalkOK
  <2>6. PICK pri, rl : pri = w.pri /\ rl = w.ready
    BY Zenon
  <2>7. /\ pri \in [Thread -> Priority] /\ QueueOK(status, rl, pri)
        /\ priority' = pri /\ WaitFor(l, "acquire", pri, rl)
    BY <2>3, <2>5, <2>6, Zenon
  <2>8. blocking_lock' \in [Thread -> Lock \cup {NULL}]
    BY <1>1, <2>3, Zenon
  <2>9. donor_threads' \in [Thread -> SUBSET Thread]
    BY <1>1, <2>3, Zenon
  <2>10. pc[t] \notin {"try_acquire", "release"} /\ "acquire" \in {"down", "acquire"}
    BY <2>3, Zenon
  <2> QED
    BY <1>2, <2>3, <2>7, <2>8, <2>9, <2>10, WaitStepOK
<1>5. CASE lock_acquire_resume(t)
  <2>1. PICK l : l = arg[t]
    BY Zenon
  <2>2. /\ current = t /\ pc[t] = "acquire"
        /\ priority' = priority /\ original_priority' = original_priority
        /\ donor_threads' = donor_threads
        /\ \/ /\ Take(l) /\ Own(t, l) /\ Goto(t, "run", NULL) /\ status' = status
              /\ current' = current /\ ready_list' = ready_list
           \/ /\ WaitFor(l, "acquire", priority, ready_list)
              /\ holder' = holder /\ blocking_lock' = blocking_lock
    BY <1>5, <2>1, Zenon DEF lock_acquire_resume
  <2>3. l \in Lock
    BY <1>1, <2>1, <2>2, Zenon DEF ArgsOK
  <2>4. CASE /\ Take(l) /\ Own(t, l) /\ Goto(t, "run", NULL) /\ status' = status
             /\ current' = current /\ ready_list' = ready_list
    <3>1. "run" \in Labels /\ NULL \in Thread \cup Sema \cup {NULL}
      BY Zenon DEF Labels
    <3>2. /\ pc' \in [Thread -> Labels]
          /\ arg' \in [Thread -> Thread \cup Sema \cup {NULL}]
          /\ ArgsOK' /\ pc'[t] = "run"
          /\ \A u \in Thread : u # current => pc'[u] = pc[u] /\ arg'[u] = arg[u]
      BY <2>2, <2>4, <3>1, GotoStep, Zenon
    <3> QED
      BY <2>2, <2>3, <2>4, <3>2, OwnStepOK, Zenon
  <2>5. CASE /\ WaitFor(l, "acquire", priority, ready_list)
             /\ holder' = holder /\ blocking_lock' = blocking_lock
    BY <1>1, <1>2, <2>2, <2>3, <2>5, WaitStepOK, Zenon
  <2> QED
    BY <2>2, <2>4, <2>5, Zenon
<1> QED
  BY <1>3, <1>4, <1>5, Zenon

\* lock_try_acquire and lock_release, each in its two parts.
LEMMA TryAndReleaseOK ==
  ASSUME Inv, NEW t \in Thread,
         \/ \E l \in Lock : lock_try_acquire(t, l) \/ lock_release(t, l)
         \/ lock_try_acquire_hold(t)
         \/ lock_release_up(t)
  PROVE  Inv' /\ SchedStep
<1>1. /\ priority \in [Thread -> Priority] /\ original_priority \in [Thread -> Priority]
      /\ donor_threads \in [Thread -> SUBSET Thread]
      /\ blocking_lock \in [Thread -> Lock \cup {NULL}]
      /\ holder \in [Lock -> Thread \cup {NULL}]
      /\ pc \in [Thread -> Labels] /\ arg \in [Thread -> Thread \cup Sema \cup {NULL}]
      /\ value \in [Sema -> Nat] /\ LockAccounting /\ ArgsOK /\ HandOver
  BY DEF Inv, TypeOK, LockInv, ArgsOK
<1>2. /\ "run" \in Labels /\ "try_acquire" \in Labels /\ "release" \in Labels
      /\ NULL \in Thread \cup Sema \cup {NULL}
      /\ \A l \in Lock : l \in Sema /\ l \in Thread \cup Sema \cup {NULL}
  BY Zenon DEF Labels, Sema
<1>3. CASE \E l \in Lock : lock_try_acquire(t, l)
  <2>1. PICK l \in Lock : lock_try_acquire(t, l)
    BY <1>3, Zenon
  <2>2. /\ current = t /\ pc[t] = "run" /\ holder[l] # t /\ Take(l)
        /\ Goto(t, "try_acquire", l)
        /\ status' = status /\ current' = current /\ ready_list' = ready_list
        /\ priority' = priority /\ original_priority' = original_priority
        /\ donor_threads' = donor_threads /\ blocking_lock' = blocking_lock
        /\ holder' = holder
    BY <2>1, Zenon DEF lock_try_acquire, Runs
  <2>3. /\ value[l] > 0 /\ value' = [value EXCEPT ![l] = value[l] - 1]
        /\ waiters' = waiters
    BY <2>2, Zenon DEF Take
  <2>4. /\ pc' \in [Thread -> Labels]
        /\ arg' \in [Thread -> Thread \cup Sema \cup {NULL}]
        /\ ArgsOK' /\ pc'[t] = "try_acquire" /\ arg'[t] = l
        /\ \A u \in Thread : u # current => pc'[u] = pc[u] /\ arg'[u] = arg[u]
    BY <1>2, <2>2, GotoStep
  <2>5. \A u \in Thread, k \in Lock : Owns(u, k)' <=> Owns(u, k) \/ (u = t /\ k = l)
    BY <2>2, <2>4, Zenon DEF Owns
  <2>6. LockAccounting'
    BY <2>2, <2>5, NewOwner
  <2>7. value' \in [Sema -> Nat]
    <3>1. value[l] - 1 \in Nat
      BY <1>1, <1>2, <2>3, SMTT(20)
    <3> QED
      BY <1>1, <2>3, <3>1, Zenon
  <2>8. DataTypes' /\ Local
    BY <1>1, <2>2, <2>4, <2>7, Zenon DEF DataTypes, Local
  <2>9. SchedStep
    BY <2>2, <2>3, <2>4, MaybeYield, Zenon
  <2>10. HandOver'
    <3>1. \A u \in Thread : ~Owns(u, l)
      BY <1>1, <2>3 DEF LockAccounting
    <3>2. holder[l] = NULL
      BY <1>1, <3>1, Zenon DEF Owns
    <3> QED
      BY <1>1, <2>2, <2>4, <3>2, Zenon DEF HandOver
  <2> QED
    BY <2>4, <2>6, <2>8, <2>9, <2>10, InvStep, Zenon
<1>4. CASE lock_try_acquire_hold(t)
  <2>1. PICK l : l = arg[t]
    BY Zenon
  <2>2. /\ current = t /\ pc[t] = "try_acquire"
        /\ holder' = [holder EXCEPT ![l] = t] /\ Goto(t, "run", NULL)
        /\ status' = status /\ current' = current /\ ready_list' = ready_list
        /\ priority' = priority /\ original_priority' = original_priority
        /\ donor_threads' = donor_threads /\ blocking_lock' = blocking_lock
        /\ value' = value /\ waiters' = waiters
    BY <1>4, <2>1, Zenon DEF lock_try_acquire_hold
  <2>3. l \in Lock /\ Owns(t, l)
    BY <1>1, <2>1, <2>2 DEF ArgsOK, Owns
  <2>4. \A u \in Thread : Owns(u, l) => u = t
    BY <1>1, <2>3, Zenon DEF LockAccounting
  <2>5. /\ pc' \in [Thread -> Labels]
        /\ arg' \in [Thread -> Thread \cup Sema \cup {NULL}]
        /\ ArgsOK' /\ pc'[t] = "run"
        /\ \A u \in Thread : u # current => pc'[u] = pc[u] /\ arg'[u] = arg[u]
    BY <1>2, <2>2, GotoStep, Zenon
  <2>6. \A k \in Lock : holder'[k] = IF k = l THEN t ELSE holder[k]
    BY <1>1, <2>2
  <2>7. ASSUME NEW u \in Thread, NEW k \in Lock
        PROVE  Owns(u, k)' <=> Owns(u, k)
    <3>1. CASE u = t
      BY <3>1, <2>1, <2>2, <2>5, <2>6, Zenon DEF Owns
    <3>2. CASE u # t
      BY <3>2, <2>2, <2>4, <2>5, <2>6, SMTT(20) DEF Owns
    <3> QED
      BY <3>1, <3>2, Zenon
  <2>8. LockAccounting'
    BY <2>2, <2>7, SameOwners
  <2>9. holder' \in [Lock -> Thread \cup {NULL}]
    BY <1>1, <2>2, Zenon
  <2>10. DataTypes' /\ Local
    BY <1>1, <2>2, <2>5, <2>6, <2>9, Zenon DEF DataTypes, Local
  <2>11. SchedStep
    BY <2>2, <2>5, MaybeYield, Zenon
  <2>12. HandOver'
    <3>1. \A u \in Thread : pc'[u] \in {"try_acquire", "release"} =>
                              pc[u] = pc'[u] /\ arg'[u] = arg[u] /\ arg[u] # l
      BY <2>2, <2>4, <2>5, Zenon DEF Owns
    <3>2. \A u \in Thread : pc'[u] \in {"try_acquire", "release"} => arg[u] \in Lock
      BY <1>1, <3>1, Zenon DEF ArgsOK
    <3> QED
      BY <1>1, <2>6, <3>1, <3>2, SMTT(20) DEF HandOver
  <2> QED
    BY <2>5, <2>8, <2>10, <2>11, <2>12, InvStep, Zenon
<1>5. CASE \E l \in Lock : lock_release(t, l)
  <2>1. PICK l \in Lock : lock_release(t, l)
    BY <1>5
  <2>2. PICK p : p = DonatedPriority(t, original_priority, donor_threads')
    BY Zenon
  <2>3. /\ current = t /\ pc[t] = "run" /\ holder[l] = t
        /\ donor_threads' = [donor_threads EXCEPT ![t] = {d \in @ : blocking_lock[d] # l}]
        /\ holder' = [holder EXCEPT ![l] = NULL]
        /\ priority' = [priority EXCEPT ![t] = p]
        /\ Goto(t, "release", l)
        /\ status' = status /\ current' = current /\ ready_list' = ready_list
        /\ original_priority' = original_priority /\ blocking_lock' = blocking_lock
        /\ value' = value /\ waiters' = waiters
    BY <2>1, <2>2, Zenon DEF lock_release, Runs
  <2>4. donor_threads' \in [Thread -> SUBSET Thread]
    BY <1>1, <2>3
  <2>5. p \in Priority
    BY <1>1, <2>2, <2>4, DonatedPriorityType, Zenon
  <2>6. priority' \in [Thread -> Priority] /\ QueueOK(status, ready_list, priority')
    BY <2>3, <2>5, OwnPriority, Zenon
  <2>7. /\ pc' \in [Thread -> Labels]
        /\ arg' \in [Thread -> Thread \cup Sema \cup {NULL}]
        /\ ArgsOK' /\ pc'[t] = "release" /\ arg'[t] = l
        /\ \A u \in Thread : u # current => pc'[u] = pc[u] /\ arg'[u] = arg[u]
    BY <1>2, <2>3, GotoStep, SMTT(20)
  <2>8. \A k \in Lock : holder'[k] = IF k = l THEN NULL ELSE holder[k]
    BY <1>1, <2>3
  <2>9. ASSUME NEW u \in Thread, NEW k \in Lock
        PROVE  Owns(u, k)' <=> Owns(u, k)
    <3>1. u # NULL
      BY ThreadAssumption
    <3>2. CASE u = t
      BY <3>1, <3>2, <2>3, <2>7, <2>8, Zenon DEF Owns
    <3>3. CASE u # t
      BY <3>1, <3>3, <2>3, <2>7, <2>8, Zenon DEF Owns
    <3> QED
      BY <3>2, <3>3, Zenon
  <2>10. LockAccounting'
    BY <2>3, <2>9, SameOwners, Zenon
  <2>11. holder' \in [Lock -> Thread \cup {NULL}]
    BY <1>1, <2>3, Zenon
  <2>12. DataTypes' /\ Local
    BY <1>1, <2>3, <2>4, <2>6, <2>7, <2>8, <2>11 DEF DataTypes, Local
  <2>13. SchedStep
    <3>1. QueueOK(status, ready_list', priority')
      BY <2>3, <2>6, Zenon
    <3> QED
      BY <2>3, <2>7, <3>1, Reprioritise, Zenon
  <2>14. HandOver'
    <3>1. \A u \in Thread : pc'[u] \in {"try_acquire", "release"} => arg'[u] \in Lock
      BY <2>7, Zenon DEF ArgsOK
    <3> QED
      BY <1>1, <2>3, <2>7, <2>8, <3>1 DEF HandOver
  <2> QED
    BY <2>7, <2>10, <2>12, <2>13, <2>14, InvStep, Zenon
<1>6. CASE lock_release_up(t)
  <2>1. PICK l : l = arg[t]
    OBVIOUS
  <2>2. /\ current = t /\ pc[t] = "release" /\ SemaUp(l, FALSE) /\ Goto(t, "run", NULL)
        /\ priority' = priority /\ original_priority' = original_priority
        /\ donor_threads' = donor_threads /\ blocking_lock' = blocking_lock
        /\ holder' = holder
    BY <1>6, <2>1, Zenon DEF lock_release_up
  <2>3. l \in Lock /\ Owns(t, l)
    BY <1>1, <2>1, <2>2 DEF ArgsOK, Owns
  <2>4. value' = [value EXCEPT ![l] = @ + 1]
    BY <2>2, Zenon DEF SemaUp
  <2>5. /\ pc' \in [Thread -> Labels]
        /\ arg' \in [Thread -> Thread \cup Sema \cup {NULL}]
        /\ ArgsOK' /\ pc'[t] = "run"
        /\ \A u \in Thread : u # current => pc'[u] = pc[u] /\ arg'[u] = arg[u]
    BY <1>2, <2>2, GotoStep, Zenon
  <2>6. SchedStep
    BY <1>2, <2>2, <2>3, <2>5, SemaUpStep, Zenon
  <2>7. holder[l] # t
    BY <1>1, <2>1, <2>2, ThreadAssumption DEF HandOver
  <2>8. ASSUME NEW u \in Thread, NEW k \in Lock
        PROVE  Owns(u, k)' <=> Owns(u, k) /\ ~(u = t /\ k = l)
    <3>1. CASE u = t
      BY <3>1, <2>1, <2>2, <2>5, <2>7, Zenon DEF Owns
    <3>2. CASE u # t
      BY <3>2, <2>2, <2>5, Zenon DEF Owns
    <3> QED
      BY <3>1, <3>2, Zenon
  <2>9. LockAccounting'
    BY <2>3, <2>4, <2>8, OldOwner, Zenon
  <2>10. value' \in [Sema -> Nat]
    <3>1. value[l] + 1 \in Nat
      BY <1>1, <1>2, <2>3
    <3> QED
      BY <1>1, <2>4, <3>1, Zenon
  <2>11. DataTypes' /\ Local
    BY <1>1, <2>2, <2>5, <2>10, Zenon DEF DataTypes, Local
  <2>12. HandOver'
    BY <1>1, <2>2, <2>5, Zenon DEF HandOver
  <2> QED
    BY <2>5, <2>6, <2>9, <2>11, <2>12, InvStep, Zenon
<1> QED
  BY <1>3, <1>4, <1>5, <1>6, Zenon

\* The steps of no thread in particular: interrupt handlers, the idle thread
\* and the end of a time slice.
LEMMA OtherStepOK ==
  ASSUME Inv,
         \/ \E s \in Semaphore : sema_up_interrupt(s)
         \/ (idle \/ Preempt) /\ UNCHANGED <<value, waiters>>
  PROVE  Inv' /\ SchedStep
<1>1. /\ priority \in [Thread -> Priority] /\ original_priority \in [Thread -> Priority]
      /\ donor_threads \in [Thread -> SUBSET Thread]
      /\ blocking_lock \in [Thread -> Lock \cup {NULL}]
      /\ holder \in [Lock -> Thread \cup {NULL}]
      /\ pc \in [Thread -> Labels] /\ arg \in [Thread -> Thread \cup Sema \cup {NULL}]
      /\ value \in [Sema -> Nat]
  BY Zenon DEF Inv, TypeOK
<1>2. /\ priority' = priority /\ original_priority' = original_priority
      /\ donor_threads' = donor_threads /\ blocking_lock' = blocking_lock
      /\ holder' = holder /\ pc' = pc /\ arg' = arg
  BY Zenon DEF sema_up_interrupt, idle, Preempt
<1>3. CASE \E s \in Semaphore : sema_up_interrupt(s)
  <2>1. PICK s \in Semaphore : sema_up_interrupt(s)
    BY <1>3
  <2>2. SemaUp(s, TRUE) /\ value' = [value EXCEPT ![s] = @ + 1]
    BY <2>1 DEF sema_up_interrupt, SemaUp
  <2>3. s \in Sema /\ s \notin Lock
    BY SynchAssumption, Zenon DEF Sema
  <2>4. value[s] + 1 \in Nat
    BY <1>1, <2>3, SMTT(20)
  <2>5. value' \in [Sema -> Nat] /\ \A l \in Lock : value'[l] = value[l]
    BY <1>1, <2>2, <2>3, <2>4, Zenon DEF Sema
  <2>6. SchedStep
    BY <1>2, <2>2, <2>3, SemaUpStep, Zenon
  <2>7. DataTypes'
    BY <1>1, <1>2, <2>5 DEF DataTypes
  <2> QED
    BY <1>2, <2>5, <2>6, <2>7, StayStep
<1>4. CASE (idle \/ Preempt) /\ UNCHANGED <<value, waiters>>
  <2>1. value' = value /\ waiters' = waiters
    BY <1>4, Zenon
  <2>2. DataTypes'
    BY <1>1, <1>2, <2>1, Zenon DEF DataTypes
  <2>3. SchedStep
    <3>1. CASE idle
      BY <2>1, <3>1, IdleStep, Zenon
    <3>2. CASE Preempt
      <4>1. thread_yield(status, ready_list)
        BY <3>2 DEF Preempt
      <4> QED
        BY <1>2, <2>1, <4>1, MaybeYield, Zenon
    <3> QED
      BY <1>4, <3>1, <3>2
  <2> QED
    BY <1>2, <2>1, <2>2, <2>3, StayStep, Zenon
<1> QED
  BY <1>3, <1>4, Zenon

----------------------------------------------------------------------------
(* The theorems *)

\* Every step of Next keeps the invariant.
LEMMA NextOK ==
  ASSUME Inv, Next
  PROVE  Inv' /\ SchedStep
<1>1. ASSUME NEW t \in Thread, LockStep(t)
      PROVE  Inv' /\ SchedStep
  <2>1. \/ \/ \E l \in Lock : lock_acquire_free(t, l) \/ lock_acquire_held(t, l)
           \/ lock_acquire_resume(t)
        \/ \/ \E l \in Lock : lock_try_acquire(t, l) \/ lock_release(t, l)
           \/ lock_try_acquire_hold(t)
           \/ lock_release_up(t)
    BY <1>1, Zenon DEF LockStep
  <2> QED
    BY <2>1, AcquireOK, TryAndReleaseOK, Zenon
<1>2. CASE \E t \in Thread : ThreadStep(t) \/ SemaStep(t) \/ LockStep(t)
  BY <1>1, <1>2, ThreadStepOK, SemaStepOK, Zenon
<1>3. CASE \/ \E s \in Semaphore : sema_up_interrupt(s)
           \/ (idle \/ Preempt) /\ UNCHANGED <<value, waiters>>
  BY <1>3, OtherStepOK, Zenon
<1> QED
  BY <1>2, <1>3, Zenon DEF Next

\* The invariant holds when main starts: one thread, no lock held.
LEMMA InitOK == Init => Inv
<1> SUFFICES ASSUME Init PROVE Inv
  OBVIOUS
<1>1. PICK p \in Priority :
        /\ status = [t \in Thread \cup {Idle} |->
                       CASE t = InitialThread -> "running"
                         [] t = Idle -> "blocked"
                         [] OTHER -> "free"]
        /\ current = InitialThread
        /\ ready_list = <<>>
        /\ priority = [t \in Thread |-> p]
        /\ original_priority = [t \in Thread |-> p]
        /\ donor_threads = [t \in Thread |-> {}]
        /\ blocking_lock = [t \in Thread |-> NULL]
        /\ holder = [l \in Lock |-> NULL]
        /\ pc = [t \in Thread |-> "run"]
        /\ arg = [t \in Thread |-> NULL]
  BY DEF Init, ThreadInit
<1>2. /\ value \in [Sema -> 0..MaxValue] /\ \A l \in Lock : value[l] = 1
      /\ waiters = [s \in Sema |-> <<>>]
  BY DEF Init
<1>3. InitialThread \in Thread /\ Idle \notin Thread /\ InitialThread # Idle
      /\ NULL \notin Thread
  BY ThreadAssumption
<1>4. /\ status[InitialThread] = "running"
      /\ \A t \in Thread : t # InitialThread => status[t] = "free"
      /\ status[Idle] = "blocked"
  BY <1>1, <1>3
<1>5. status \in [Page -> ThreadStatus]
  <2>1. \A t \in Page : status[t] \in ThreadStatus
    BY <1>3, <1>4, Zenon DEF Page, ThreadStatus
  <2>2. status = [t \in Page |-> status[t]]
    BY <1>1 DEF Page
  <2> QED
    BY <2>1, <2>2, Zenon
<1>6. \A s \in Seq(Thread) : s = <<>> => Range(s) = {} /\ IsInjective(s)
  <2>1. ASSUME NEW s \in Seq(Thread), s = <<>>
        PROVE  Range(s) = {} /\ IsInjective(s)
    <3>1. 1..Len(s) = {}
      BY <2>1
    <3>2. /\ \A x : x \in Range(s) <=> \E i \in 1..Len(s) : s[i] = x
          /\ IsInjective(s) <=> \A i, j \in 1..Len(s) : s[i] = s[j] => i = j
      BY Members
    <3> QED
      BY <3>1, <3>2
  <2> QED
    BY <2>1, Zenon
<1>7. TypeOK
  <2>1. value \in [Sema -> Nat]
    <3>1. 0..MaxValue \subseteq Nat
      BY SynchAssumption
    <3> QED
      BY <1>2, <3>1
  <2>2. waiters \in [Sema -> Seq(Thread)] /\ ready_list \in Seq(Thread)
    BY <1>1, <1>2
  <2>3. priority \in [Thread -> Priority] /\ original_priority \in [Thread -> Priority]
    BY <1>1
  <2>4. /\ donor_threads \in [Thread -> SUBSET Thread]
        /\ blocking_lock \in [Thread -> Lock \cup {NULL}]
        /\ holder \in [Lock -> Thread \cup {NULL}]
    BY <1>1
  <2>5. pc \in [Thread -> Labels] /\ arg \in [Thread -> Thread \cup Sema \cup {NULL}]
    BY <1>1 DEF Labels
  <2>6. current \in Thread \cup {Idle}
    BY <1>1, <1>3
  <2> QED
    BY <1>5, <2>1, <2>2, <2>3, <2>4, <2>5, <2>6 DEF TypeOK, Page
<1>8. SchedInv
  <2>1. QueueOK(status, ready_list, priority)
    <3>1. {t \in Thread : status[t] = "ready"} = {}
      BY <1>4
    <3>2. ready_list \in Seq(Thread) /\ Range(ready_list) = {} /\ IsInjective(ready_list)
      BY <1>1, <1>6, <1>7, Zenon DEF TypeOK
    <3>3. Descending(ready_list, priority)
      BY <1>1 DEF Descending
    <3> QED
      BY <3>1, <3>2, <3>3, Zenon DEF QueueOK
  <2>2. Lists(status, arg, waiters)
    <3>1. waiters \in [Sema -> Seq(Thread)]
      BY <1>7 DEF TypeOK
    <3>2. ASSUME NEW s \in Sema
          PROVE  /\ IsInjective(waiters[s])
                 /\ Range(waiters[s]) = {t \in Thread : status[t] = "blocked" /\ arg[t] = s}
      <4>1. waiters[s] = <<>> /\ waiters[s] \in Seq(Thread)
        BY <1>2
      <4>2. IsInjective(waiters[s]) /\ Range(waiters[s]) = {}
        BY <1>6, <4>1, Zenon
      <4>3. \A t \in Thread : status[t] # "blocked"
        BY <1>4
      <4> QED
        BY <4>2, <4>3
    <3> QED
      BY <3>1, <3>2 DEF Lists
  <2> QED
    BY <1>1, <1>4, <2>1, <2>2, Zenon DEF SchedInv
<1>9. LockInv
  <2>1. \A t \in Thread : pc[t] = "run" /\ \A l \in Lock : holder[l] = NULL /\ holder[l] # t
    BY <1>1, <1>3, Zenon
  <2>2. \A t \in Thread, l \in Lock : ~Owns(t, l)
    BY <2>1, Zenon DEF Owns
  <2>3. LockAccounting
    BY <1>2, <2>2 DEF LockAccounting
  <2> QED
    BY <2>1, <2>3 DEF LockInv, HandOver
<1> QED
  BY <1>7, <1>8, <1>9 DEF Inv

\* Nothing changes in a stuttering step.
LEMMA StutterOK ==
  ASSUME Inv, UNCHANGED vars
  PROVE  Inv'
<1>1. /\ status' = status /\ current' = current /\ ready_list' = ready_list
      /\ priority' = priority /\ original_priority' = original_priority
      /\ donor_threads' = donor_threads /\ blocking_lock' = blocking_lock
      /\ holder' = holder /\ pc' = pc /\ arg' = arg /\ value' = value
      /\ waiters' = waiters
  BY Zenon DEF vars, threadVars
<1>2. TypeOK'
  BY <1>1, Zenon DEF Inv, TypeOK
<1>3. SchedInv'
  BY <1>1, Zenon DEF Inv, SchedInv
<1>4. LockInv'
  <2>1. LockAccounting' /\ HandOver'
    BY <1>1 DEF Inv, LockInv, LockAccounting, HandOver, Owns
  <2> QED
    BY <1>1, <2>1, Zenon DEF Inv, LockInv
<1> QED
  BY <1>2, <1>3, <1>4, Zenon DEF Inv

\* The invariant, for any number of threads, semaphores and locks.
THEOREM Invariance == Spec => []Inv
<1>1. Inv /\ [Next]_vars => Inv'
  BY NextOK, StutterOK
<1> QED
  BY <1>1, InitOK, PTL DEF Spec

\* The variables of thread.c and synch.c keep their types.
THEOREM TypeCorrect == Spec => []TypeOK
<1>1. Inv => TypeOK
  BY Zenon DEF Inv
<1> QED
  BY <1>1, Invariance, PTL

\* Mutual exclusion: the semaphore in a struct lock is 1 when no thread owns
\* the lock and 0 when exactly one does, through both halves of
\* lock_try_acquire and lock_release.
THEOREM MutualExclusion == Spec => []LockAccounting
<1>1. Inv => LockAccounting
  BY Zenon DEF Inv, LockInv
<1> QED
  BY <1>1, Invariance, PTL

\* A struct thread's elem is on the run queue exactly while the thread is
\* ready, and on the wait list of a semaphore exactly while it is blocked
\* there, although donation takes threads off the run queue and puts them
\* back.
THEOREM ListMembership == Spec => []OneListPerThread
<1>1. Inv => OneListPerThread
  BY Zenon DEF Inv, SchedInv, QueueOK, Lists, OneListPerThread
<1> QED
  BY <1>1, Invariance, PTL

\* thread_propagate_priority and the ordered insertions keep the run queue in
\* the order of the priorities.
THEOREM RunQueueOrder == Spec => []RunQueueSorted
<1>1. Inv => RunQueueSorted
  BY DEF Inv, SchedInv, QueueOK, Descending, RunQueueSorted
<1> QED
  BY <1>1, Invariance, PTL

\* Every thread switch is to a ready thread of the highest priority.
THEOREM StrictPriority == Spec => SwitchToHighestPriority
<1>1. Inv /\ [Next]_vars =>
        [current' # current =>
           \A u \in Range(ready_list') :
             current' # Idle /\ priority'[u] <= priority'[current']]_vars
  BY NextOK DEF SchedStep, SwitchOK
<1> QED
  BY <1>1, Invariance, PTL DEF Spec, SwitchToHighestPriority

\* sema_up wakes a waiter of the highest effective priority.
THEOREM PriorityWakeup == Spec => WakesHighestPriority
<1>1. Inv /\ [Next]_vars =>
        [\A s \in Sema, t \in Thread :
           t \in Range(waiters[s]) \ Range(waiters'[s]) =>
             \A w \in Range(waiters'[s]) : priority[w] <= priority[t]]_vars
  BY NextOK DEF SchedStep, WakeOK
<1> QED
  BY <1>1, Invariance, PTL DEF Spec, WakesHighestPriority

==============================================================================
