--------------------------- MODULE SynchInvariant ----------------------------
(***************************************************************************)
(* The inductive invariant of Synch, and lemmas about the steps that its   *)
(* operations are made of.                                                 *)
(*                                                                         *)
(* Inv joins two groups of facts.  SchedInv: the run queue links exactly   *)
(* the ready threads, in the order of their priorities, and the wait lists *)
(* exactly the blocked ones.  LockInv: the semaphore of a lock counts its  *)
(* owners.  The second needs none of the first, but both need the types,   *)
(* and types need the first: what list_max or list_remove return is known  *)
(* only for a list that has the element.                                   *)
(***************************************************************************)
EXTENDS SchedulerProofs

(* The inductive invariant *)

\* The lists wt link the threads that st says are blocked, each on the list
\* of the semaphore that ar names.
Lists(st, ar, wt) ==
  /\ wt \in [Sema -> Seq(Thread)]
  /\ \A s \in Sema :
       /\ IsInjective(wt[s])
       /\ Range(wt[s]) = {t \in Thread : st[t] = "blocked" /\ ar[t] = s}

SchedInv ==
  /\ status[current] = "running"
  /\ QueueOK(status, ready_list, priority)
  /\ Lists(status, arg, waiters)

\* A lock that is being taken by lock_try_acquire or given back by
\* lock_release has no holder.
HandOver ==
  \A t \in Thread : pc[t] \in {"try_acquire", "release"} => holder[arg[t]] = NULL

LockInv ==
  /\ LockAccounting
  /\ HandOver
  /\ \A t \in Thread :
       /\ pc[t] = "down" => arg[t] \in Semaphore
       /\ pc[t] \in {"acquire", "try_acquire", "release"} => arg[t] \in Lock
       /\ status[t] = "free" => pc[t] = "run" /\ \A l \in Lock : holder[l] # t

Inv == TypeOK /\ SchedInv /\ LockInv

\* A thread's page is free after a step only if it was before, or if the
\* step was the exit of a thread without locks.
FreeOK ==
  \A u \in Thread : status'[u] = "free" =>
    \/ status[u] = "free"
    \/ /\ pc' = pc /\ arg' = arg /\ holder' = holder /\ value' = value
       /\ pc[u] = "run" /\ \A l \in Lock : holder[l] # u

\* The bodies of SwitchToHighestPriority and WakesHighestPriority.
SwitchOK ==
  current' # current =>
    \A u \in Range(ready_list') : current' # Idle /\ priority'[u] <= priority'[current']

WakeOK ==
  \A s \in Sema, t \in Thread :
    t \in Range(waiters[s]) \ Range(waiters'[s]) =>
      \A w \in Range(waiters'[s]) : priority[w] <= priority[t]

\* What a step has to do to the threads and the lists.
SchedStep ==
  /\ status' \in [Page -> ThreadStatus]
  /\ current' \in Page
  /\ SchedInv'
  /\ FreeOK /\ SwitchOK /\ WakeOK

\* The wait lists depend on what is blocked and on nothing else.
LEMMA SameLists ==
  ASSUME NEW st, NEW ar, NEW wt, Lists(st, ar, wt),
         NEW st2, \A u \in Thread : st2[u] = "blocked" <=> st[u] = "blocked",
         NEW ar2, \A u \in Thread : st[u] = "blocked" => ar2[u] = ar[u]
  PROVE  Lists(st2, ar2, wt)
<1>1. \A s \in Sema : {t \in Thread : st2[t] = "blocked" /\ ar2[t] = s}
                      = {t \in Thread : st[t] = "blocked" /\ ar[t] = s}
  OBVIOUS
<1> QED
  BY <1>1 DEF Lists

\* Settling a step: new statuses, a switch, and wait lists that fit.
LEMMA Settle ==
  ASSUME NEW st, Rescheduled(st), Lists(st, arg', waiters')
  PROVE  /\ status' \in [Page -> ThreadStatus] /\ current' \in Page
         /\ SchedInv' /\ SwitchOK
         /\ \A u \in Thread : status'[u] = "free" <=> st[u] = "free"
<1>1. \A u \in Thread : status'[u] = "blocked" <=> st[u] = "blocked"
  BY DEF Rescheduled
<1>2. \A u \in Thread : st[u] = "blocked" => arg'[u] = arg'[u]
  OBVIOUS
<1>3. Lists(status', arg', waiters')
  BY <1>1, <1>2, SameLists, Zenon
<1>4. status'[current'] = "running" /\ QueueOK(status', ready_list', priority')
  BY DEF Rescheduled
<1>5. SchedInv'
  BY <1>3, <1>4 DEF SchedInv
<1> QED
  BY <1>5 DEF Rescheduled, SwitchOK

\* A step of the running thread that leaves the wait lists alone and frees
\* no page.
LEMMA SettleSame ==
  ASSUME Inv, NEW st, Rescheduled(st), waiters' = waiters,
         \A u \in Thread : st[u] = "blocked" <=> status[u] = "blocked",
         \A u \in Thread : st[u] = "free" => status[u] = "free",
         \A u \in Thread : status[u] = "blocked" => arg'[u] = arg[u]
  PROVE  SchedStep
<1>1. Lists(status, arg, waiters)
  BY DEF Inv, SchedInv
<1>2. Lists(st, arg', waiters)
  BY <1>1, SameLists, ZenonT(40)
<1>3. Lists(st, arg', waiters')
  BY <1>2
<1>4. /\ status' \in [Page -> ThreadStatus] /\ current' \in Page
      /\ SchedInv' /\ SwitchOK
      /\ \A u \in Thread : status'[u] = "free" <=> st[u] = "free"
  BY <1>3, Settle, Zenon
<1>5. FreeOK
  BY <1>4 DEF FreeOK
<1>6. WakeOK
  BY DEF WakeOK
<1> QED
  BY <1>4, <1>5, <1>6 DEF SchedStep

\* The thread that runs is not on a list.
LEMMA Running ==
  ASSUME Inv
  PROVE  /\ current \in Page /\ status \in [Page -> ThreadStatus]
         /\ status[current] = "running"
         /\ ready_list \in Seq(Thread)
         /\ priority \in [Thread -> Priority]
         /\ QueueOK(status, ready_list, priority)
         /\ Lists(status, arg, waiters)
         /\ waiters \in [Sema -> Seq(Thread)]
BY DEF Inv, SchedInv, TypeOK, Page

\* The loop of sema_down: the running thread joins the wait list of s.
LEMMA WaitForStep ==
  ASSUME Inv, current \in Thread, NEW s \in Sema, NEW label,
         NEW pri \in [Thread -> Priority], NEW rl, QueueOK(status, rl, pri),
         priority' = pri, WaitFor(s, label, pri, rl)
  PROVE  SchedStep
<1>1. PICK st : st = [status EXCEPT ![current] = "blocked"]
  BY Zenon
<1>2. /\ status \in [Page -> ThreadStatus] /\ status[current] = "running"
      /\ Lists(status, arg, waiters) /\ waiters \in [Sema -> Seq(Thread)]
      /\ arg \in [Thread -> Thread \cup Sema \cup {NULL}]
  BY Running DEF Inv, TypeOK
<1>3. st \in [Page -> ThreadStatus]
  BY <1>1, <1>2, Zenon DEF ThreadStatus
<1>4. \A u \in Thread : st[u] = IF u = current THEN "blocked" ELSE status[u]
  BY <1>1, <1>2 DEF Page
<1>5. QueueOK(st, rl, priority')
  <2>1. {t \in Thread : st[t] = "ready"} = {t \in Thread : status[t] = "ready"}
    BY <1>2, <1>4
  <2> QED
    BY <2>1 DEF QueueOK
<1>6. Schedule(st, rl)
  BY <1>1 DEF WaitFor, thread_block
<1>7. Rescheduled(st)
  BY <1>3, <1>5, <1>6, ScheduleStep, Zenon
<1>8. PICK q : q = Enqueue(waiters[s], current, pri)
  OBVIOUS
<1>9. /\ waiters[s] \in Seq(Thread) /\ IsInjective(waiters[s])
      /\ Range(waiters[s]) = {t \in Thread : status[t] = "blocked" /\ arg[t] = s}
  BY <1>2 DEF Lists
<1>10. current \notin Range(waiters[s])
  BY <1>2, <1>9
<1>11. q \in Seq(Thread) /\ Range(q) = Range(waiters[s]) \cup {current} /\ IsInjective(q)
  BY <1>8, <1>9, <1>10, EnqueueMembers, Zenon
<1>12. waiters' = [waiters EXCEPT ![s] = q] /\ arg' = [arg EXCEPT ![current] = s]
  BY <1>8 DEF WaitFor, Goto
<1>13. \A u \in Thread : arg'[u] = IF u = current THEN s ELSE arg[u]
  BY <1>2, <1>12
<1>14. \A k \in Sema : waiters'[k] = IF k = s THEN q ELSE waiters[k]
  BY <1>2, <1>12
<1>15. Lists(st, arg', waiters')
  <2>1. waiters' \in [Sema -> Seq(Thread)]
    BY <1>2, <1>11, <1>12
  <2>2. ASSUME NEW k \in Sema
        PROVE  /\ IsInjective(waiters'[k])
               /\ Range(waiters'[k]) = {t \in Thread : st[t] = "blocked" /\ arg'[t] = k}
    <3>1. /\ IsInjective(waiters[k])
          /\ Range(waiters[k]) = {t \in Thread : status[t] = "blocked" /\ arg[t] = k}
      BY <1>2 DEF Lists
    <3>2. CASE k = s
      <4>1. \A t \in Thread : st[t] = "blocked" /\ arg'[t] = s
                              <=> t = current \/ (status[t] = "blocked" /\ arg[t] = s)
        BY <1>4, <1>13
      <4>2. Range(q) = {t \in Thread : st[t] = "blocked" /\ arg'[t] = s}
        BY <4>1, <1>9, <1>11
      <4> QED
        BY <3>2, <4>2, <1>11, <1>14
    <3>3. CASE k # s
      <4>1. \A t \in Thread : st[t] = "blocked" /\ arg'[t] = k
                              <=> status[t] = "blocked" /\ arg[t] = k
        BY <1>2, <1>4, <1>13, <3>3
      <4>2. Range(waiters[k]) = {t \in Thread : st[t] = "blocked" /\ arg'[t] = k}
        BY <4>1, <3>1
      <4> QED
        BY <3>1, <3>3, <4>2, <1>14
    <3> QED
      BY <3>2, <3>3
  <2> QED
    BY <2>1, <2>2 DEF Lists
<1>16. /\ status' \in [Page -> ThreadStatus] /\ current' \in Page
       /\ SchedInv' /\ SwitchOK
       /\ \A u \in Thread : status'[u] = "free" <=> st[u] = "free"
  BY <1>7, <1>15, Settle, Zenon
<1>17. FreeOK
  BY <1>4, <1>16 DEF FreeOK
<1>18. WakeOK
  <2>1. \A k \in Sema : Range(waiters[k]) \subseteq Range(waiters'[k])
    BY <1>11, <1>14
  <2> QED
    BY <2>1 DEF WakeOK
<1> QED
  BY <1>16, <1>17, <1>18 DEF SchedStep

\* sema_up: the waiter list_max finds leaves the wait list for the run queue.
LEMMA SemaUpStep ==
  ASSUME Inv, NEW s \in Sema, NEW interrupt, SemaUp(s, interrupt), priority' = priority,
         \A u \in Thread : u # current => arg'[u] = arg[u]
  PROVE  SchedStep
<1>1. /\ current \in Page /\ status \in [Page -> ThreadStatus]
      /\ status[current] = "running"
      /\ QueueOK(status, ready_list, priority)
      /\ Lists(status, arg, waiters) /\ waiters \in [Sema -> Seq(Thread)]
      /\ priority \in [Thread -> Priority]
  BY Running, Zenon
<1>2. \A u \in Thread : status[u] = "blocked" => arg'[u] = arg[u]
  BY <1>1
<1>3. CASE waiters[s] = <<>>
  <2>1. /\ waiters' = waiters /\ status' = status /\ current' = current
        /\ ready_list' = ready_list
    BY <1>3 DEF SemaUp
  <2>2. QueueOK(status, ready_list', priority')
    BY <1>1, <2>1
  <2>3. Rescheduled(status)
    BY <1>1, <2>1, <2>2, NoSwitch, Zenon
  <2> QED
    BY <1>2, <2>1, <2>3, SettleSame, Zenon
<1>4. CASE waiters[s] # <<>>
  <2>1. PICK t : t = list_max(waiters[s], priority)
    OBVIOUS
  <2>2. PICK st : st = [status EXCEPT ![t] = "ready"]
    BY Zenon
  <2>3. PICK rl : rl = Enqueue(ready_list, t, priority)
    OBVIOUS
  <2>4. PICK q : q = list_remove(waiters[s], t)
    OBVIOUS
  <2>5. /\ waiters' = [waiters EXCEPT ![s] = q]
        /\ \/ thread_yield(st, rl)
           \/ status' = st /\ ready_list' = rl /\ current' = current
    BY <1>4, <2>1, <2>2, <2>3, <2>4, Zenon DEF SemaUp
  <2>6. /\ waiters[s] \in Seq(Thread) /\ IsInjective(waiters[s])
        /\ Range(waiters[s]) = {u \in Thread : status[u] = "blocked" /\ arg[u] = s}
    BY <1>1 DEF Lists
  <2>7. t \in Range(waiters[s]) /\ \A x \in Range(waiters[s]) : priority[x] <= priority[t]
    <3>1. 63 \in Nat /\ priority \in [Thread -> 0..63]
      <4>1. \A p \in Priority : p \in 0..63
        BY ThreadAssumption
      <4> QED
        BY <1>1, <4>1, Zenon
    <3> QED
      BY <1>4, <2>1, <2>6, <3>1, ListMax, Zenon
  <2>8. t \in Thread /\ status[t] = "blocked" /\ arg[t] = s /\ t # current
    BY <1>1, <2>6, <2>7
  <2>9. q \in Seq(Thread) /\ Range(q) = Range(waiters[s]) \ {t} /\ IsInjective(q)
    BY <2>4, <2>6, <2>7, ListRemove, Zenon
  <2>10. st \in [Page -> ThreadStatus] /\ st[current] = "running"
    BY <1>1, <2>2, <2>8, Zenon DEF ThreadStatus
  <2>11. \A u \in Thread : st[u] = IF u = t THEN "ready" ELSE status[u]
    BY <1>1, <2>2 DEF Page
  <2>12. QueueOK(st, rl, priority)
    <3>1. status[t] # "ready"
      BY <2>8
    <3> QED
      BY <1>1, <2>2, <2>3, <2>8, <3>1, EnqueueReady, Zenon
  <2>13. Rescheduled(st)
    <3>1. CASE thread_yield(st, rl)
      BY <1>1, <2>10, <2>12, <3>1, YieldStep, Zenon
    <3>2. CASE status' = st /\ ready_list' = rl /\ current' = current
      <4>1. QueueOK(st, ready_list', priority')
        BY <2>12, <3>2
      <4> QED
        BY <1>1, <2>10, <3>2, <4>1, NoSwitch, Zenon
    <3> QED
      BY <2>5, <3>1, <3>2
  <2>14. \A k \in Sema : waiters'[k] = IF k = s THEN q ELSE waiters[k]
    BY <1>1, <2>5
  <2>15. Lists(st, arg', waiters')
    <3>1. waiters' \in [Sema -> Seq(Thread)]
      BY <1>1, <2>5, <2>9
    <3>2. ASSUME NEW k \in Sema
          PROVE  /\ IsInjective(waiters'[k])
                 /\ Range(waiters'[k]) = {u \in Thread : st[u] = "blocked" /\ arg'[u] = k}
      <4>1. /\ IsInjective(waiters[k])
            /\ Range(waiters[k]) = {u \in Thread : status[u] = "blocked" /\ arg[u] = k}
        BY <1>1 DEF Lists
      <4>2. \A u \in Thread : st[u] = "blocked" /\ arg'[u] = k
                              <=> u # t /\ status[u] = "blocked" /\ arg[u] = k
        BY <1>2, <2>11
      <4>3. CASE k = s
        <5>1. Range(q) = {u \in Thread : st[u] = "blocked" /\ arg'[u] = k}
          BY <4>2, <4>3, <2>6, <2>9
        <5> QED
          BY <4>3, <5>1, <2>9, <2>14
      <4>4. CASE k # s
        <5>1. Range(waiters[k]) = {u \in Thread : st[u] = "blocked" /\ arg'[u] = k}
          BY <4>1, <4>2, <4>4, <2>8
        <5> QED
          BY <4>1, <4>4, <5>1, <2>14
      <4> QED
        BY <4>3, <4>4
    <3> QED
      BY <3>1, <3>2 DEF Lists
  <2>16. /\ status' \in [Page -> ThreadStatus] /\ current' \in Page
         /\ SchedInv' /\ SwitchOK
         /\ \A u \in Thread : status'[u] = "free" <=> st[u] = "free"
    BY <2>13, <2>15, Settle, Zenon
  <2>17. FreeOK
    BY <2>11, <2>16 DEF FreeOK
  <2>18. WakeOK
    <3>1. ASSUME NEW k \in Sema, NEW x \in Range(waiters[k]) \ Range(waiters'[k])
          PROVE  \A w \in Range(waiters'[k]) : priority[w] <= priority[x]
      <4>1. k = s /\ x = t
        BY <3>1, <2>9, <2>14
      <4> QED
        BY <4>1, <2>7, <2>9, <2>14
    <3> QED
      BY <3>1 DEF WakeOK
  <2> QED
    BY <2>16, <2>17, <2>18 DEF SchedStep
<1> QED
  BY <1>3, <1>4

\* A step that gives the processor up, or does not.
LEMMA MaybeYield ==
  ASSUME Inv, priority' = priority, waiters' = waiters,
         \A u \in Thread : u # current => arg'[u] = arg[u],
         \/ thread_yield(status, ready_list)
         \/ status' = status /\ current' = current /\ ready_list' = ready_list
  PROVE  SchedStep
<1>1. /\ current \in Page /\ status \in [Page -> ThreadStatus]
      /\ status[current] = "running"
      /\ QueueOK(status, ready_list, priority)
      /\ priority \in [Thread -> Priority]
  BY Running, Zenon
<1>2. Rescheduled(status)
  <2>1. CASE thread_yield(status, ready_list)
    BY <1>1, <2>1, YieldStep, Zenon
  <2>2. CASE status' = status /\ current' = current /\ ready_list' = ready_list
    <3>1. QueueOK(status, ready_list', priority')
      BY <1>1, <2>2
    <3> QED
      BY <1>1, <2>2, <3>1, NoSwitch, Zenon
  <2> QED
    BY <2>1, <2>2
<1>3. \A u \in Thread : status[u] = "blocked" => arg'[u] = arg[u]
  BY <1>1
<1> QED
  BY <1>2, <1>3, SettleSame, Zenon

\* A step that changes the priorities, the run queue with them, and neither
\* statuses nor wait lists.
LEMMA Reprioritise ==
  ASSUME Inv, QueueOK(status, ready_list', priority'), waiters' = waiters,
         status' = status, current' = current,
         \A u \in Thread : u # current => arg'[u] = arg[u]
  PROVE  SchedStep
<1>1. /\ current \in Page /\ status \in [Page -> ThreadStatus]
      /\ status[current] = "running"
  BY Running, Zenon
<1>2. Rescheduled(status)
  BY <1>1, NoSwitch, Zenon
<1>3. \A u \in Thread : status[u] = "blocked" => arg'[u] = arg[u]
  BY <1>1
<1> QED
  BY <1>2, <1>3, SettleSame, Zenon

\* The priority of the running thread is its own affair.
LEMMA OwnPriority ==
  ASSUME Inv, current \in Thread, NEW p \in Priority,
         NEW pri, pri = [priority EXCEPT ![current] = p]
  PROVE  pri \in [Thread -> Priority] /\ QueueOK(status, ready_list, pri)
<1>1. /\ status[current] = "running" /\ QueueOK(status, ready_list, priority)
      /\ priority \in [Thread -> Priority]
  BY Running, Zenon
<1>2. pri \in [Thread -> Priority] /\ \A x \in Thread : x # current => pri[x] = priority[x]
  BY <1>1
<1>3. /\ ready_list \in Seq(Thread) /\ IsInjective(ready_list)
      /\ Range(ready_list) = {t \in Thread : status[t] = "ready"}
      /\ Descending(ready_list, priority)
  BY <1>1 DEF QueueOK
<1>4. \A x \in Range(ready_list) : pri[x] = priority[x]
  BY <1>1, <1>2, <1>3
<1>5. Descending(ready_list, pri)
  BY <1>3, <1>4, DescendingOthers, Zenon
<1> QED
  BY <1>2, <1>3, <1>5 DEF QueueOK

\* thread_update_priority computes a priority.
LEMMA DonatedPriorityType ==
  ASSUME NEW t \in Thread, NEW original \in [Thread -> Priority],
         NEW donors \in [Thread -> SUBSET Thread], priority \in [Thread -> Priority]
  PROVE  DonatedPriority(t, original, donors) \in Priority
<1>1. PICK T : T = {original[t]} \cup {priority[d] : d \in donors[t]}
  BY Zenon
<1>2. T \subseteq Priority /\ T # {}
  BY <1>1
<1>3. T \subseteq 0..63 /\ 63 \in Nat
  BY <1>2, ThreadAssumption
<1>4. Max(T) \in T
  BY <1>2, <1>3, MaxProperties, Zenon
<1> QED
  BY <1>1, <1>2, <1>4 DEF DonatedPriority

\* thread_create: the new thread joins the run queue.
LEMMA CreateStep ==
  ASSUME Inv, NEW t \in Thread, NEW u \in Thread, NEW p \in Priority,
         thread_create(t, u, p), waiters' = waiters
  PROVE  SchedStep
<1>1. /\ current \in Page /\ status \in [Page -> ThreadStatus]
      /\ status[current] = "running"
      /\ QueueOK(status, ready_list, priority)
      /\ priority \in [Thread -> Priority]
      /\ arg \in [Thread -> Thread \cup Sema \cup {NULL}]
  BY Running DEF Inv, TypeOK
<1>2. /\ status[u] = "free" /\ status' = [status EXCEPT ![u] = "ready"]
      /\ current' = current /\ current = t
      /\ priority' = [priority EXCEPT ![u] = p]
      /\ arg' = [arg EXCEPT ![t] = u, ![u] = NULL]
      /\ ready_list' = Enqueue(ready_list, u, priority')
  BY DEF thread_create, Runs
<1>3. priority' \in [Thread -> Priority] /\ \A x \in Thread : x # u => priority'[x] = priority[x]
  BY <1>1, <1>2
<1>4. /\ ready_list \in Seq(Thread) /\ IsInjective(ready_list)
      /\ Range(ready_list) = {x \in Thread : status[x] = "ready"}
      /\ Descending(ready_list, priority)
  BY <1>1 DEF QueueOK
<1>5. \A x \in Range(ready_list) : priority'[x] = priority[x]
  BY <1>2, <1>3, <1>4
<1>6. Descending(ready_list, priority')
  BY <1>4, <1>5, DescendingOthers, Zenon
<1>7. QueueOK(status, ready_list, priority')
  BY <1>4, <1>6 DEF QueueOK
<1>8. status[u] # "ready"
  BY <1>2
<1>9. QueueOK(status', ready_list', priority')
  BY <1>1, <1>2, <1>3, <1>7, <1>8, EnqueueReady, Zenon
<1>10. /\ status' \in [Page -> ThreadStatus] /\ status'[current] = "running"
       /\ \A x \in Thread : status'[x] = IF x = u THEN "ready" ELSE status[x]
  BY <1>1, <1>2 DEF Page, ThreadStatus
<1>11. Rescheduled(status')
  BY <1>1, <1>2, <1>9, <1>10 DEF Rescheduled
<1>12. \A x \in Thread : status'[x] = "blocked" <=> status[x] = "blocked"
  BY <1>2, <1>10
<1>13. \A x \in Thread : status'[x] = "free" => status[x] = "free"
  BY <1>10
<1>14. \A x \in Thread : status[x] = "blocked" => arg'[x] = arg[x]
  BY <1>1, <1>2
<1> QED
  BY <1>11, <1>12, <1>13, <1>14, SettleSame, Zenon

\* thread_exit: the page of a thread without locks becomes free.
LEMMA ExitStep ==
  ASSUME Inv, NEW t \in Thread, thread_exit(t), waiters' = waiters, value' = value,
         \A l \in Lock : ~Owns(t, l)
  PROVE  SchedStep
<1>1. /\ status \in [Page -> ThreadStatus] /\ status[current] = "running"
      /\ QueueOK(status, ready_list, priority)
      /\ Lists(status, arg, waiters)
  BY Running
<1>2. PICK gone : gone = IF t = InitialThread THEN "dying" ELSE "free"
  OBVIOUS
<1>3. PICK st : st = [status EXCEPT ![t] = gone]
  BY Zenon
<1>4. /\ current = t /\ pc[t] = "run" /\ Schedule(st, ready_list)
      /\ priority' = priority /\ pc' = pc /\ arg' = arg /\ holder' = holder
  BY <1>2, <1>3 DEF thread_exit, Runs
<1>5. gone \in ThreadStatus /\ gone # "ready" /\ gone # "blocked"
  BY <1>2 DEF ThreadStatus
<1>6. /\ st \in [Page -> ThreadStatus]
      /\ \A u \in Thread : st[u] = IF u = t THEN gone ELSE status[u]
  BY <1>1, <1>3, <1>5 DEF Page
<1>7. {u \in Thread : st[u] = "ready"} = {u \in Thread : status[u] = "ready"}
  BY <1>1, <1>4, <1>5, <1>6
<1>8. QueueOK(st, ready_list, priority')
  BY <1>1, <1>4, <1>7 DEF QueueOK
<1>9. Rescheduled(st)
  BY <1>4, <1>6, <1>8, ScheduleStep, Zenon
<1>10. \A u \in Thread : st[u] = "blocked" <=> status[u] = "blocked"
  BY <1>1, <1>4, <1>5, <1>6
<1>11. \A u \in Thread : status[u] = "blocked" => arg'[u] = arg[u]
  BY <1>4
<1>12. Lists(st, arg', waiters')
  <2>1. Lists(st, arg', waiters)
    BY <1>1, <1>10, <1>11, SameLists, ZenonT(40)
  <2> QED
    BY <2>1
<1>13. /\ status' \in [Page -> ThreadStatus] /\ current' \in Page
       /\ SchedInv' /\ SwitchOK
       /\ \A u \in Thread : status'[u] = "free" <=> st[u] = "free"
  BY <1>9, <1>12, Settle, Zenon
<1>14. FreeOK
  <2>1. \A l \in Lock : holder[l] # t
    BY DEF Owns
  <2> QED
    BY <2>1, <1>4, <1>6, <1>13 DEF FreeOK
<1>15. WakeOK
  BY DEF WakeOK
<1> QED
  BY <1>13, <1>14, <1>15 DEF SchedStep

\* The idle thread blocks itself, on no list.
LEMMA IdleStep ==
  ASSUME Inv, idle, waiters' = waiters
  PROVE  SchedStep
<1>1. /\ status \in [Page -> ThreadStatus] /\ QueueOK(status, ready_list, priority)
  BY Running
<1>2. PICK st : st = [status EXCEPT ![Idle] = "blocked"]
  BY Zenon
<1>3. Schedule(st, ready_list) /\ priority' = priority /\ arg' = arg
  BY <1>2 DEF idle, thread_block
<1>4. /\ st \in [Page -> ThreadStatus]
      /\ \A u \in Thread : st[u] = status[u]
  BY <1>1, <1>2, ThreadAssumption DEF Page, ThreadStatus
<1>5. QueueOK(st, ready_list, priority')
  <2>1. {u \in Thread : st[u] = "ready"} = {u \in Thread : status[u] = "ready"}
    BY <1>4
  <2> QED
    BY <2>1, <1>1, <1>3 DEF QueueOK
<1>6. Rescheduled(st)
  BY <1>3, <1>4, <1>5, ScheduleStep, Zenon
<1>7. \A u \in Thread : st[u] = "blocked" <=> status[u] = "blocked"
  BY <1>4
<1>8. \A u \in Thread : st[u] = "free" => status[u] = "free"
  BY <1>4
<1>9. \A u \in Thread : status[u] = "blocked" => arg'[u] = arg[u]
  BY <1>3
<1> QED
  BY <1>6, <1>7, <1>8, <1>9, SettleSame, Zenon

----------------------------------------------------------------------------
(* Locks and their owners *)

\* A step that changes neither owners nor semaphores of locks.
LEMMA SameOwners ==
  ASSUME Inv, \A l \in Lock : value'[l] = value[l],
         \A u \in Thread, l \in Lock : Owns(u, l)' <=> Owns(u, l)
  PROVE  LockAccounting'
<1>1. LockAccounting
  BY DEF Inv, LockInv
<1> QED
  BY <1>1 DEF LockAccounting

\* A step that takes the semaphore of a lock makes an owner, the only one.
LEMMA NewOwner ==
  ASSUME Inv, NEW t \in Thread, NEW l \in Lock, Take(l),
         \A u \in Thread, k \in Lock : Owns(u, k)' <=> Owns(u, k) \/ (u = t /\ k = l)
  PROVE  LockAccounting'
<1>1. LockAccounting /\ value \in [Sema -> Nat]
  BY DEF Inv, LockInv, TypeOK
<1>2. value[l] = 1 /\ \A u \in Thread : ~Owns(u, l)
  BY <1>1 DEF LockAccounting, Take
<1>3. value'[l] = 0 /\ \A k \in Lock : k # l => value'[k] = value[k]
  BY <1>1, <1>2 DEF Take, Sema
<1> QED
  BY <1>1, <1>2, <1>3 DEF LockAccounting

\* A step that ups the semaphore of a lock takes its owner away.
LEMMA OldOwner ==
  ASSUME Inv, NEW t \in Thread, NEW l \in Lock, value' = [value EXCEPT ![l] = @ + 1],
         Owns(t, l),
         \A u \in Thread, k \in Lock : Owns(u, k)' <=> Owns(u, k) /\ ~(u = t /\ k = l)
  PROVE  LockAccounting'
<1>1. LockAccounting /\ value \in [Sema -> Nat]
  BY DEF Inv, LockInv, TypeOK
<1>2. value[l] = 0 /\ \A u \in Thread : Owns(u, l) => u = t
  BY <1>1 DEF LockAccounting
<1>3. value'[l] = 1 /\ \A k \in Lock : k # l => value'[k] = value[k]
  BY <1>1, <1>2 DEF Sema
<1> QED
  BY <1>1, <1>2, <1>3 DEF LockAccounting

\* The types of the variables that SchedStep does not speak about.
DataTypes ==
  /\ priority \in [Thread -> Priority]
  /\ original_priority \in [Thread -> Priority]
  /\ donor_threads \in [Thread -> SUBSET Thread]
  /\ blocking_lock \in [Thread -> Lock \cup {NULL}]
  /\ holder \in [Lock -> Thread \cup {NULL}]
  /\ pc \in [Thread -> Labels]
  /\ arg \in [Thread -> Thread \cup Sema \cup {NULL}]
  /\ value \in [Sema -> Nat]

ArgsOK ==
  \A t \in Thread :
    /\ pc[t] = "down" => arg[t] \in Semaphore
    /\ pc[t] \in {"acquire", "try_acquire", "release"} => arg[t] \in Lock

\* Only the running thread moves, apart from one that begins to run.
Local ==
  /\ \A u \in Thread : u # current => pc'[u] = pc[u] \/ pc'[u] = "run"
  /\ \A l \in Lock : holder'[l] \in {holder[l], NULL, current}

\* The parts of Inv' put together.
LEMMA InvStep ==
  ASSUME Inv, SchedStep, DataTypes', ArgsOK', Local, LockAccounting', HandOver'
  PROVE  Inv'
<1>1. /\ status' \in [Page -> ThreadStatus] /\ current' \in Page
      /\ SchedInv' /\ FreeOK
  BY DEF SchedStep
<1>2. ready_list' \in Seq(Thread) /\ waiters' \in [Sema -> Seq(Thread)]
  BY <1>1 DEF SchedInv, QueueOK, Lists
<1>3. TypeOK'
  BY <1>1, <1>2 DEF TypeOK, DataTypes, Page
<1>4. ASSUME NEW u \in Thread, status'[u] = "free"
      PROVE  pc'[u] = "run" /\ \A l \in Lock : holder'[l] # u
  <2>1. CASE status[u] = "free"
    <3>1. /\ pc[u] = "run" /\ \A l \in Lock : holder[l] # u
          /\ status[current] = "running"
      BY <2>1 DEF Inv, LockInv, SchedInv
    <3>2. u # current /\ u # NULL
      BY <2>1, <3>1, ThreadAssumption
    <3> QED
      BY <3>1, <3>2, SMTT(20) DEF Local
  <2>2. CASE status[u] # "free"
    BY <1>1, <1>4, <2>2 DEF FreeOK
  <2> QED
    BY <2>1, <2>2
<1>5. LockInv'
  BY <1>4 DEF LockInv, ArgsOK
<1> QED
  BY <1>1, <1>3, <1>5 DEF Inv

\* The running thread goes to another place in the code.
LEMMA GotoStep ==
  ASSUME Inv, NEW t \in Thread, current = t, NEW label \in Labels,
         NEW a \in Thread \cup Sema \cup {NULL}, Goto(t, label, a),
         label = "down" => a \in Semaphore,
         label \in {"acquire", "try_acquire", "release"} => a \in Lock
  PROVE  /\ pc' \in [Thread -> Labels]
         /\ arg' \in [Thread -> Thread \cup Sema \cup {NULL}]
         /\ ArgsOK'
         /\ pc'[t] = label /\ arg'[t] = a
         /\ \A u \in Thread : u # current => pc'[u] = pc[u] /\ arg'[u] = arg[u]
<1>1. /\ pc \in [Thread -> Labels]
      /\ arg \in [Thread -> Thread \cup Sema \cup {NULL}]
      /\ ArgsOK
  BY DEF Inv, TypeOK, LockInv, ArgsOK
<1>2. /\ pc' = [pc EXCEPT ![t] = label] /\ arg' = [arg EXCEPT ![t] = a]
  BY DEF Goto
<1>3. pc' \in [Thread -> Labels] /\ arg' \in [Thread -> Thread \cup Sema \cup {NULL}]
  BY <1>1, <1>2
<1>4. pc'[t] = label /\ arg'[t] = a
  BY <1>1, <1>2
<1>5. \A u \in Thread : u # t => pc'[u] = pc[u] /\ arg'[u] = arg[u]
  BY <1>1, <1>2
<1>6. ArgsOK'
  BY <1>1, <1>4, <1>5 DEF ArgsOK
<1> QED
  BY <1>3, <1>4, <1>5, <1>6

\* A step that leaves the threads where they are and the locks alone.
LEMMA StayStep ==
  ASSUME Inv, SchedStep, DataTypes', pc' = pc, arg' = arg, holder' = holder,
         \A l \in Lock : value'[l] = value[l]
  PROVE  Inv'
<1>1. \A u \in Thread, l \in Lock : Owns(u, l)' <=> Owns(u, l)
  BY DEF Owns
<1>2. LockAccounting'
  BY <1>1, SameOwners
<1>3. ArgsOK' /\ Local /\ HandOver'
  BY DEF Inv, LockInv, ArgsOK, Local, HandOver
<1> QED
  BY <1>2, <1>3, InvStep

\* A step between two places at which a thread owns nothing but the locks it
\* is the holder of.
LEMMA QuietStep ==
  ASSUME Inv, SchedStep, NEW t \in Thread, current = t, NEW label \in Labels,
         NEW a \in Thread \cup Sema \cup {NULL}, Goto(t, label, a),
         label = "down" => a \in Semaphore,
         label = "acquire" => a \in Lock,
         label \notin {"try_acquire", "release"},
         pc[t] \notin {"try_acquire", "release"},
         holder' = holder, \A l \in Lock : value'[l] = value[l],
         priority' \in [Thread -> Priority],
         original_priority' \in [Thread -> Priority],
         donor_threads' \in [Thread -> SUBSET Thread],
         blocking_lock' \in [Thread -> Lock \cup {NULL}],
         value' \in [Sema -> Nat]
  PROVE  Inv'
<1>1. /\ pc' \in [Thread -> Labels]
      /\ arg' \in [Thread -> Thread \cup Sema \cup {NULL}]
      /\ ArgsOK'
      /\ pc'[t] = label /\ arg'[t] = a
      /\ \A u \in Thread : u # current => pc'[u] = pc[u] /\ arg'[u] = arg[u]
  BY GotoStep
<1>2. \A u \in Thread, l \in Lock : Owns(u, l)' <=> Owns(u, l)
  BY <1>1 DEF Owns
<1>3. LockAccounting'
  BY <1>2, SameOwners
<1>4. holder \in [Lock -> Thread \cup {NULL}]
  BY DEF Inv, TypeOK
<1>5. DataTypes'
  BY <1>1, <1>4 DEF DataTypes
<1>6. Local
  BY <1>1 DEF Local
<1>7. HandOver'
  BY <1>1 DEF HandOver, Inv, LockInv
<1> QED
  BY <1>1, <1>3, <1>5, <1>6, <1>7, InvStep, SMTT(20)

==============================================================================
