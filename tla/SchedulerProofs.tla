--------------------------- MODULE SchedulerProofs ---------------------------
(***************************************************************************)
(* Lemmas about the scheduler of Threads: the run queue and the wait lists *)
(* under Enqueue, Schedule and thread_yield, and the walk of a donation    *)
(* along a chain of locks.                                                 *)
(***************************************************************************)
EXTENDS Synch, PintosListProofs

Page == Thread \cup {Idle}

\* rl is a run queue for the statuses st and the priorities pri.
QueueOK(st, rl, pri) ==
  /\ rl \in Seq(Thread)
  /\ IsInjective(rl)
  /\ Range(rl) = {t \in Thread : st[t] = "ready"}
  /\ Descending(rl, pri)

\* The outcome of a step that gave the threads the statuses st and may then
\* have called schedule.
Rescheduled(st) ==
  /\ status' \in [Page -> ThreadStatus]
  /\ current' \in Page
  /\ status'[current'] = "running"
  /\ QueueOK(status', ready_list', priority')
  /\ \A t \in Thread : /\ status'[t] = "blocked" <=> st[t] = "blocked"
                       /\ status'[t] = "free" <=> st[t] = "free"
  /\ current' # current => \A u \in Range(ready_list') :
                             current' # Idle /\ priority'[u] <= priority'[current']

----------------------------------------------------------------------------
(* Queues and switches *)

\* Enqueue adds a thread to a list and keeps the list in order.
LEMMA EnqueueMembers ==
  ASSUME NEW s \in Seq(Thread), NEW t \in Thread, NEW pri \in [Thread -> Priority]
  PROVE  /\ Enqueue(s, t, pri) \in Seq(Thread)
         /\ Range(Enqueue(s, t, pri)) = Range(s) \cup {t}
         /\ IsInjective(s) /\ t \notin Range(s) => IsInjective(Enqueue(s, t, pri))
         /\ Descending(s, pri) => Descending(Enqueue(s, t, pri), pri)
<1>1. PICK G : G = {u \in Thread : pri[t] > pri[u]}
  BY Zenon
<1>2. Enqueue(s, t, pri) = list_insert_ordered(s, t, G)
  BY <1>1 DEF Enqueue
<1>3. pri \in [Thread -> Nat]
  <2>1. \A p \in Priority : p \in Nat
    BY ThreadAssumption
  <2> QED
    BY <2>1
<1>4. \A x \in Thread : x \in G <=> pri[t] > pri[x]
  BY <1>1
<1>5. Descending(s, pri) => Descending(list_insert_ordered(s, t, G), pri)
  BY <1>3, <1>4, InsertOrderedDescending, Zenon
<1>6. /\ list_insert_ordered(s, t, G) \in Seq(Thread)
      /\ Range(list_insert_ordered(s, t, G)) = Range(s) \cup {t}
      /\ IsInjective(s) /\ t \notin Range(s) =>
           IsInjective(list_insert_ordered(s, t, G))
  BY InsertOrderedMembers, Zenon
<1> QED
  BY <1>2, <1>5, <1>6, Zenon

\* A thread that becomes ready is put on the run queue.
LEMMA EnqueueReady ==
  ASSUME NEW st \in [Page -> ThreadStatus], NEW rl, NEW pri \in [Thread -> Priority],
         NEW t \in Thread, QueueOK(st, rl, pri), st[t] # "ready",
         NEW st2, st2 = [st EXCEPT ![t] = "ready"]
  PROVE  QueueOK(st2, Enqueue(rl, t, pri), pri)
<1>1. rl \in Seq(Thread) /\ IsInjective(rl) /\ Descending(rl, pri)
  BY DEF QueueOK
<1>2. Range(rl) = {u \in Thread : st[u] = "ready"}
  BY DEF QueueOK
<1>3. t \notin Range(rl)
  BY <1>2
<1>4. PICK r : r = Enqueue(rl, t, pri)
  OBVIOUS
<1>5. r \in Seq(Thread) /\ Range(r) = Range(rl) \cup {t} /\ IsInjective(r)
      /\ Descending(r, pri)
  BY <1>1, <1>3, <1>4, EnqueueMembers, Zenon
<1>6. Range(r) = {u \in Thread : st2[u] = "ready"}
  BY <1>2, <1>5 DEF Page
<1> QED
  BY <1>4, <1>5, <1>6 DEF QueueOK

\* schedule runs the front of the run queue, a thread of the highest priority.
LEMMA ScheduleStep ==
  ASSUME NEW st \in [Page -> ThreadStatus], NEW rl, QueueOK(st, rl, priority'),
         Schedule(st, rl)
  PROVE  Rescheduled(st)
<1>1. rl \in Seq(Thread) /\ IsInjective(rl) /\ Descending(rl, priority')
  BY DEF QueueOK
<1>2. Range(rl) = {u \in Thread : st[u] = "ready"}
  BY DEF QueueOK
<1>3. CASE rl = <<>>
  <2>1. current' = Idle /\ ready_list' = rl /\ status' = [st EXCEPT ![Idle] = "running"]
    BY <1>3 DEF Schedule
  <2>2. \A u \in Thread : status'[u] = st[u]
    BY <2>1, ThreadAssumption DEF Page
  <2>3. status' \in [Page -> ThreadStatus] /\ current' \in Page
        /\ status'[current'] = "running"
    BY <2>1 DEF Page, ThreadStatus
  <2>4. Range(ready_list') = {u \in Thread : status'[u] = "ready"}
    BY <1>2, <2>1, <2>2
  <2>5. QueueOK(status', ready_list', priority')
    BY <1>1, <2>1, <2>4 DEF QueueOK
  <2>6. Range(ready_list') = {}
    <3>1. \A x : x \in Range(rl) => \E i \in 1..Len(rl) : rl[i] = x
      BY <1>1, Members
    <3>2. Len(rl) = 0
      BY <1>3
    <3> QED
      BY <3>1, <3>2, <2>1
  <2> QED
    BY <2>2, <2>3, <2>5, <2>6 DEF Rescheduled
<1>4. CASE rl # <<>>
  <2>1. PICK h, r : h = Head(rl) /\ r = Tail(rl)
    BY Zenon
  <2>2. current' = h /\ ready_list' = r /\ status' = [st EXCEPT ![h] = "running"]
    BY <1>4, <2>1 DEF Schedule
  <2>3. h \in Range(rl) /\ r \in Seq(Thread) /\ Range(r) = Range(rl) \ {h}
        /\ IsInjective(r) /\ Descending(r, priority')
        /\ \A x \in Range(r) : priority'[h] >= priority'[x]
    BY <1>1, <1>4, <2>1, PopFront, Zenon
  <2>4. h \in Thread /\ h # Idle /\ st[h] = "ready"
    BY <1>2, <2>3, ThreadAssumption
  <2>5. status' \in [Page -> ThreadStatus] /\ current' \in Page
        /\ status'[current'] = "running"
    BY <2>2, <2>4 DEF Page, ThreadStatus
  <2>6. \A u \in Thread : status'[u] = IF u = h THEN "running" ELSE st[u]
    BY <2>2, <2>4 DEF Page
  <2>7. Range(r) = {u \in Thread : status'[u] = "ready"}
    BY <1>2, <2>3, <2>6
  <2>8. QueueOK(status', ready_list', priority')
    BY <2>2, <2>3, <2>7 DEF QueueOK
  <2>9. \A u \in Range(ready_list') : current' # Idle /\ priority'[u] <= priority'[current']
    BY <2>2, <2>3, <2>4
  <2>10. \A u \in Thread : /\ status'[u] = "blocked" <=> st[u] = "blocked"
                           /\ status'[u] = "free" <=> st[u] = "free"
    BY <2>4, <2>6
  <2> QED
    BY <2>5, <2>8, <2>9, <2>10 DEF Rescheduled
<1> QED
  BY <1>3, <1>4

\* thread_yield puts the running thread on the run queue before it schedules.
LEMMA YieldStep ==
  ASSUME NEW st \in [Page -> ThreadStatus], NEW rl, QueueOK(st, rl, priority),
         priority \in [Thread -> Priority], priority' = priority,
         current \in Page, st[current] = "running",
         thread_yield(st, rl)
  PROVE  Rescheduled(st)
<1>1. PICK st2 : st2 = [st EXCEPT ![current] = "ready"]
  BY Zenon
<1>2. PICK r : r = IF current = Idle THEN rl ELSE Enqueue(rl, current, priority)
  OBVIOUS
<1>3. Schedule(st2, r)
  BY <1>1, <1>2 DEF thread_yield
<1>4. st2 \in [Page -> ThreadStatus]
  BY <1>1 DEF ThreadStatus
<1>5. QueueOK(st2, r, priority)
  <2>1. CASE current = Idle
    <3>1. {t \in Thread : st[t] = "ready"} = {t \in Thread : st2[t] = "ready"}
      BY <1>1, <2>1, ThreadAssumption DEF Page
    <3> QED
      BY <1>2, <2>1, <3>1 DEF QueueOK
  <2>2. CASE current # Idle
    <3>1. current \in Thread /\ st[current] # "ready"
      BY <2>2 DEF Page
    <3>2. r = Enqueue(rl, current, priority)
      BY <1>2, <2>2
    <3> QED
      BY <3>1, <3>2, <1>1, EnqueueReady, Zenon
  <2> QED
    BY <2>1, <2>2
<1>6. QueueOK(st2, r, priority')
  BY <1>5
<1>7. Rescheduled(st2)
  BY <1>3, <1>4, <1>6, ScheduleStep, Zenon
<1>8. \A t \in Thread : /\ st2[t] = "blocked" <=> st[t] = "blocked"
                        /\ st2[t] = "free" <=> st[t] = "free"
  BY <1>1 DEF Page
<1> QED
  BY <1>7, <1>8 DEF Rescheduled

\* A step that leaves the processor to the running thread.
LEMMA NoSwitch ==
  ASSUME NEW st \in [Page -> ThreadStatus], QueueOK(st, ready_list', priority'),
         current \in Page, st[current] = "running",
         status' = st, current' = current
  PROVE  Rescheduled(st)
BY DEF Rescheduled

----------------------------------------------------------------------------
(* Donation *)

\* What the loop of thread_propagate_priority keeps: the run queue of w is
\* one for the priorities of w.
WalkOK(w) ==
  /\ w \in [lock : Lock \cup {NULL}, pri : [Thread -> Priority],
            ready : Seq(Thread), donated : Priority]
  /\ QueueOK(status, w.ready, w.pri)

\* A change of the priorities of threads that are not on a list.
LEMMA DescendingOthers ==
  ASSUME NEW s \in Seq(Thread), NEW key, NEW key2,
         \A x \in Range(s) : key2[x] = key[x], Descending(s, key)
  PROVE  Descending(s, key2)
<1>1. \A i \in 1..Len(s) : s[i] \in Range(s)
  BY Members
<1> QED
  BY <1>1 DEF Descending

\* Raising a holder that is on the run queue moves it to its new place.
LEMMA PropagateStepOK ==
  ASSUME TypeOK, NEW w, WalkOK(w)
  PROVE  WalkOK(PropagateStep(w))
<1>1. PICK l, pri, ready, donated : /\ l = w.lock /\ pri = w.pri
                                    /\ ready = w.ready /\ donated = w.donated
  OBVIOUS
<1>2. /\ l \in Lock \cup {NULL} /\ pri \in [Thread -> Priority]
      /\ ready \in Seq(Thread) /\ donated \in Priority
      /\ QueueOK(status, ready, pri)
  BY <1>1 DEF WalkOK
<1>3. PICK h : h = holder[l]
  OBVIOUS
<1>4. CASE l = NULL \/ h = NULL \/ pri[h] >= donated
  <2>1. PropagateStep(w) = [w EXCEPT !.lock = NULL]
    BY <1>1, <1>3, <1>4, Zenon DEF PropagateStep
  <2>2. PICK v : v = [w EXCEPT !.lock = NULL]
    BY Zenon
  <2>3. /\ v \in [lock : Lock \cup {NULL}, pri : [Thread -> Priority],
                  ready : Seq(Thread), donated : Priority]
        /\ v.pri = pri /\ v.ready = ready
    BY <2>2, <1>1 DEF WalkOK
  <2> QED
    BY <2>1, <2>2, <2>3, <1>2 DEF WalkOK
<1>5. CASE ~(l = NULL \/ h = NULL \/ pri[h] >= donated)
  <2>1. h \in Thread /\ blocking_lock[h] \in Lock \cup {NULL}
    BY <1>2, <1>3, <1>5 DEF TypeOK
  <2>2. PICK raised : raised = [pri EXCEPT ![h] = donated]
    BY Zenon
  <2>3. raised \in [Thread -> Priority] /\ \A x \in Thread : x # h => raised[x] = pri[x]
    <3>1. pri \in [Thread -> Priority] /\ donated \in Priority
      BY <1>2
    <3> QED
      BY <2>2, <3>1, Zenon
  <2>4. PICK rl : rl = IF status[h] = "ready"
                       THEN Enqueue(list_remove(ready, h), h, raised) ELSE ready
    OBVIOUS
  <2>5. PropagateStep(w) = [lock |-> blocking_lock[h], pri |-> raised,
                            donated |-> donated, ready |-> rl]
    <3>1. PropagateStep(w) = Raise(w, h)
      BY <1>1, <1>3, <1>5, Zenon DEF PropagateStep
    <3> QED
      BY <3>1, <1>1, <2>2, <2>4, Zenon DEF Raise
  <2>6. /\ IsInjective(ready) /\ Descending(ready, pri)
        /\ Range(ready) = {t \in Thread : status[t] = "ready"}
    BY <1>2 DEF QueueOK
  <2>7. QueueOK(status, rl, raised)
    <3>1. CASE status[h] # "ready"
      <4>1. \A x \in Range(ready) : raised[x] = pri[x]
        BY <2>3, <2>6, <3>1
      <4>2. Descending(ready, raised)
        BY <4>1, <1>2, <2>6, DescendingOthers, Zenon
      <4> QED
        BY <4>2, <1>2, <2>4, <2>6, <3>1 DEF QueueOK
    <3>2. CASE status[h] = "ready"
      <4>1. PICK r : r = list_remove(ready, h)
        OBVIOUS
      <4>2. h \in Range(ready)
        BY <2>1, <2>6, <3>2
      <4>3. /\ r \in Seq(Thread) /\ Range(r) = Range(ready) \ {h}
            /\ IsInjective(r) /\ Descending(r, pri)
        BY <1>2, <2>6, <4>1, <4>2, ListRemove, Zenon
      <4>4. \A x \in Range(r) : raised[x] = pri[x]
        BY <2>3, <2>6, <4>3
      <4>5. Descending(r, raised)
        BY <4>3, <4>4, DescendingOthers, Zenon
      <4>6. rl = Enqueue(r, h, raised)
        BY <2>4, <3>2, <4>1
      <4>7. h \notin Range(r)
        BY <4>3
      <4>8. /\ rl \in Seq(Thread) /\ Range(rl) = Range(r) \cup {h}
            /\ IsInjective(rl) /\ Descending(rl, raised)
        BY <2>1, <2>3, <4>3, <4>5, <4>6, <4>7, EnqueueMembers, Zenon
      <4>9. Range(rl) = {t \in Thread : status[t] = "ready"}
        BY <4>2, <4>3, <4>8, <2>6
      <4> QED
        BY <4>8, <4>9 DEF QueueOK
    <3> QED
      BY <3>1, <3>2
  <2>8. rl \in Seq(Thread)
    BY <2>7 DEF QueueOK
  <2> QED
    BY <1>2, <2>1, <2>3, <2>5, <2>7, <2>8 DEF WalkOK
<1> QED
  BY <1>4, <1>5

\* A turn of the loop is a PropagateStep.
LEMMA TurnIsStep ==
  ASSUME NEW w
  PROVE  Turn(w) = PropagateStep(w)
<1>1. \E x \in {PropagateStep(v) : v \in {w}} : TRUE
  OBVIOUS
<1>2. Turn(w) \in {PropagateStep(v) : v \in {w}}
  BY <1>1, Zenon DEF Turn
<1> QED
  BY <1>2, Zenon

\* thread_propagate_priority keeps the run queue in order.
LEMMA PropagateOK ==
  ASSUME TypeOK, NEW t \in Thread, NEW l \in Lock \cup {NULL},
         NEW pri \in [Thread -> Priority], QueueOK(status, ready_list, pri)
  PROVE  WalkOK(Propagate(t, l, pri))
<1>1. PICK w : w = [lock |-> l, pri |-> pri, donated |-> pri[t], ready |-> ready_list]
  BY Zenon
<1>2. WalkOK(w)
  BY <1>1 DEF WalkOK, TypeOK
<1> DEFINE IsWalk(walk) ==
      walk = [n \in 0..8 |-> IF n = 0 THEN w ELSE Turn(walk[n-1])]
<1>3. Propagate(t, l, pri) = (CHOOSE walk : IsWalk(walk))[8]
  BY <1>1, Zenon DEF Propagate
<1>4. \E walk : IsWalk(walk)
  <2>1. PICK w1, w2, w3, w4 :
          /\ w1 = Turn(w) /\ w2 = Turn(w1)
          /\ w3 = Turn(w2) /\ w4 = Turn(w3)
    BY Zenon
  <2>2. PICK w5, w6, w7, w8 :
          /\ w5 = Turn(w4) /\ w6 = Turn(w5)
          /\ w7 = Turn(w6) /\ w8 = Turn(w7)
    BY Zenon
  <2> DEFINE G == [n \in 0..8 |-> IF n = 0 THEN w ELSE IF n = 1 THEN w1
                     ELSE IF n = 2 THEN w2 ELSE IF n = 3 THEN w3
                     ELSE IF n = 4 THEN w4 ELSE IF n = 5 THEN w5
                     ELSE IF n = 6 THEN w6 ELSE IF n = 7 THEN w7 ELSE w8]
  <2>3. /\ G[0] = w /\ G[1] = w1 /\ G[2] = w2 /\ G[3] = w3 /\ G[4] = w4
        /\ G[5] = w5 /\ G[6] = w6 /\ G[7] = w7 /\ G[8] = w8
    OBVIOUS
  <2>4. G = [n \in 0..8 |-> G[n]]
    OBVIOUS
  <2> HIDE DEF G
  <2>5. ASSUME NEW n \in 0..8
        PROVE  G[n] = IF n = 0 THEN w ELSE Turn(G[n-1])
    <3>1. n \in {0, 1, 2, 3, 4, 5, 6, 7, 8}
      OBVIOUS
    <3> QED
      BY <2>1, <2>2, <2>3, <3>1
  <2>6. IsWalk(G)
    BY <2>4, <2>5
  <2> QED
    BY <2>6
<1>5. PICK walk : walk = CHOOSE x : IsWalk(x)
  OBVIOUS
<1>6. IsWalk(walk)
  <2> HIDE DEF IsWalk
  <2> QED
    BY <1>4, <1>5, Zenon
<1>7. walk[0] = w /\ \A n \in 1..8 : walk[n] = Turn(walk[n-1])
  BY <1>6
<1>8. \A x : WalkOK(x) => WalkOK(Turn(x))
  BY PropagateStepOK, TurnIsStep, Zenon
<1>9. \A n \in 1..8 : WalkOK(walk[n-1]) => WalkOK(walk[n])
  BY <1>7, <1>8
<1>10. WalkOK(walk[1]) /\ WalkOK(walk[2]) /\ WalkOK(walk[3]) /\ WalkOK(walk[4])
  BY <1>2, <1>7, <1>9
<1>11. WalkOK(walk[5]) /\ WalkOK(walk[6]) /\ WalkOK(walk[7]) /\ WalkOK(walk[8])
  BY <1>9, <1>10
<1> QED
  BY <1>3, <1>5, <1>11

==============================================================================
