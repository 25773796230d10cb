------------------------------- MODULE Threads -------------------------------
(***************************************************************************)
(* The kernel threads of threads/thread.c: their states, the run queue,    *)
(* thread switches, priorities and the donation of priorities along chains *)
(* of locks.                                                               *)
(*                                                                         *)
(* Pintos runs on one processor.  What the code does with interrupts off   *)
(* is one step of the model; wherever interrupts are on, the timer may     *)
(* take the processor away (Preempt).  pc[t] says where thread t is in the *)
(* operation it called, "run" when it is outside of all of them; arg[t] is *)
(* the thread, semaphore or lock that operation is about.                  *)
(***************************************************************************)
EXTENDS PintosList

CONSTANTS
  Thread,           \* pages that can hold a struct thread
  InitialThread,    \* the thread of main(), which is never freed
  Idle,             \* idle_thread
  Lock,             \* the struct locks
  Priority,         \* the priorities in use, PRI_MIN..PRI_MAX in the code
  NULL

ASSUME ThreadAssumption ==
  /\ InitialThread \in Thread
  /\ Idle \notin Thread
  /\ NULL \notin Thread \cup {Idle} \cup Lock
  /\ Priority \subseteq 0..63 /\ Priority # {}

VARIABLES
  status,             \* struct thread.status, "free" for an unused page
  current,            \* the running thread
  ready_list,
  priority,           \* struct thread.priority
  original_priority,
  donor_threads,      \* struct thread.donor_threads, of which only the
                      \* members and never the order matters
  blocking_lock,
  holder,             \* struct lock.holder, read when donating
  pc, arg

threadVars == <<status, current, ready_list, priority, original_priority,
                donor_threads, blocking_lock, holder, pc, arg>>

ThreadStatus == {"free", "running", "ready", "blocked", "dying"}

----------------------------------------------------------------------------
(* Switching threads *)

\* A mistake: t goes in front of the threads of its priority.
Enqueue_Front(list, t, pri) ==
  list_insert_ordered(list, t, {u \in Thread : pri[t] >= pri[u]})

\* list_insert_ordered (list, &t->elem, thread_cmp): t goes behind the
\* threads of its priority pri[t] and above.
Enqueue(list, t, pri) ==
  list_insert_ordered(list, t, {u \in Thread : pri[t] > pri[u]})

\* schedule and thread_schedule_tail, entered with the statuses st and the
\* run queue rl: the front of the run queue runs, the idle thread if the
\* queue is empty.
Schedule(st, rl) ==
  LET next == IF rl = <<>> THEN Idle ELSE Head(rl)
  IN  /\ current' = next
      /\ ready_list' = IF rl = <<>> THEN rl ELSE Tail(rl)
      /\ status' = [st EXCEPT ![next] = "running"]

\* thread_block
thread_block(rl) == Schedule([status EXCEPT ![current] = "blocked"], rl)

\* thread_yield: the idle thread never enters the run queue.
thread_yield(st, rl) ==
  Schedule([st EXCEPT ![current] = "ready"],
           IF current = Idle THEN rl ELSE Enqueue(rl, current, priority))

\* Interrupts are off exactly while a thread is inside the loop of sema_down.
InterruptsOn == current \notin {t \in Thread : pc[t] \in {"down", "acquire"}}

\* Thread t runs outside of the kernel operations modelled here.
Runs(t) == current = t /\ pc[t] = "run"

Goto(t, label, a) ==
  /\ pc' = [pc EXCEPT ![t] = label]
  /\ arg' = [arg EXCEPT ![t] = a]

----------------------------------------------------------------------------
(* Priorities *)

\* The priority thread_update_priority gives t: its own one or, if larger,
\* the largest of its donors.
DonatedPriority(t, original, donors) ==
  Max({original[t]} \cup {priority[d] : d \in donors[t]})

\* Mistakes: a holder on the run queue keeps its place, or gets a second one.
PropagateStep_Stay(w) ==
  IF w.lock = NULL \/ holder[w.lock] = NULL \/ w.pri[holder[w.lock]] >= w.donated
  THEN [w EXCEPT !.lock = NULL]
  ELSE [w EXCEPT !.lock = blocking_lock[holder[w.lock]],
                 !.pri = [w.pri EXCEPT ![holder[w.lock]] = w.donated]]

PropagateStep_Twice(w) ==
  LET x == PropagateStep_Stay(w) IN
  IF x.lock = w.lock \/ x.pri = w.pri \/ status[holder[w.lock]] # "ready" THEN x
  ELSE [x EXCEPT !.ready = Enqueue(w.ready, holder[w.lock], x.pri)]

\* The holder that w raises, with its new priority and its new place on the
\* run queue.
Raise(w, h) ==
  LET raised == [w.pri EXCEPT ![h] = w.donated]
  IN  [lock |-> blocking_lock[h], pri |-> raised, donated |-> w.donated,
       ready |-> IF status[h] = "ready" THEN Enqueue(list_remove(w.ready, h), h, raised)
                 ELSE w.ready]

\* One turn of the loop of thread_propagate_priority.  w.lock is the lock
\* whose holder is next, NULL once the loop has ended.
PropagateStep(w) ==
  IF w.lock = NULL \/ holder[w.lock] = NULL \/ w.pri[holder[w.lock]] >= w.donated
  THEN [w EXCEPT !.lock = NULL]
  ELSE Raise(w, holder[w.lock])

\* PropagateStep(w), written so that TLC computes w once and not for each use.
Turn(w) == CHOOSE x \in {PropagateStep(v) : v \in {w}} : TRUE

\* A mistake: only the holder of the lock itself is raised.
Propagate_OneLevel(t, lock, pri) ==
  PropagateStep([lock |-> lock, pri |-> pri, ready |-> ready_list, donated |-> pri[t]])

\* thread_propagate_priority, for a thread whose priority is pri[t] and that
\* waits for lock: at most DONATION_DEPTH = 8 holders are raised.
Propagate(t, lock, pri) ==
  LET walk[n \in 0..8] ==
        IF n = 0
        THEN [lock |-> lock, pri |-> pri, donated |-> pri[t], ready |-> ready_list]
        ELSE Turn(walk[n-1])
  IN  walk[8]

----------------------------------------------------------------------------
(* The operations of thread.c *)

\* thread_create: the new thread is initialised and put on the run queue...
thread_create(t, u, p) ==
  /\ Runs(t)
  /\ status[u] = "free"
  /\ status' = [status EXCEPT ![u] = "ready"]
  /\ priority' = [priority EXCEPT ![u] = p]
  /\ original_priority' = [original_priority EXCEPT ![u] = p]
  /\ donor_threads' = [donor_threads EXCEPT ![u] = {}]
  /\ blocking_lock' = [blocking_lock EXCEPT ![u] = NULL]
  /\ ready_list' = Enqueue(ready_list, u, priority')
  /\ pc' = [pc EXCEPT ![t] = "create", ![u] = "run"]
  /\ arg' = [arg EXCEPT ![t] = u, ![u] = NULL]
  /\ UNCHANGED <<current, holder>>

\* ... and then, with interrupts on again, compared with its creator.  By
\* then it may have run and exited: the comparison reads a freed page, whose
\* bytes may be anything.
thread_create_yield(t) ==
  /\ current = t /\ pc[t] = "create"
  /\ \E preempts \in IF status[arg[t]] = "free" THEN BOOLEAN
                     ELSE {priority[arg[t]] > priority[t]} :
       IF preempts THEN thread_yield(status, ready_list)
                   ELSE UNCHANGED <<status, current, ready_list>>
  /\ Goto(t, "run", NULL)
  /\ UNCHANGED <<priority, original_priority, donor_threads, blocking_lock, holder>>

\* thread_exit: the thread that runs next frees the page.
thread_exit(t) ==
  /\ Runs(t)
  /\ Schedule([status EXCEPT ![t] = IF t = InitialThread THEN "dying" ELSE "free"],
              ready_list)
  /\ UNCHANGED <<priority, original_priority, donor_threads, blocking_lock, holder,
                 pc, arg>>

\* thread_set_priority: the thread's own priority is set, ...
thread_set_priority(t, p) ==
  /\ Runs(t)
  /\ original_priority' = [original_priority EXCEPT ![t] = p]
  /\ Goto(t, "set_priority", NULL)
  /\ UNCHANGED <<status, current, ready_list, priority, donor_threads,
                 blocking_lock, holder>>

\* ... the effective one recomputed and passed on, ...
thread_set_priority_update(t) ==
  /\ current = t /\ pc[t] = "set_priority"
  /\ LET own == [priority EXCEPT
                   ![t] = DonatedPriority(t, original_priority, donor_threads)]
         w == Propagate(t, blocking_lock[t], own)
     IN  priority' = w.pri /\ ready_list' = w.ready
  /\ Goto(t, "set_priority_yield", NULL)
  /\ UNCHANGED <<status, current, original_priority, donor_threads,
                 blocking_lock, holder>>

\* ... and the processor given up if a ready thread now has a higher one.
thread_set_priority_yield(t) ==
  /\ current = t /\ pc[t] = "set_priority_yield"
  /\ IF ready_list # <<>> /\ priority[t] < priority[Head(ready_list)]
     THEN thread_yield(status, ready_list)
     ELSE UNCHANGED <<status, current, ready_list>>
  /\ Goto(t, "run", NULL)
  /\ UNCHANGED <<priority, original_priority, donor_threads, blocking_lock, holder>>

\* The loop of idle(): when an interrupt ends the HLT, let someone else run.
idle ==
  /\ current = Idle
  /\ thread_block(ready_list)
  /\ UNCHANGED <<priority, original_priority, donor_threads, blocking_lock, holder,
                 pc, arg>>

\* thread_tick at the end of a time slice, and a thread's own thread_yield:
\* the running thread yields at any place where interrupts are on.
Preempt ==
  /\ InterruptsOn
  /\ thread_yield(status, ready_list)
  /\ UNCHANGED <<priority, original_priority, donor_threads, blocking_lock, holder,
                 pc, arg>>

ThreadInit ==
  \E p \in Priority :
    /\ status = [t \in Thread \cup {Idle} |->
                   CASE t = InitialThread -> "running"
                     [] t = Idle -> "blocked"
                     [] OTHER -> "free"]
    /\ current = InitialThread
    /\ ready_list = <<>>
    /\ priority = [t \in Thread |-> p]
    /\ original_priority = [t \in Thread |-> p]
    /\ donor_threads = [t \in Thread |-> {}]
    /\ blocking_lock = [t \in Thread |-> NULL]
    /\ holder = [l \in Lock |-> NULL]
    /\ pc = [t \in Thread |-> "run"]
    /\ arg = [t \in Thread |-> NULL]

=============================================================================
