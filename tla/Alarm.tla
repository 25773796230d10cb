-------------------------------- MODULE Alarm --------------------------------
(***************************************************************************)
(* The timer of devices/timer.c: timer_sleep, and the timer interrupt with *)
(* its wakeups and time slices, on top of the scheduler.                   *)
(*                                                                         *)
(* The tick counter only enters as a difference: remaining[t] stands for   *)
(* t->wakeup_tick - ticks.  The threads sleep, yield, compute, create      *)
(* threads and change their priorities; they use no locks and do not exit. *)
(***************************************************************************)
EXTENDS Threads, SequencesExt

CONSTANTS
  TIME_SLICE,       \* ticks a thread may run in a row, 4 in the code
  Duration          \* the arguments of timer_sleep, which may be negative

ASSUME AlarmAssumption ==
  /\ TIME_SLICE \in Nat \ {0}
  /\ Duration \subseteq Int

VARIABLES
  sleep_list,
  remaining,
  thread_ticks,     \* ticks since the last thread switch
  late              \* history: ticks since a ready thread outranks the running one

alarmVars == <<sleep_list, remaining>>
vars == <<threadVars, alarmVars, thread_ticks, late>>

Sleepers == Range(sleep_list)

\* A ready thread has a higher priority than the running one.
Outranked(cur, rl, pri) ==
  \E u \in Range(rl) : cur = Idle \/ pri[u] > pri[cur]

Observe(ticked) ==
  late' = IF Outranked(current', ready_list', priority')
          THEN (IF ticked THEN late + 1 ELSE late) ELSE 0

----------------------------------------------------------------------------

\* A mistake: the sleep list is not kept in order.
timer_sleep_Append(t, n) ==
  /\ Runs(t)
  /\ remaining' = [remaining EXCEPT ![t] = n]
  /\ sleep_list' = Append(sleep_list, t)
  /\ thread_block(ready_list)
  /\ thread_ticks' = 0
  /\ UNCHANGED <<priority, original_priority, donor_threads, blocking_lock, holder,
                 pc, arg>>
  /\ Observe(FALSE)

\* timer_sleep, whatever the sign of n: wait for a later timer interrupt.
timer_sleep(t, n) ==
  /\ Runs(t)
  /\ remaining' = [remaining EXCEPT ![t] = n]
  /\ sleep_list' = list_insert_ordered(sleep_list, t, {u \in Thread : n < remaining[u]})
  /\ thread_block(ready_list)
  /\ thread_ticks' = 0
  /\ UNCHANGED <<priority, original_priority, donor_threads, blocking_lock, holder,
                 pc, arg>>
  /\ Observe(FALSE)

\* A mistake: the slice is one tick too long.
SliceOver_Long == thread_ticks + 1 > TIME_SLICE

\* thread_tick: with this tick the time slice ends.
SliceOver == thread_ticks + 1 >= TIME_SLICE

\* The loop of timer_interrupt pops the first n threads of the sleep list: the
\* ones in front of the first thread whose time has not come by this tick.
Due(n) ==
  /\ \A i \in 1..n : remaining[sleep_list[i]] - 1 <= 0
  /\ n < Len(sleep_list) => remaining[sleep_list[n + 1]] - 1 > 0

Pop(n) == SubSeq(sleep_list, n + 1, Len(sleep_list))

\* timer_interrupt: one tick passes, and the threads at the front of the
\* sleep list whose time has come are put on the run queue.  At the end of
\* the time slice thread_tick asks for a thread_yield, which intr_handler
\* performs after the wakeups.
timer_interrupt ==
  /\ InterruptsOn
  /\ \E n \in {m \in 0..Len(sleep_list) : Due(m)} :
     \E woken \in {SubSeq(sleep_list, 1, n)} :
     \E rl \in {FoldLeft(LAMBDA list, t : Enqueue(list, t, priority), ready_list, woken)} :
       LET st == [t \in Thread \cup {Idle} |->
                    IF t \in Range(woken) THEN "ready" ELSE status[t]]
       IN  /\ sleep_list' = Pop(n)
           /\ remaining' = [t \in Thread |->
                              IF t \in Sleepers' THEN remaining[t] - 1 ELSE 0]
           /\ IF SliceOver
              THEN thread_yield(st, rl) /\ thread_ticks' = 0
              ELSE /\ status' = st /\ ready_list' = rl /\ UNCHANGED current
                   /\ thread_ticks' = thread_ticks + 1
  /\ UNCHANGED <<priority, original_priority, donor_threads, blocking_lock, holder,
                 pc, arg>>
  /\ Observe(TRUE)

\* The operations of thread.c.  thread_schedule_tail starts a new time slice,
\* also when the thread that yields is the one that runs next.
SchedulerStep ==
  /\ \/ /\ idle \/ \E t \in Thread : Runs(t) /\ Preempt
        /\ thread_ticks' = 0
     \/ \E t \in Thread :
          /\ thread_create_yield(t)
          /\ thread_ticks' = IF priority[arg[t]] > priority[t] THEN 0 ELSE thread_ticks
     \/ \E t \in Thread :
          /\ \/ \E u \in Thread, p \in Priority : thread_create(t, u, p)
             \/ \E p \in Priority : thread_set_priority(t, p)
             \/ thread_set_priority_update(t)
             \/ thread_set_priority_yield(t)
          /\ thread_ticks' = IF current' # current THEN 0 ELSE thread_ticks
  /\ Observe(FALSE)
  /\ UNCHANGED alarmVars

Init ==
  /\ ThreadInit
  /\ sleep_list = <<>>
  /\ remaining = [t \in Thread |-> 0]
  /\ thread_ticks = 0
  /\ late = 0

Next ==
  \/ \E t \in Thread, n \in Duration : timer_sleep(t, n)
  \/ timer_interrupt
  \/ SchedulerStep

\* The timer ticks for ever.
Spec == Init /\ [][Next]_vars /\ WF_vars(timer_interrupt)

----------------------------------------------------------------------------
(* Properties *)

\* timer_sleep(n) with n > 0 ends in the n-th timer interrupt, neither before nor
\* after, whoever else sleeps: looking at the front of the list is enough.
WakesOnTime ==
  [][{t \in Sleepers \ Sleepers' : remaining[t] > 0} =
       (IF timer_interrupt THEN {t \in Sleepers : remaining[t] = 1} ELSE {})]_vars

\* "timer_sleep(0), which should return immediately" (tests/threads/
\* alarm-zero.c): the caller does not go to sleep.
ZeroReturns == [][\A t \in Thread : timer_sleep(t, 0) => t \notin Sleepers']_vars

\* A ready thread with a higher priority than the running one waits less than
\* a time slice for the processor, although the interrupt that woke it does
\* not preempt.
PreemptionDelay == late < TIME_SLICE

\* A sleeping thread runs again, unless a thread of a higher priority may
\* keep it from the processor.
SleeperRuns ==
  \A t \in Thread :
    t \in Sleepers ~> \/ current = t
                      \/ \E u \in Thread \ {t} : priority[u] > priority[t]

==============================================================================
