------------------------------ MODULE MCThreads ------------------------------
(***************************************************************************)
(* The scheduler's clients for TLC.  A behaviour is one of these:          *)
(*   alarm      three threads of two priorities that sleep;                *)
(*   monitor    the same ones with a lock and a condition variable;        *)
(*   inversion  four threads of four priorities on two nested locks.       *)
(* The variables that only the other parts use stay as they are.           *)
(***************************************************************************)
EXTENDS Alarm, TLC

CONSTANTS t1, t2, t3, t4, s1, s2, s3, lock, lock2, cond

VARIABLES value, waiters, cond_waiters, at, elem, panic, step, part

M == INSTANCE Monitor WITH
       Semaphore <- {s1, s2, s3}, waiter <- t1 :> s1 @@ t2 :> s2 @@ t3 :> s3,
       Condition <- {cond}, MaxValue <- 1

\* Each thread but low is woken by an interrupt of its own.
I == INSTANCE Inversion WITH
       low <- t1, mid <- t2, hog <- t3, high <- t4, A <- lock, B <- lock2,
       go <- t2 :> s1 @@ t3 :> s2 @@ t4 :> s3, Thread <- {t1, t2, t3, t4},
       Lock <- {lock, lock2}, Semaphore <- {s1, s2, s3}, Priority <- 1..4, MaxValue <- 1

ASSUME M!MonitorAssumption /\ I!InversionAssumption

timeVars == <<alarmVars, thread_ticks, late>>
semaVars == <<value, waiters>>
condVars == <<cond_waiters, at, elem, panic>>
all == <<vars, semaVars, condVars, step, part>>

\* Configuration files have no negative numbers.
Durations == -1..2

MCInit ==
  \/ part \in {"alarm", "monitor"} /\ Init /\ M!MonitorInit /\ step = 0
  \/ /\ part = "inversion" /\ I!ProgramInit
     /\ sleep_list = << >> /\ remaining = [t \in Thread |-> 0] /\ thread_ticks = 0 /\ late = 0
     /\ cond_waiters = 0 /\ at = 0 /\ elem = 0 /\ panic = FALSE

AlarmStep(A) == part = "alarm" /\ A /\ UNCHANGED <<semaVars, condVars, step, part>>
ProgramStep(A) == part = "inversion" /\ A /\ UNCHANGED <<timeVars, condVars, part>>

MCNext ==
  \/ AlarmStep(Next)
  \/ part = "monitor" /\ M!MonitorNext /\ UNCHANGED <<timeVars, step, part>>
  \/ ProgramStep(I!ProgramNext)

\* The fairness of Alarm and Inversion.
MCSpec ==
  /\ MCInit /\ [][MCNext]_all
  /\ WF_all(AlarmStep(timer_interrupt))
  /\ WF_all(ProgramStep(I!Execute)) /\ WF_all(ProgramStep(I!Timer))

\* No signal of the monitor is lost.
NoLostSignal == part = "monitor" => M!NoLostSignal

\* Donation through two locks gets the lowest thread to its lock_release although
\* a thread of a higher priority never blocks.
ChainIsDonated ==
  part = "inversion" /\ I!Chained ~> (part = "inversion" => pc[t1] = "release")

\* No assertion of cond_signal fails.
NoPanic == M!NoPanic

==============================================================================
