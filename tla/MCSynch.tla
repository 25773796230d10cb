------------------------------- MODULE MCSynch -------------------------------
(***************************************************************************)
(* Instances of Synch for TLC.  Four threads, two locks and a semaphore at *)
(* once are too many; idle_ones says which of them take no part in a       *)
(* behaviour: a thread and the semaphore, so that three threads nest two   *)
(* locks; a lock and the semaphore, so that donors overtake on a run queue *)
(* of several threads, which then keep the priorities they are created     *)
(* with; or a thread and a lock.                                           *)
(***************************************************************************)
EXTENDS Synch, TLC

VARIABLE idle_ones

Cast(a, b) == {{x, y} : x \in a, y \in b}

Locks  == Cast(Thread \ {InitialThread}, Semaphore)
Queue  == Cast(Lock, Semaphore)
Semas  == Cast(Thread \ {InitialThread}, Lock)

\* The third priority is for nested locks.
Priorities == IF idle_ones \in Locks THEN Priority ELSE Priority \ {Max(Priority)}

Untouched ==
  /\ \A t \in Thread : IF t \in idle_ones THEN status[t] = "free"
                                          ELSE original_priority[t] \in Priorities
  /\ \A s \in Sema \cap idle_ones :
       value[s] = (IF s \in Lock THEN 1 ELSE 0) /\ waiters[s] = <<>>
  /\ idle_ones \in Queue => \A t \in Thread : pc[t] # "set_priority"

\* Threads set their priorities, so the first one may start with any.
MCInit ==
  /\ idle_ones \in Locks \cup Queue \cup Semas
  /\ Init /\ priority[InitialThread] = Min(Priority)
  /\ Untouched

MCNext == Next /\ UNCHANGED idle_ones /\ Untouched'
MCSpec == MCInit /\ [][MCNext]_<<vars, idle_ones>>

\* All threads but the initial one, all locks and all semaphores are alike.
Symmetry ==
  Permutations(Thread \ {InitialThread}) \cup Permutations(Lock) \cup Permutations(Semaphore)

==============================================================================
