------------------------------- MODULE Process -------------------------------
(***************************************************************************)
(* User processes: exec, wait, exit and kill (userprog/process.c,          *)
(* userprog/syscall.c, userprog/exception.c) and the struct exit_state     *)
(* that a parent and its child share.                                      *)
(*                                                                         *)
(* A block is memory that malloc() hands out for an exit_state: FREED, or  *)
(* a record.  The kernel runs these functions with interrupts on, so that  *)
(* every access to a shared field that another process can come in before  *)
(* is a step.  A child that process_wait did not wait long enough for goes *)
(* on to use its block.  If it is free, free() has filled it with 0xcc:    *)
(* what is read from it is a free choice, and sema_up on its garbage list  *)
(* is a page fault in the kernel, which panics.  If malloc() has given it  *)
(* to the next process_execute, it is the exit_state of another child.     *)
(***************************************************************************)
EXTENDS Integers, FiniteSets

CONSTANTS Process, Initial, Status, Block, NONE, FREED

ProcessAssumption == Initial \in Process /\ Status \subseteq Nat

VARIABLES
  pc,           \* where a process is
  block,        \* struct thread.exit_state, a pointer
  child,        \* child_exit_state of process_execute and process_wait, a pointer
  exit_state,   \* what is in each block; trampled: another child wrote into it
  children,     \* struct thread.children_exit_state
  verdict,      \* the status a process was told to end with
  outcome,      \* what the last process_wait returned, to whom and for whom
  panic

vars == <<pc, block, child, exit_state, children, verdict, outcome, panic>>

Live(b) == exit_state[b] # FREED
At(p, l) == ~panic /\ pc[p] = l
Go(p, l) == pc' = [pc EXCEPT ![p] = l]
Return(p) == Go(p, "user") /\ child' = [child EXCEPT ![p] = NONE]

\* What process c makes of the block it points to, whose ever it is by now.
Written(c, es) == [es EXCEPT !.trampled = @ \/ es.tid # c]

\* An assignment to a field; in a free block nothing looks at it.
Set(c, es) ==
  exit_state' = IF Live(block[c]) THEN [exit_state EXCEPT ![block[c]] = Written(c, es)] ELSE exit_state

----------------------------------------------------------------------------

\* process_execute: a block is set up and the child's thread created.  Its tid
\* is stored after that, but nobody looks for it before it is on the list.
process_execute(p, c) ==
  /\ At(p, "user") /\ pc[c] = "unborn"
  /\ \E b \in Block :
       /\ ~Live(b)
       /\ exit_state' = [exit_state EXCEPT ![b] =
            [tid |-> c, exit_status |-> -1, exit_wait |-> 0, load_wait |-> 0,
             load_success |-> FALSE, waiting |-> FALSE, exited |-> FALSE, trampled |-> FALSE]]
       /\ block' = [block EXCEPT ![c] = b]
       /\ child' = [child EXCEPT ![p] = b]
  /\ pc' = [pc EXCEPT ![p] = "created", ![c] = "start"]
  /\ UNCHANGED <<children, verdict, outcome, panic>>

\* ... then the block is linked; the child may have run, even exited, ...
process_execute_link(p) ==
  /\ At(p, "created")
  /\ children' = [children EXCEPT ![p] = @ \cup {child[p]}]
  /\ Go(p, "load_wait")
  /\ UNCHANGED <<block, child, exit_state, verdict, outcome, panic>>

\* A mistake: the block of a child that did not load stays on the list.
process_execute_loaded_Keep(p) ==
  LET b == child[p]
      es == exit_state[b]
  IN  /\ At(p, "load_wait")
      /\ es.load_wait > 0
      /\ exit_state' = [exit_state EXCEPT ![b] =
           IF es.load_success THEN [es EXCEPT !.load_wait = @ - 1] ELSE FREED]
      /\ Return(p)
      /\ UNCHANGED <<block, children, verdict, outcome, panic>>

\* ... and the parent waits until the child is loaded.
process_execute_loaded(p) ==
  LET b == child[p]
      es == exit_state[b]
  IN  /\ At(p, "load_wait")
      /\ es.load_wait > 0
      /\ \/ /\ es.load_success
            /\ exit_state' = [exit_state EXCEPT ![b].load_wait = @ - 1]
            /\ UNCHANGED children
         \/ /\ ~es.load_success
            /\ exit_state' = [exit_state EXCEPT ![b] = FREED]
            /\ children' = [children EXCEPT ![p] = @ \ {b}]
      /\ Return(p)
      /\ UNCHANGED <<block, verdict, outcome, panic>>

\* start_process in the child, whose block nobody frees before load_wait is up.
\* After that it does not touch it; if the program did not load, the thread
\* exits.
start_process(c) ==
  /\ At(c, "start")
  /\ \E success \in BOOLEAN :
       /\ exit_state' = [exit_state EXCEPT ![block[c]].load_success = success,
                                           ![block[c]].load_wait = @ + 1]
       /\ Go(c, IF success THEN "user" ELSE "dead")
  /\ UNCHANGED <<block, child, children, verdict, outcome, panic>>

\* push_arguments stores below the page of the stack: page_fault finds no
\* entry for a fault in the kernel and calls exit (-1) inside load.
start_process_fault(c) ==
  /\ At(c, "start")
  /\ verdict' = [verdict EXCEPT ![c] = -1]
  /\ Go(c, "exit")
  /\ UNCHANGED <<block, child, exit_state, children, outcome, panic>>

----------------------------------------------------------------------------

\* The system call exit: the initial thread is no user process.
exit(c, s) ==
  /\ At(c, "user") /\ c # Initial
  /\ verdict' = [verdict EXCEPT ![c] = s]
  /\ Go(c, "exit")
  /\ UNCHANGED <<block, child, exit_state, children, outcome, panic>>

\* exit(): the status, then the flag that process_wait looks at, ...
exit_status(c) ==
  /\ At(c, "exit")
  /\ Set(c, [exit_state[block[c]] EXCEPT !.exit_status = verdict[c]])
  /\ Go(c, "exit_status")
  /\ UNCHANGED <<block, child, children, verdict, outcome, panic>>

\* A mistake: the flag is not set.
exit_exited_Skip(c) ==
  /\ At(c, "exit_status")
  /\ Go(c, "exited")
  /\ UNCHANGED <<block, exit_state, child, children, verdict, outcome, panic>>

exit_exited(c) ==
  /\ At(c, "exit_status")
  /\ Set(c, [exit_state[block[c]] EXCEPT !.exited = TRUE])
  /\ Go(c, "exited")
  /\ UNCHANGED <<block, child, children, verdict, outcome, panic>>

\* ... then whether the parent waits, and if so the semaphore.
exit_waiting(c) ==
  /\ At(c, "exited")
  /\ \E waiting \in IF Live(block[c]) THEN {exit_state[block[c]].waiting} ELSE BOOLEAN :
       Go(c, IF waiting THEN "exit_up" ELSE "dead")
  /\ UNCHANGED <<block, child, exit_state, children, verdict, outcome, panic>>

Up(c, l) ==
  /\ Set(c, [exit_state[block[c]] EXCEPT !.exit_wait = @ + 1])
  /\ panic' = ~Live(block[c])
  /\ Go(c, l)
  /\ UNCHANGED <<block, child, children, verdict, outcome>>

exit_up(c) == At(c, "exit_up") /\ Up(c, "dead")

\* An exception in user code: kill() sets the status and ups the semaphore,
\* waiting or not, then calls exit (-1).
kill(c) ==
  /\ At(c, "user") /\ c # Initial
  /\ verdict' = [verdict EXCEPT ![c] = -1]
  /\ Set(c, [exit_state[block[c]] EXCEPT !.exit_status = -1])
  /\ Go(c, "kill_up")
  /\ UNCHANGED <<block, child, children, outcome, panic>>

kill_up(c) == At(c, "kill_up") /\ Up(c, "exit")

----------------------------------------------------------------------------

\* The block on the list of p that is about child c, if there is one.
Listed(p, c) == {b \in children[p] : exit_state[b].tid = c}

process_wait_refused(p, c) ==
  /\ At(p, "user")
  /\ Listed(p, c) = {}
  /\ outcome' = <<p, c, -1>>
  /\ UNCHANGED <<pc, block, child, exit_state, children, verdict, panic>>

\* process_wait: takes the block off the list and says that it waits, ...
process_wait(p, c) ==
  /\ At(p, "user")
  /\ \E b \in Listed(p, c) :
       /\ children' = [children EXCEPT ![p] = @ \ {b}]
       /\ exit_state' = [exit_state EXCEPT ![b].waiting = TRUE]
       /\ child' = [child EXCEPT ![p] = b]
  /\ Go(p, "wait")
  /\ UNCHANGED <<block, verdict, outcome, panic>>

\* A mistake: it does not look whether the child has exited.
process_wait_exited_Not(p) ==
  /\ At(p, "wait")
  /\ Go(p, "reap")
  /\ UNCHANGED <<block, child, exit_state, children, verdict, outcome, panic>>

\* ... waits unless the child has exited, ...
process_wait_exited(p) ==
  /\ At(p, "wait")
  /\ Go(p, IF exit_state[child[p]].exited THEN "reap" ELSE "exit_wait")
  /\ UNCHANGED <<block, child, exit_state, children, verdict, outcome, panic>>

process_wait_down(p) ==
  /\ At(p, "exit_wait")
  /\ exit_state[child[p]].exit_wait > 0
  /\ exit_state' = [exit_state EXCEPT ![child[p]].exit_wait = @ - 1]
  /\ Go(p, "reap")
  /\ UNCHANGED <<block, child, children, verdict, outcome, panic>>

\* ... and returns the status and frees the block.
process_wait_reap(p) ==
  LET es == exit_state[child[p]]
  IN  /\ At(p, "reap")
      /\ outcome' = <<p, es.tid, es.exit_status>>
      /\ exit_state' = [exit_state EXCEPT ![child[p]] = FREED]
      /\ Return(p)
      /\ UNCHANGED <<block, children, verdict, panic>>

----------------------------------------------------------------------------

Init ==
  /\ pc = [p \in Process |-> IF p = Initial THEN "user" ELSE "unborn"]
  /\ block = [p \in Process |-> NONE]
  /\ child = [p \in Process |-> NONE]
  /\ exit_state = [b \in Block |-> FREED]
  /\ children = [p \in Process |-> {}]
  /\ verdict = [p \in Process |-> NONE]
  /\ outcome = NONE
  /\ panic = FALSE

\* What a process does on its own, without a further system call.
Step(p) ==
  \/ process_execute_link(p) \/ process_execute_loaded(p)
  \/ start_process(p) \/ start_process_fault(p)
  \/ exit_status(p) \/ exit_exited(p) \/ exit_waiting(p) \/ exit_up(p)
  \/ kill_up(p)
  \/ process_wait_exited(p) \/ process_wait_down(p) \/ process_wait_reap(p)

Call(p) ==
  \/ \E c \in Process : process_execute(p, c) \/ process_wait(p, c) \/ process_wait_refused(p, c)
  \/ \E s \in Status \cup {-1} : exit(p, s)
  \/ kill(p)

\* All processes wait, or compute, or the kernel has stopped.
Elsewhere == UNCHANGED vars

Next ==
  \/ \E p \in Process : Step(p) \/ Call(p)
  \/ Elsewhere

\* The scheduler runs every process that is not blocked; nothing makes a user
\* program call the kernel.
Spec == Init /\ [][Next]_vars /\ \A p \in Process : WF_vars(Step(p))

----------------------------------------------------------------------------
(* Properties *)

\* The blocks that process p has on its list or in hand.
Held(p) ==
  children[p] \cup (IF pc[p] \in {"created", "wait", "exit_wait", "reap"} THEN {child[p]} ELSE {})

\* A child that was linked counts until process_wait reaps it, one that did
\* not load until process_execute unlinks it.
Reaps == INSTANCE Reaping WITH
  status <- verdict,
  unreaped <- [p \in Process |-> {exit_state[b].tid : b \in {x \in Held(p) : Live(x)}}]

\* A status that another child has written: kill() goes on to exit (-1) when
\* the parent has been woken, has freed the block and has executed another
\* program, whose exit_state malloc() put there.
Misled == \E p \in Process : process_wait_reap(p) /\ exit_state[child[p]].trampled

\* exit, kill and process_wait, interleaved in any way, give a parent the
\* status its child ended with, once, and -1 for a process it cannot wait for,
\* unless another child used the block after it was freed.
Implements == Reaps!Init /\ [][[Reaps!Next]_(Reaps!vars) \/ Misled]_vars

Awaited(c, l) == \E p \in Process : pc[p] = l /\ exit_state[child[p]].tid = c
Freed(c) == \A b \in Block : Live(b) => exit_state[b].tid # c

\* The flags waiting and exited, set by one side and read by the other, lose
\* no wakeup: a process_wait for a child that has ended returns.  And
\* process_execute returns whether or not the program loads, unless the child
\* is killed inside load.
CallsReturn ==
  \A c \in Process :
    /\ Awaited(c, "exit_wait") /\ verdict[c] # NONE ~> Freed(c) \/ panic
    /\ Awaited(c, "load_wait") ~> ~Awaited(c, "load_wait") \/ verdict[c] = -1 \/ panic

\* Every exit_state that is not freed belongs to a process that will free it,
\* or to one that has ended and left it behind; none is on two lists.
BlocksOwned ==
  \A b \in Block :
    LET owners == {p \in Process : b \in Held(p)}
    IN  IF Live(b) THEN Cardinality(owners) = 1 ELSE owners = {}

\* "Kernel code shouldn't throw exceptions" (exception.c:115): exit() and
\* kill() do not use the block that process_wait has freed.
NoPanic == ~panic

==============================================================================
