------------------------------- MODULE Reaping -------------------------------
(***************************************************************************)
(* What exec, wait and exit promise, as the comment of process_wait        *)
(* (userprog/process.c) states it: a child ends once, with one status, and *)
(* its parent gets that status, once.  Process implements this.            *)
(***************************************************************************)
EXTENDS Integers

CONSTANTS Process, Status, NONE

VARIABLES
  unreaped,     \* the children of a process that it can still wait for
  status,       \* what a process ended with, NONE before that
  outcome       \* what the last wait returned, to whom and for whom

vars == <<unreaped, status, outcome>>

Init ==
  /\ unreaped = [p \in Process |-> {}]
  /\ status = [p \in Process |-> NONE]
  /\ outcome = NONE

Exec(p, c) ==
  /\ \A q \in Process : c \notin unreaped[q]
  /\ status[c] = NONE
  /\ unreaped' = [unreaped EXCEPT ![p] = @ \cup {c}]
  /\ UNCHANGED <<status, outcome>>

\* The child could not be loaded: it never was.
ExecFailed(p, c) ==
  /\ c \in unreaped[p]
  /\ unreaped' = [unreaped EXCEPT ![p] = @ \ {c}]
  /\ UNCHANGED <<status, outcome>>

End(c, s) ==
  /\ status[c] = NONE
  /\ status' = [status EXCEPT ![c] = s]
  /\ UNCHANGED <<unreaped, outcome>>

Wait(p, c) ==
  /\ c \in unreaped[p]
  /\ status[c] # NONE
  /\ outcome' = <<p, c, status[c]>>
  /\ unreaped' = [unreaped EXCEPT ![p] = @ \ {c}]
  /\ UNCHANGED status

\* C is no child of p, or p has waited for it before.
WaitRefused(p, c) ==
  /\ c \notin unreaped[p]
  /\ outcome' = <<p, c, -1>>
  /\ UNCHANGED <<unreaped, status>>

Next ==
  \E p, c \in Process :
    \/ Exec(p, c) \/ ExecFailed(p, c)
    \/ \E s \in Status \cup {-1} : End(c, s)
    \/ Wait(p, c) \/ WaitRefused(p, c)

Spec == Init /\ [][Next]_vars

==============================================================================
