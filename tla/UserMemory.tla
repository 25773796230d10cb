----------------------------- MODULE UserMemory -----------------------------
(***************************************************************************)
(* What virtual memory promises to processes: each page of a process holds *)
(* what the process stored there last, whatever happens to other pages and *)
(* other processes, and the file under a mapping gets what was stored by   *)
(* the time the mapping is gone.                                           *)
(***************************************************************************)
CONSTANTS Process, Page, Val, Absent

VARIABLES
  stored,   \* what each process has stored in each of its pages, or Absent
  content,  \* what it finds there
  file,     \* the file under each page
  mapped    \* the pages of memory mapped files

vars == <<stored, content, file, mapped>>

Init ==
  /\ stored \in [Process -> [Page -> Val \cup {Absent}]]
  /\ content = stored
  /\ file \in [Process -> [Page -> Val]]
  /\ mapped = [p \in Process |-> {}]

Set(f, p, v, x) == [f EXCEPT ![p] = [@ EXCEPT ![v] = x]]

Write(p, v, x) ==
  /\ stored[p][v] # Absent
  /\ stored' = Set(stored, p, v, x)
  /\ UNCHANGED <<file, mapped>>

\* A page the stack grows into.
Grow(p, v, x) ==
  /\ stored[p][v] = Absent
  /\ stored' = Set(stored, p, v, x)
  /\ UNCHANGED <<file, mapped>>

Map(p, S) ==
  /\ \A v \in S : stored[p][v] = Absent
  /\ stored' = [stored EXCEPT ![p] = [v \in Page |-> IF v \in S THEN file[p][v] ELSE @[v]]]
  /\ mapped' = [mapped EXCEPT ![p] = @ \cup S]
  /\ UNCHANGED file

\* A mapped page may be written to its file at any time.
WriteBack(p, v) ==
  /\ v \in mapped[p]
  /\ file' = Set(file, p, v, stored[p][v])
  /\ UNCHANGED <<stored, mapped>>

Unmap(p, v) ==
  /\ v \in mapped[p]
  /\ file' = Set(file, p, v, stored[p][v])
  /\ stored' = Set(stored, p, v, Absent)
  /\ mapped' = [mapped EXCEPT ![p] = @ \ {v}]

\* A process exits after its mappings are gone, and is started again.
Exit(p) ==
  /\ mapped[p] = {}
  /\ stored' = [stored EXCEPT ![p] = [v \in Page |-> Absent]]
  /\ UNCHANGED <<file, mapped>>

Start(p, S) ==
  /\ \A v \in Page : stored[p][v] = Absent
  /\ stored' = [stored EXCEPT ![p] = [v \in Page |-> IF v \in S THEN file[p][v] ELSE Absent]]
  /\ UNCHANGED <<file, mapped>>

Step ==
  \E p \in Process :
    \/ \E v \in Page : WriteBack(p, v) \/ Unmap(p, v) \/ \E x \in Val : Write(p, v, x) \/ Grow(p, v, x)
    \/ \E S \in SUBSET Page : Map(p, S) \/ Start(p, S)
    \/ Exit(p)

\* The promise.
Next == Step /\ content' = stored'

Spec == Init /\ [][Next]_vars
=============================================================================
