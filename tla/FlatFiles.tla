------------------------------ MODULE FlatFiles ------------------------------
(***************************************************************************)
(* What filesys/inode.c promises: a file is a sequence of words that grows *)
(* with zeros and keeps what was written to it, whatever happens to other  *)
(* files, to operations that fail, or to the power.                        *)
(***************************************************************************)
EXTENDS Integers, Sequences

CONSTANTS File, NONE

VARIABLES
  contents,     \* of each file that exists
  named,        \* the files that have a name
  request       \* what is to be written: file, offset, size and word, or NONE

vars == <<contents, named, request>>

Zeros(n) == [i \in 1..n |-> 0]

Init == contents = [f \in File |-> NONE] /\ named = {} /\ request = NONE

Create(f) ==
  /\ contents[f] = NONE /\ contents'[f] # NONE
  /\ contents'[f] = Zeros(Len(contents'[f]))
  /\ named' = named \cup {f}

Grow(f) ==
  /\ contents[f] # NONE /\ contents'[f] # NONE
  /\ Len(contents'[f]) > Len(contents[f])
  /\ contents'[f] = contents[f] \o Zeros(Len(contents'[f]) - Len(contents[f]))
  /\ named' = named

\* A part of what is requested, from its beginning, and nothing else.
Write(f) ==
  /\ contents[f] # NONE
  /\ request # NONE /\ request.f = f
  /\ \E n \in 1..request.size :
       contents'[f] = [k \in DOMAIN contents[f] |->
                         IF k - request.offset \in 1..n THEN request.word ELSE contents[f][k]]
  /\ named' = named

Step(f) ==
  /\ Create(f) \/ Grow(f) \/ Write(f)
  /\ \A g \in File \ {f} : contents'[g] = contents[g]

\* A name is removed, and files without a name may go.
Delete ==
  /\ named' \subseteq named
  /\ \A f \in File : \/ contents'[f] = contents[f]
                     \/ contents'[f] = NONE /\ f \notin named'

Next == Delete \/ \E f \in File : Step(f)

Spec == Init /\ [][Next]_vars

=============================================================================
