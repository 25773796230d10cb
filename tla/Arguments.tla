------------------------------ MODULE Arguments ------------------------------
(***************************************************************************)
(* setup_stack and push_arguments of userprog/process.c: the command line  *)
(* is copied to the stack from its end to its start, and what main gets is *)
(* pushed under it. Addresses count down from Top, which is PHYS_BASE.     *)
(***************************************************************************)
EXTENDS Integers, Sequences, SequencesExt, FiniteSets

CONSTANTS
  Char, MaxLen,       \* characters other than the space
  Top                 \* a multiple of 4

NUL == "\\0"
NULL == 0

VARIABLES
  cmd_line, ptr, esp, argv, argc,
  bytes, words,       \* the characters and the words that were stored
  pc

vars == <<cmd_line, ptr, esp, argv, argc, bytes, words, pc>>

\* ptr is an index, 0 being the first character and Len(cmd_line) the NUL.
Init ==
  /\ cmd_line \in UNION {[1..n -> Char \cup {" "}] : n \in 1..MaxLen}
  /\ ptr = 0 /\ esp = Top /\ argv = NULL /\ argc = 1
  /\ bytes = << >> /\ words = << >>
  /\ pc = "call"

At(n) == IF n = Len(cmd_line) THEN NUL ELSE cmd_line[n + 1]

Store(mem, a, v) == [x \in DOMAIN mem \cup {a} |-> IF x = a THEN v ELSE mem[x]]

\* A mistake: there is no room for the NUL at the end of the command line.
argv_end_NoNul(len) == ((esp - len) \div 4) * 4

argv_end(len) == ((esp - len - 1) \div 4) * 4

push_arguments ==
  /\ pc = "call"
  /\ argv' = argv_end(Len(cmd_line)) - 4
  /\ words' = Store(words, argv', NULL)
  /\ ptr' = Len(cmd_line)
  /\ pc' = "loop"
  /\ UNCHANGED <<cmd_line, esp, argc, bytes>>

\* The last place before n that has no space, -1 if there is none.
skip_spaces_reverse(n) == CHOOSE m \in -1..n : /\ \A k \in (m + 1)..n : At(k) = " "
                                               /\ m >= 0 => At(m) # " "

push_char ==
  /\ pc = "loop" /\ ptr >= 0
  /\ esp' = esp - 1
  /\ IF At(ptr) = " "
     THEN /\ ptr' = skip_spaces_reverse(ptr)
          /\ argc' = argc + 1
          /\ argv' = argv - 4
          /\ words' = Store(words, argv', esp' + 1)
          /\ bytes' = Store(bytes, esp', NUL)
     ELSE /\ bytes' = Store(bytes, esp', At(ptr))
          /\ ptr' = ptr - 1
          /\ UNCHANGED <<argc, argv, words>>
  /\ UNCHANGED <<cmd_line, pc>>

\* The first argument, and then what setup_stack pushes: argv, argc and a
\* return address.
setup_stack ==
  /\ pc = "loop" /\ ptr < 0
  /\ argv' = argv - 4
  /\ esp' = argv' - 12
  /\ words' = Store(Store(Store(Store(words, argv', esp), argv' - 4, argv'), argv' - 8, argc), argv' - 12, 0)
  /\ pc' = "main"
  /\ UNCHANGED <<cmd_line, ptr, argc, bytes>>

main == pc = "main" /\ UNCHANGED vars

Next == push_arguments \/ push_char \/ setup_stack \/ main

Spec == Init /\ [][Next]_vars

----------------------------------------------------------------------------

\* The words of the command line: its longest runs of characters that are not
\* spaces, which is how load itself finds the name of the program (strtok_r).
Starts == {n \in 0..(Len(cmd_line) - 1) : At(n) # " " /\ (n > 0 => At(n - 1) = " ")}
EndOf(n) == CHOOSE m \in n..Len(cmd_line) : /\ At(m) \in {" ", NUL}
                                            /\ \A k \in n..(m - 1) : At(k) \notin {" ", NUL}
Words == [i \in 1..Cardinality(Starts) |->
            LET n == SetToSortSeq(Starts, <)[i] IN SubSeq(cmd_line, n + 1, EndOf(n))]

\* An empty argument that main gets besides the words where the line has a space
\* at its first or its last place, NTH: the loop of push_arguments takes any space
\* to stand between two arguments.
EmptyAt(nth) == IF cmd_line[nth] = " " THEN << << >> >> ELSE << >>

Arguments == EmptyAt(1) \o Words \o EmptyAt(Len(cmd_line))

\* The string that a program reads at an address.
CString(a) ==
  LET end == CHOOSE e \in a..Top : bytes[e] = NUL /\ \A k \in a..(e - 1) : bytes[k] # NUL
  IN  [k \in 1..(end - a) |-> bytes[a + k - 1]]

\* What main gets: a return address, argc and argv, and argv points to as many
\* pointers as there are words in the command line, each to its word and ended
\* by NUL, and then to a null pointer; if the line begins or ends with a space,
\* there is an empty argument as well at that end.  On the way, aligned words
\* never share a byte with a character: the strings grow down towards the
\* pointers, which are placed before the number of spaces that are dropped is known.
MainGetsArguments ==
  /\ \A w \in DOMAIN words :
       w % 4 = 0 /\ \A a \in DOMAIN bytes : ~(w <= a /\ a < w + 4)
  /\ pc = "main" =>
       /\ words[esp + 4] = Len(Arguments)
       /\ words[esp + 8] = esp + 12
       /\ \A i \in 1..Len(Arguments) : CString(words[esp + 12 + 4 * (i - 1)]) = Arguments[i]
       /\ words[esp + 12 + 4 * Len(Arguments)] = NULL

=============================================================================
