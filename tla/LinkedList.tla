------------------------------ MODULE LinkedList ------------------------------
(***************************************************************************)
(* lib/kernel/list.c with its pointers: each operation as the assignments  *)
(* to prev and next that it makes, the loops of list_reverse, list_sort    *)
(* and list_unique turn by turn.  The other modules use lists as           *)
(* sequences; here is why they may.                                        *)
(***************************************************************************)
EXTENDS Integers, Sequences, SequencesExt, FiniteSetsExt

\* Nodes are numbers: a list is the address of its head, and its tail follows.
CONSTANTS Elem, List
NULL == 0
NoCall == [kind |-> "none"]

\* What the comparison functions look at: some elements are equal to them.
Key(e) == e \div 2
less(a, b) == Key(a) < Key(b)

VARIABLES
  prev, next,   \* of elements and of the head and the tail of each list
  op,           \* the loop in progress, or NoCall
  model         \* the sequences that the lists are meant to be, a history

vars == <<prev, next, op, model>>

Head_(l) == l
Tail_(l) == l + 1
Node == Elem \cup {Head_(l) : l \in List} \cup {Tail_(l) : l \in List}

list_begin(l) == next[Head_(l)]
list_end(l) == Tail_(l)

RECURSIVE Walk(_)
Walk(n) == IF n \notin Elem THEN << >> ELSE <<n>> \o Walk(next[n])

\* list_init of every list.
Init ==
  /\ prev = [n \in Node |-> IF n - 1 \in List THEN n - 1 ELSE NULL]
  /\ next = [n \in Node |-> IF n \in List THEN Tail_(n) ELSE NULL]
  /\ op = NoCall
  /\ model = [l \in List |-> << >>]

Idle == op = NoCall
In(l, e) == e \in Range(model[l])
Unlisted(e) == \A l \in List : ~In(l, e)
Index(l, n) == IF n = Tail_(l) THEN Len(model[l]) + 1 ELSE CHOOSE i \in DOMAIN model[l] : model[l][i] = n

----------------------------------------------------------------------------

Insert(before, e) ==
  /\ prev' = [prev EXCEPT ![e] = prev[before], ![before] = e]
  /\ next' = [next EXCEPT ![e] = before, ![prev[before]] = e]

list_insert(l, before, e) ==
  /\ Idle /\ Unlisted(e) /\ (In(l, before) \/ before = Tail_(l))
  /\ Insert(before, e)
  /\ model' = [model EXCEPT ![l] = InsertAt(@, Index(l, before), e)]
  /\ UNCHANGED op

list_push_front(l, e) == list_insert(l, list_begin(l), e)
list_push_back(l, e) == list_insert(l, list_end(l), e)

list_insert_ordered(l, e) ==
  LET s == model[l] \o <<Tail_(l)>>
      i == CHOOSE j \in DOMAIN s : /\ s[j] = Tail_(l) \/ less(e, s[j])
                                   /\ \A k \in 1..(j - 1) : ~less(e, s[k])
  IN  /\ Idle /\ Unlisted(e)
      /\ Insert(s[i], e)
      /\ model' = [model EXCEPT ![l] = InsertAt(@, i, e)]
      /\ UNCHANGED op

Unlink(e) ==
  /\ next' = [next EXCEPT ![prev[e]] = next[e]]
  /\ prev' = [prev EXCEPT ![next[e]] = prev[e]]

list_remove(l, e) ==
  /\ Idle /\ In(l, e)
  /\ Unlink(e)
  /\ model' = [model EXCEPT ![l] = RemoveAt(@, Index(l, e))]
  /\ UNCHANGED op

list_pop_front(l) == model[l] # << >> /\ list_remove(l, list_begin(l))
list_pop_back(l) == model[l] # << >> /\ list_remove(l, prev[Tail_(l)])

\* The range leaves its list, then enters the other one.
Splice(before, first, last) ==
  LET l == prev[last]
      p == [prev EXCEPT ![next[l]] = prev[first]]
      n == [next EXCEPT ![prev[first]] = next[l]]
  IN  /\ prev' = [p EXCEPT ![first] = p[before], ![before] = l]
      /\ next' = [n EXCEPT ![l] = before, ![p[before]] = first]

\* BEFORE is not in the range from FIRST to LAST; it may be LAST.
list_splice(l, m, before, first, last) ==
  LET i == Index(m, first)
      j == Index(m, last)
      range == SubSeq(model[m], i, j - 1)
      rest == [model EXCEPT ![m] = SubSeq(@, 1, i - 1) \o SubSeq(@, j, Len(@))]
      k == IF before = Tail_(l) THEN Len(rest[l]) + 1
           ELSE CHOOSE x \in DOMAIN rest[l] : rest[l][x] = before
  IN  /\ Idle /\ (In(l, before) \/ before = Tail_(l))
      /\ In(m, first) /\ (In(m, last) \/ last = Tail_(m))
      /\ i < j /\ before \notin Range(range)
      /\ Splice(before, first, last)
      /\ model' = [rest EXCEPT ![l] = SubSeq(@, 1, k - 1) \o range \o SubSeq(@, k, Len(@))]
      /\ UNCHANGED op

----------------------------------------------------------------------------
(* list_reverse *)

list_reverse(l) ==
  /\ Idle /\ model[l] # << >>
  /\ op' = [kind |-> "reverse", list |-> l, e |-> list_begin(l)]
  /\ model' = [model EXCEPT ![l] = Reverse(@)]
  /\ UNCHANGED <<prev, next>>

\* The loop: swap the two pointers of an element, and go to the next one.
reverse_turn ==
  /\ op.kind = "reverse" /\ op.e # list_end(op.list)
  /\ prev' = [prev EXCEPT ![op.e] = next[op.e]]
  /\ next' = [next EXCEPT ![op.e] = prev[op.e]]
  /\ op' = [op EXCEPT !.e = next[op.e]]
  /\ UNCHANGED model

\* The head and the tail, then what the first and the last have of them.
reverse_ends ==
  /\ op.kind = "reverse" /\ op.e = list_end(op.list)
  /\ LET h == Head_(op.list)
         t == Tail_(op.list)
         first == prev[t]
         last == next[h]
     IN  /\ prev' = [prev EXCEPT ![t] = last, ![first] = next[last]]
         /\ next' = [next EXCEPT ![h] = first, ![last] = prev[first]]
  /\ op' = NoCall
  /\ UNCHANGED model

----------------------------------------------------------------------------
(* list_sort: passes over the list that merge pairs of runs, until a pass  *)
(* finds a single one                                                      *)

\* The first element behind A that is smaller than the one before it, or B.
find_end_of_run(a, b) ==
  LET s == Walk(a) \o <<b>>
  IN  s[Min({i \in 2..Len(s) : s[i] = b \/ less(s[i], s[i - 1])})]

Ordered(s) == \A i \in 1..(Len(s) - 1) : ~less(s[i + 1], s[i])

\* The elements from A up to B.
Between(a, b) ==
  LET s == Walk(a)
      stop == {i \in DOMAIN s : s[i] = b}
  IN  IF stop = {} THEN s ELSE SubSeq(s, 1, Min(stop) - 1)
is_sorted(a, b) == Ordered(Between(a, b))

\* Elements by rising keys, those with equal keys in the order they had.
StableSort(s) ==
  LET keys == {Key(e) : e \in Elem}
  IN  FlattenSeq([k \in 1..(Max(keys) + 1) |-> SelectSeq(s, LAMBDA e : Key(e) = k - 1)])

list_sort(l) ==
  /\ Idle
  /\ op' = [kind |-> "sort", list |-> l, a0 |-> list_begin(l), runs |-> 0]
  /\ model' = [model EXCEPT ![l] = StableSort(@)]
  /\ UNCHANGED <<prev, next>>

\* Find two runs: with one alone the pass is over.
sort_runs ==
  /\ op.kind = "sort" /\ op.a0 # list_end(op.list)
  /\ LET end == list_end(op.list)
         a1b0 == find_end_of_run(op.a0, end)
     IN  op' = IF a1b0 = end THEN [op EXCEPT !.a0 = end, !.runs = @ + 1]
               ELSE [kind |-> "merge", list |-> op.list, runs |-> op.runs + 1,
                     a0 |-> op.a0, a1b0 |-> a1b0, b1 |-> find_end_of_run(a1b0, end)]
  /\ UNCHANGED <<prev, next, model>>

Again(runs) == runs > 1

sort_pass ==
  /\ op.kind = "sort" /\ op.a0 = list_end(op.list)
  /\ op' = IF Again(op.runs) THEN [op EXCEPT !.a0 = list_begin(op.list), !.runs = 0] ELSE NoCall
  /\ UNCHANGED <<prev, next, model>>

\* A mistake: of two equal elements the later one is moved to the front.
TakeFirst_Unstable(a0, a1b0) == less(a0, a1b0)

TakeFirst(a0, a1b0) == ~less(a1b0, a0)

\* inplace_merge: a smaller element of the second run moves before a0.
merge_turn ==
  /\ op.kind = "merge" /\ op.a0 # op.a1b0 /\ op.a1b0 # op.b1
  /\ IF TakeFirst(op.a0, op.a1b0)
     THEN op' = [op EXCEPT !.a0 = next[op.a0]] /\ UNCHANGED <<prev, next>>
     ELSE /\ op' = [op EXCEPT !.a1b0 = next[op.a1b0]]
          /\ Splice(op.a0, op.a1b0, next[op.a1b0])
  /\ UNCHANGED model

merge_done ==
  /\ op.kind = "merge" /\ (op.a0 = op.a1b0 \/ op.a1b0 = op.b1)
  /\ op' = [kind |-> "sort", list |-> op.list, a0 |-> op.b1, runs |-> op.runs]
  /\ UNCHANGED <<prev, next, model>>

----------------------------------------------------------------------------
(* list_unique *)

IsFirst(s, i) == i = 1 \/ Key(s[i]) # Key(s[i - 1])

\* DUPLICATES is another list, or NULL.
list_unique(l, dup) ==
  LET s == model[l]
      rest == [i \in DOMAIN s |-> IF IsFirst(s, i) THEN << >> ELSE <<s[i]>>]
      kept == [i \in DOMAIN s |-> IF IsFirst(s, i) THEN <<s[i]>> ELSE << >>]
  IN  /\ Idle /\ s # << >> /\ l # dup
      /\ op' = [kind |-> "unique", list |-> l, dup |-> dup, elem |-> list_begin(l)]
      /\ model' = [x \in List |-> CASE x = l -> FlattenSeq(kept)
                                    [] x = dup -> model[x] \o FlattenSeq(rest)
                                    [] OTHER -> model[x]]
      /\ UNCHANGED <<prev, next>>

unique_turn ==
  op.kind = "unique" /\
  LET n == next[op.elem]
      out == [next EXCEPT ![prev[n]] = next[n]]
      back == [prev EXCEPT ![next[n]] = prev[n]]
      t == Tail_(op.dup)
  IN  /\ n # list_end(op.list)
      /\ IF less(op.elem, n) \/ less(n, op.elem)
         THEN op' = [op EXCEPT !.elem = n] /\ UNCHANGED <<prev, next>>
         ELSE /\ UNCHANGED op
              /\ IF op.dup = NULL THEN next' = out /\ prev' = back
                 ELSE /\ next' = [out EXCEPT ![n] = t, ![back[t]] = n]
                      /\ prev' = [back EXCEPT ![n] = back[t], ![t] = n]
      /\ UNCHANGED model

unique_done ==
  /\ op.kind = "unique" /\ next[op.elem] = list_end(op.list)
  /\ op' = NoCall
  /\ UNCHANGED <<prev, next, model>>

----------------------------------------------------------------------------

Turn == \/ reverse_turn \/ reverse_ends
        \/ sort_runs \/ sort_pass \/ merge_turn \/ merge_done
        \/ unique_turn \/ unique_done

Call == \E l \in List :
          \/ \E e \in Elem : \/ \E b \in Elem \cup {Tail_(l)} : list_insert(l, b, e)
                             \/ list_push_front(l, e) \/ list_push_back(l, e)
                             \/ list_insert_ordered(l, e)
                             \/ list_remove(l, e)
          \/ list_pop_front(l) \/ list_pop_back(l)
          \/ \E m \in List, f \in Elem : \E b \in Elem \cup {Tail_(l)}, n \in Elem \cup {Tail_(m)} :
               list_splice(l, m, b, f, n)
          \/ list_reverse(l)
          \/ list_sort(l)
          \/ \E dup \in List \cup {NULL} : list_unique(l, dup)

Next == Turn \/ Call

\* A call goes on until it returns.
Spec == Init /\ [][Next]_vars

\* Stale links of elements in no list are not part of a state.
View == <<[n \in Node |-> IF n \in Elem /\ Unlisted(n) /\ Idle THEN NULL ELSE <<prev[n], next[n]>>], op, model>>

----------------------------------------------------------------------------

\* Between calls each list is, read forwards and read backwards, the
\* sequence that the calls are meant to make: for list_sort the stable order,
\* for list_reverse the mirror image, for list_unique the first of each group
\* with the others appended to DUPLICATES.  Splices and swaps of pointers lose
\* and duplicate nothing.
Represents ==
  Idle => \A l \in List :
    LET s == <<Head_(l)>> \o model[l] \o <<Tail_(l)>>
    IN  \A i \in 1..(Len(s) - 1) : next[s[i]] = s[i + 1] /\ prev[s[i + 1]] = s[i]

=============================================================================
