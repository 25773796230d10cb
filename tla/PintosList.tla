----------------------------- MODULE PintosList -----------------------------
(***************************************************************************)
(* The doubly linked lists of lib/kernel/list.c, as sequences of the       *)
(* elements they link.  Only the operations that threads/, devices/timer.c *)
(* and synch.c use on ordered lists are here.                              *)
(*                                                                         *)
(* A comparison function less(a, b) is passed as a set or as a key:        *)
(* list_insert_ordered gets the set of elements that the new element is    *)
(* "less" than, list_max the function that maps an element to the value    *)
(* the comparison reads.                                                   *)
(***************************************************************************)
EXTENDS Integers, Sequences, FiniteSetsExt

\* list_insert (the element of index i, elem).
list_insert(list, i, elem) ==
  SubSeq(list, 1, i - 1) \o <<elem>> \o SubSeq(list, i, Len(list))

\* list_insert_ordered: elem goes in front of the first element of the list
\* that it is less than, at the end if there is none.
list_insert_ordered(list, elem, lessThan) ==
  LET before == {i \in 1..Len(list) : list[i] \in lessThan}
  IN  list_insert(list, IF before = {} THEN Len(list) + 1 ELSE Min(before), elem)

\* The list without the element of index i.
Unlink(list, i) == SubSeq(list, 1, i - 1) \o SubSeq(list, i + 1, Len(list))

\* list_remove: unlinks elem, which is on the list.
list_remove(list, elem) ==
  Unlink(list, CHOOSE i \in 1..Len(list) : list[i] = elem)

\* list_max: the first of the elements with the largest key.
list_max(list, key) ==
  list[CHOOSE i \in 1..Len(list) :
         /\ \A j \in 1..Len(list) : key[list[j]] <= key[list[i]]
         /\ \A j \in 1..(i-1) : key[list[j]] < key[list[i]]]

=============================================================================
