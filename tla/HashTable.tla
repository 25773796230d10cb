------------------------------ MODULE HashTable ------------------------------
(***************************************************************************)
(* lib/kernel/hash.c: a hash table with chains that are lists, and a       *)
(* number of buckets that follows the number of elements. Its user is the  *)
(* supplemental page table. Every call changes the table in one step;      *)
(* iterators are kept between calls.                                       *)
(***************************************************************************)
EXTENDS Integers, Sequences, SequencesExt, FiniteSets, Bitwise

CONSTANTS
  Elem,                      \* elements, numbers from 0
  KeyCnt,                    \* elements equal modulo KeyCnt have equal keys
  Factors,                   \* hash functions to be tried
  MIN_BUCKETS,               \* 4 in the code
  BEST_ELEMS_PER_BUCKET

NULL == -1

VARIABLES
  factor,                    \* determines the hash function
  elem_cnt, buckets,         \* struct hash; the number of buckets is the length
  iter,                      \* a hash_iterator and what it returned
  content,                   \* history: the elements that are in the table
  called                     \* history: what hash_clear called the destructor for

vars == <<factor, elem_cnt, buckets, iter, content, called>>

key(e) == e % KeyCnt
hash(e) == key(e) * factor
bucket_cnt == Len(buckets)
NoIterator == [bucket |-> 0, elem |-> 0, seen |-> << >>, done |-> FALSE]
NoCalls == [calls |-> << >>, of |-> {}]

hash_init == [i \in 1..MIN_BUCKETS |-> << >>]

Init ==
  /\ factor \in Factors
  /\ elem_cnt = 0 /\ buckets = hash_init
  /\ iter = NoIterator /\ content = {} /\ called = NoCalls

find_bucket(bs, e) == 1 + (hash(e) & (Len(bs) - 1))

find_elem(bucket, e) ==
  LET found == {i \in 1..Len(bucket) : key(bucket[i]) = key(e)}
  IN  IF found = {} THEN NULL ELSE bucket[CHOOSE i \in found : \A j \in found : i <= j]

hash_find(e) == find_elem(buckets[find_bucket(buckets, e)], e)

turn_off_least_1bit(x) == x & (x - 1)
is_power_of_2(x) == x # 0 /\ turn_off_least_1bit(x) = 0

\* The number of buckets for n elements.
new_bucket_cnt(n) ==
  LET start == IF n \div BEST_ELEMS_PER_BUCKET < MIN_BUCKETS THEN MIN_BUCKETS ELSE n \div BEST_ELEMS_PER_BUCKET
      power[x \in 1..start] == IF is_power_of_2(x) THEN x ELSE power[turn_off_least_1bit(x)]
  IN  power[start]

list_push_front(bs, e) == [bs EXCEPT ![find_bucket(bs, e)] = <<e>> \o @]

old_elems(bs) == FlattenSeq(bs)

\* Memory for the new buckets may be missing; then all stays as it is.
rehash(n, bs) ==
  LET cnt == new_bucket_cnt(n) IN
    IF cnt = Len(bs) THEN buckets' = bs
    ELSE \/ buckets' = bs
         \/ buckets' = FoldLeft(list_push_front, [i \in 1..cnt |-> << >>], old_elems(bs))

elem_cnt_without(old) == IF old = NULL THEN elem_cnt ELSE elem_cnt - 1

list_remove(old) == [i \in 1..bucket_cnt |-> SelectSeq(buckets[i], LAMBDA x : x # old)]

\* Any modification invalidates iterators.
Modify(set) == content' = set /\ iter' = NoIterator /\ called' = NoCalls /\ UNCHANGED factor

hash_insert(e) ==
  /\ e \notin content
  /\ LET old == hash_find(e) IN
       IF old = NULL
       THEN /\ elem_cnt' = elem_cnt + 1
            /\ rehash(elem_cnt', list_push_front(buckets, e))
            /\ Modify(content \cup {e})
       ELSE rehash(elem_cnt, buckets) /\ Modify(content) /\ UNCHANGED elem_cnt

hash_replace(e) ==
  /\ e \notin content
  /\ LET old == hash_find(e) IN
       /\ elem_cnt' = elem_cnt_without(old) + 1
       /\ rehash(elem_cnt', list_push_front(list_remove(old), e))
       /\ Modify({x \in content : key(x) # key(e)} \cup {e})

hash_delete(e) ==
  LET old == hash_find(e) IN
    /\ old # NULL
    /\ elem_cnt' = elem_cnt_without(old)
    /\ rehash(elem_cnt', list_remove(old))
    /\ Modify({x \in content : key(x) # key(e)})

\* With a destructor, which gets the elements in the order of the buckets. The
\* number of buckets stays; hash_destroy then frees them.
hash_clear ==
  /\ called' = [calls |-> FlattenSeq(buckets), of |-> content]
  /\ buckets' = [i \in 1..bucket_cnt |-> << >>]
  /\ elem_cnt' = 0
  /\ content' = {} /\ iter' = NoIterator
  /\ UNCHANGED factor

hash_first ==
  /\ iter' = [NoIterator EXCEPT !.bucket = 1]
  /\ UNCHANGED <<factor, elem_cnt, buckets, content, called>>

\* A mistake: empty buckets end the iteration.
following_Next(b) == {c \in {b + 1} : c <= bucket_cnt /\ buckets[c] # << >>}

\* The buckets after b in which there is something.
following(b) == {c \in (b + 1)..bucket_cnt : buckets[c] # << >>}

hash_next ==
  /\ iter.bucket # 0
  /\ LET b == iter.bucket
         c == CHOOSE c \in following(b) : \A d \in following(b) : c <= d
         Return(i, n) == iter' = [iter EXCEPT !.bucket = i, !.elem = n, !.seen = Append(@, buckets[i][n])]
     IN  IF iter.elem < Len(buckets[b]) THEN Return(b, iter.elem + 1)
         ELSE IF following(b) # {} THEN Return(c, 1)
         ELSE iter' = [iter EXCEPT !.bucket = 0, !.done = TRUE]
  /\ UNCHANGED <<factor, elem_cnt, buckets, content, called>>

Next ==
  \/ \E e \in Elem : hash_insert(e) \/ hash_replace(e) \/ hash_delete(e)
  \/ hash_clear \/ hash_first \/ hash_next

Spec == Init /\ [][Next]_vars

----------------------------------------------------------------------------

Once(seq, set) == Len(seq) = Cardinality(set) /\ {seq[i] : i \in 1..Len(seq)} = set

\* hash_find finds exactly the elements that insertions, replacements and
\* deletions left in the table, however often rehash has moved them or has
\* failed to do so, and hash_size counts them.  An iteration that nothing
\* interrupts returns each of them once, and hash_clear calls the destructor
\* once for each: sup_page_free releases no entry twice.
HoldsElements ==
  /\ elem_cnt = Cardinality(content)
  /\ \A e \in Elem :
       LET equal == {x \in content : key(x) = key(e)}
       IN  IF equal = {} THEN hash_find(e) = NULL ELSE equal = {hash_find(e)}
  /\ iter.done => Once(iter.seen, content)
  /\ Once(called.calls, called.of)

=============================================================================
