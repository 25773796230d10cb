-------------------------------- MODULE Palloc --------------------------------
(***************************************************************************)
(* threads/palloc.c on lib/kernel/bitmap.c: one pool of pages.  A thread   *)
(* that allocates holds the pool's lock while it scans the bitmap and sets *)
(* bits; a thread that frees clears bits without it.  Each bit is read and *)
(* written by one instruction, and other threads may run between any two.  *)
(***************************************************************************)
EXTENDS Integers, Sequences, FiniteSets, FiniteSetsExt

CONSTANTS
  Thread,
  PageCnt,      \* bit_cnt: pages of the pool
  ElemBits,     \* bits of an elem_type
  MaxCnt        \* pages of a request

NONE == "none"
Bit == 0..(PageCnt - 1)

VARIABLES
  bits,         \* the elements of the bitmap, each the set of its bits that are 1
  lock,
  op,           \* each thread's call in progress
  got,          \* the groups of pages each thread has
  panic

vars == <<bits, lock, op, got, panic>>

Idle == [call |-> NONE]
Init ==
  /\ bits = [e \in 0..((PageCnt - 1) \div ElemBits) |-> {}]
  /\ lock = NONE
  /\ op = [t \in Thread |-> Idle]
  /\ got = [t \in Thread |-> {}]
  /\ panic = FALSE

Pages(g) == g.idx..(g.idx + g.cnt - 1)

----------------------------------------------------------------------------
(* bitmap.c *)

elem_idx(i) == i \div ElemBits
bit_mask(i) == i % ElemBits
bitmap_test(i) == bit_mask(i) \in bits[elem_idx(i)]
bitmap_mark(i) == [bits EXCEPT ![elem_idx(i)] = @ \cup {bit_mask(i)}]
bitmap_reset(i) == [bits EXCEPT ![elem_idx(i)] = @ \ {bit_mask(i)}]
bitmap_set(i, value) == IF value THEN bitmap_mark(i) ELSE bitmap_reset(i)

----------------------------------------------------------------------------

Busy(t, c) == op[t].call = c /\ ~panic

\* A mistake: there is no lock.
lock_acquire_Not(t) == UNCHANGED lock

lock_acquire(t) == lock = NONE /\ lock' = t

\* palloc_get_multiple, and bitmap_scan up to its loop.
palloc_get_multiple(t, cnt) ==
  /\ Busy(t, NONE)
  /\ lock_acquire(t)
  /\ op' = [op EXCEPT ![t] = [call |-> IF cnt <= PageCnt THEN "scan" ELSE "failed", cnt |-> cnt, i |-> 0, j |-> 0]]
  /\ UNCHANGED <<bits, got, panic>>

last(cnt) == PageCnt - cnt

\* A turn of bitmap_contains: at a bit that is set the group is given up.
bitmap_contains(o) ==
  IF bitmap_test(o.i + o.j) THEN [o EXCEPT !.i = @ + 1, !.j = 0] ELSE [o EXCEPT !.j = @ + 1]

bitmap_scan(t) ==
  /\ Busy(t, "scan")
  /\ LET o == op[t] IN
       op' = [op EXCEPT ![t] =
                IF o.i > last(o.cnt) THEN [o EXCEPT !.call = "failed"]
                ELSE IF o.j = o.cnt THEN [o EXCEPT !.call = "flip", !.j = 0]
                ELSE bitmap_contains(o)]
  /\ UNCHANGED <<bits, lock, got, panic>>

\* A turn of bitmap_set_multiple.
bitmap_set_multiple(t) ==
  /\ Busy(t, "flip") /\ op[t].j < op[t].cnt
  /\ bits' = bitmap_set(op[t].i + op[t].j, TRUE)
  /\ op' = [op EXCEPT ![t].j = @ + 1]
  /\ UNCHANGED <<lock, got, panic>>

palloc_get_done(t) ==
  /\ (Busy(t, "flip") /\ op[t].j = op[t].cnt) \/ Busy(t, "failed")
  /\ lock' = NONE
  /\ got' = IF op[t].call = "failed" THEN got
            ELSE [got EXCEPT ![t] = @ \cup {[idx |-> op[t].i, cnt |-> op[t].cnt]}]
  /\ op' = [op EXCEPT ![t] = Idle]
  /\ UNCHANGED <<bits, panic>>

\* palloc_free_multiple up to its assertion: bitmap_all, bit by bit.
palloc_free_multiple(t, g) ==
  /\ Busy(t, NONE) /\ g \in got[t]
  /\ got' = [got EXCEPT ![t] = @ \ {g}]
  /\ op' = [op EXCEPT ![t] = [call |-> "all", i |-> g.idx, cnt |-> g.cnt, j |-> 0]]
  /\ UNCHANGED <<bits, lock, panic>>

bitmap_all(t) ==
  /\ Busy(t, "all")
  /\ LET o == op[t] IN
       /\ op' = [op EXCEPT ![t] = IF o.j = o.cnt THEN [o EXCEPT !.call = "clear", !.j = 0] ELSE [o EXCEPT !.j = @ + 1]]
       /\ panic' = (o.j < o.cnt /\ ~bitmap_test(o.i + o.j))
  /\ UNCHANGED <<bits, lock, got>>

palloc_free_clear(t) ==
  /\ Busy(t, "clear")
  /\ LET o == op[t] IN
       IF o.j = o.cnt THEN op' = [op EXCEPT ![t] = Idle] /\ UNCHANGED bits
       ELSE /\ bits' = bitmap_set(o.i + o.j, FALSE)
            /\ op' = [op EXCEPT ![t].j = @ + 1]
  /\ UNCHANGED <<lock, got, panic>>

\* The rest of the kernel goes on.
Elsewhere == UNCHANGED vars

Next ==
  \/ \E t \in Thread :
       \/ \E cnt \in 1..MaxCnt : palloc_get_multiple(t, cnt)
       \/ bitmap_scan(t) \/ bitmap_set_multiple(t) \/ palloc_get_done(t)
       \/ \E g \in got[t] : palloc_free_multiple(t, g)
       \/ bitmap_all(t) \/ palloc_free_clear(t)
  \/ Elsewhere

Spec == Init /\ [][Next]_vars

----------------------------------------------------------------------------

\* The pages that a thread has, or has taken in the middle of a call.
HeldBy(t) ==
  UNION {Pages(g) : g \in got[t]}
    \cup CASE op[t].call = "flip" -> op[t].i..(op[t].i + op[t].j - 1)
           [] op[t].call = "all" -> op[t].i..(op[t].i + op[t].cnt - 1)
           [] op[t].call = "clear" -> (op[t].i + op[t].j)..(op[t].i + op[t].cnt - 1)
           [] OTHER -> {}

\* The bitmap has exactly the pages that somebody holds, at every moment, and
\* each has one holder: no page is lost or given to two threads, or twice to
\* one, although pages are freed without the lock while a scan is under way,
\* and the assertion of palloc_free_multiple holds.
PagesAccounted ==
  /\ {i \in Bit : bitmap_test(i)} = UNION {HeldBy(t) : t \in Thread}
  /\ \A t, u \in Thread : t # u => HeldBy(t) \cap HeldBy(u) = {}
  /\ \A t \in Thread : \A g, h \in got[t] : g # h => Pages(g) \cap Pages(h) = {}
  /\ ~panic

=============================================================================
