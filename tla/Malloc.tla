-------------------------------- MODULE Malloc --------------------------------
(***************************************************************************)
(* threads/malloc.c: blocks in arenas on top of the page allocator.  Each  *)
(* call works on one descriptor under its lock, so a call is one step.     *)
(* Sizes are counted in units, and have 2^W values as size_t has 2^32.     *)
(***************************************************************************)
EXTENDS Integers, Sequences, SequencesExt, FiniteSets, FiniteSetsExt

CONSTANTS
  W, PGSIZE, Header,    \* Header: the size of a struct arena
  MinBlock,             \* the least block size
  PageCnt,              \* pages of the kernel pool
  Requests,             \* sizes that callers ask for
  Factors               \* arguments of calloc

Wrap(n) == n % 2^W
NULL == << >>

\* malloc_init: the block sizes are doubled while two of them fit in a page.
Descs == {d \in {MinBlock * 2^i : i \in 0..W} : 2 * d < PGSIZE}
blocks_per_arena(d) == (PGSIZE - Header) \div d

VARIABLES
  heap,   \* what each page is, free_cnt of its arena, and the free lists
  held,   \* the blocks that callers have, with the sizes they asked for
  last    \* what the last call gave

vars == <<heap, held, last>>

Page == 0..(PageCnt - 1)
FREE == 0
BIG == -1       \* the first page of a big block, another page is MORE
MORE == -2      \* any other value is the descriptor

Nothing == [ask |-> 0, room |-> 0, keep |-> 0, kept |-> 0, from |-> 0]
Init ==
  /\ heap = [pages |-> [p \in Page |-> FREE], free_cnt |-> [p \in Page |-> 0],
             free_list |-> [d \in Descs |-> << >>]]
  /\ held = {} /\ last = Nothing

\* A block is named by its page and its number in the arena.
block_to_arena(b) == b[1]
arena_to_block(a, d) == [i \in 1..blocks_per_arena(d) |-> <<a, i>>]

\* The first group of free pages, as in module Palloc, or a failure.
palloc_get_multiple(h, cnt) ==
  LET at == {p \in Page : p + cnt <= PageCnt /\ \A i \in p..(p + cnt - 1) : h.pages[i] = FREE}
  IN  IF cnt = 0 \/ at = {} THEN NULL ELSE <<Min(at)>>

----------------------------------------------------------------------------
(* Each operator takes a heap; those that allocate return the new heap and *)
(* the block, or NULL.                                                     *)

DIV_ROUND_UP(n) == Wrap(n + PGSIZE - 1) \div PGSIZE

big_block(h, size) ==
  LET cnt == DIV_ROUND_UP(Wrap(size + Header))
      a == palloc_get_multiple(h, cnt)
  IN  IF a = NULL THEN [heap |-> h, block |-> NULL]
      ELSE [heap |-> [h EXCEPT !.pages = [p \in Page |-> IF p = a[1] THEN BIG
                                            ELSE IF p \in (a[1] + 1)..(a[1] + cnt - 1) THEN MORE ELSE @[p]],
                               !.free_cnt[a[1]] = cnt],
            block |-> <<a[1], 1>>]

\* If the free list is empty, create a new arena.
with_arena(h, d) ==
  LET a == palloc_get_multiple(h, 1)
  IN  IF h.free_list[d] # << >> \/ a = NULL THEN h
      ELSE [h EXCEPT !.pages[a[1]] = d, !.free_cnt[a[1]] = blocks_per_arena(d),
                     !.free_list[d] = arena_to_block(a[1], d)]

normal_block(h, d) ==
  LET g == with_arena(h, d)
      b == Head(g.free_list[d])
  IN  IF g.free_list[d] = << >> THEN [heap |-> h, block |-> NULL]
      ELSE [heap |-> [g EXCEPT !.free_list[d] = Tail(@), !.free_cnt[block_to_arena(b)] = @ - 1], block |-> b]

malloc(h, size) ==
  LET fits == {d \in Descs : d >= size}
  IN  IF size = 0 THEN [heap |-> h, block |-> NULL]
      ELSE IF fits = {} THEN big_block(h, size) ELSE normal_block(h, Min(fits))

block_size(h, b) ==
  LET a == block_to_arena(b)
  IN  IF h.pages[a] = BIG THEN PGSIZE * h.free_cnt[a] - Header ELSE h.pages[a]

unused(cnt, d) == cnt >= blocks_per_arena(d)

\* A mistake: the blocks of an arena that is given back stay on the free list.
Purged_Not(list, a) == list

Purged(list, a) == SelectSeq(list, LAMBDA b : block_to_arena(b) # a)

\* free: the block goes to the front of its list, and an arena that is not
\* used any more goes back to the page allocator.
free(h, b) ==
  LET a == block_to_arena(b)
      d == h.pages[a]
      list == <<b>> \o h.free_list[d]
  IN  IF d = BIG
      THEN [h EXCEPT !.pages = [p \in Page |-> IF p \in a..(a + h.free_cnt[a] - 1) THEN FREE ELSE @[p]], !.free_cnt[a] = 0]
      ELSE IF unused(h.free_cnt[a] + 1, d)
      THEN [h EXCEPT !.free_list[d] = Purged(list, a), !.pages[a] = FREE, !.free_cnt[a] = 0]
      ELSE [h EXCEPT !.free_list[d] = list, !.free_cnt[a] = @ + 1]

----------------------------------------------------------------------------

\* What a block really has, from the pages that are in its arena.
Room(h, b) ==
  LET a == block_to_arena(b)
      more == {p \in Page : p > a /\ \A q \in (a + 1)..p : h.pages[q] = MORE}
  IN  IF h.pages[a] = BIG THEN PGSIZE * (1 + Cardinality(more)) - Header ELSE h.pages[a]

Gives(r, ask) ==
  /\ heap' = r.heap
  /\ held' = IF r.block = NULL THEN held ELSE held \cup {[block |-> r.block, size |-> ask]}
  /\ last' = IF r.block = NULL THEN Nothing
             ELSE [Nothing EXCEPT !.ask = ask, !.room = Room(r.heap, r.block)]

call_malloc(size) == Gives(malloc(heap, size), size)

\* The product of A and B is what the caller asks for.
call_calloc(a, b) ==
  LET size == Wrap(a * b)
  IN  Gives(IF size < a \/ size < b THEN [heap |-> heap, block |-> NULL] ELSE malloc(heap, size), a * b)

call_free(x) ==
  /\ x \in held
  /\ heap' = free(heap, x.block)
  /\ held' = held \ {x}
  /\ last' = Nothing

copied(old, new) == IF new < old THEN new ELSE old

\* realloc of a block to a size other than 0
call_realloc(x, size) ==
  LET r == malloc(heap, size)
      old == block_size(heap, x.block)
  IN  /\ x \in held
      /\ IF r.block = NULL THEN UNCHANGED <<heap, held>> /\ last' = Nothing
         ELSE /\ heap' = free(r.heap, x.block)
              /\ held' = (held \ {x}) \cup {[block |-> r.block, size |-> size]}
              /\ last' = [ask |-> size, room |-> Room(heap', r.block),
                          keep |-> Min({size, x.size}), kept |-> copied(old, size),
                          from |-> Room(heap, x.block)]

Next ==
  \/ \E size \in Requests : call_malloc(size)
  \/ \E a, b \in Factors : call_calloc(a, b)
  \/ \E x \in held : call_free(x)
  \/ \E x \in held, size \in Requests \ {0} : call_realloc(x, size)

Spec == Init /\ [][Next]_vars

----------------------------------------------------------------------------

\* Blocks in use and free blocks are all different and lie in pages that the
\* allocator has: no block is given out twice or after its page went back.
\* free_cnt counts the free blocks of an arena, and an arena without a block in
\* use is given back at once.  What a call returns is as large as it was asked
\* for, and realloc copies all of the old block that fits and no more.
HeapAccounted ==
  /\ \A x, y \in held : x.block = y.block => x = y
  /\ \A d \in Descs : IsInjective(heap.free_list[d])
  /\ \A p \in Page :
       LET d == heap.pages[p]
           inUse == {x.block : x \in {y \in held : block_to_arena(y.block) = p}}
           listed(e) == {b \in Range(heap.free_list[e]) : block_to_arena(b) = p}
       IN  /\ \A e \in Descs \ {d} : listed(e) = {}
           /\ CASE d \in Descs -> /\ inUse # {} /\ inUse \cap listed(d) = {}
                                  /\ heap.free_cnt[p] = Cardinality(listed(d))
                                  /\ heap.free_cnt[p] = blocks_per_arena(d) - Cardinality(inUse)
                [] d = BIG -> Cardinality(inUse) = 1
                [] OTHER -> inUse = {}
  /\ last.ask <= last.room
  /\ last.keep <= last.kept /\ last.kept <= Min({last.room, last.from})

=============================================================================
