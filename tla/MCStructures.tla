---------------------------- MODULE MCStructures ----------------------------
(***************************************************************************)
(* Data structures and layouts for TLC.  A behaviour is one of these:      *)
(*   list      calls on two linked lists;                                  *)
(*   hash      calls on a hash table;                                      *)
(*   pool      three threads at one pool of pages;                         *)
(*   heap      calls of malloc, calloc, realloc and free;                  *)
(*   one, two  the load of an executable with one or two program headers;  *)
(*   args      the arguments of a new program;                             *)
(*   scan      the scan of a partition table, and                          *)
(*   nested    of one that names extended tables, then block accesses.     *)
(* The variables of the other parts stay as they are.                      *)
(***************************************************************************)
EXTENDS Integers, Sequences

CONSTANTS t1, t2, t3

VARIABLES
  part,
  prev, next, op, model,
  factor, elem_cnt, buckets, iter, content, called,
  bits, lock, call, got, panic,
  heap, held, last,
  headers, phdr, segment, spt, status,
  cmd_line, ptr, esp, argv, argc, bytes, words, pc,
  tables, stack, part_nr, blocks, overflow, io

Lists == INSTANCE LinkedList WITH Elem <- 1..4, List <- {10, 20}

Hash == INSTANCE HashTable WITH
  Elem <- 0..5, KeyCnt <- 5, Factors <- {1, 2}, MIN_BUCKETS <- 2, BEST_ELEMS_PER_BUCKET <- 1

Pool == INSTANCE Palloc WITH
  op <- call, Thread <- {t1, t2, t3}, PageCnt <- 3, ElemBits <- 2, MaxCnt <- 4

Heap == INSTANCE Malloc WITH
  W <- 6, PGSIZE <- 13, Header <- 4, MinBlock <- 3, PageCnt <- 2,
  Requests <- {0, 2, 5, 10}, Factors <- {1, 3}

One == INSTANCE Load WITH
  i <- phdr, W <- 5, PGSIZE <- 4, PHYS_BASE <- 24, Length <- 10, Phnum <- 1,
  Types <- {"load", "dynamic", "short", "ignore"}, Offsets <- {0, 1, 6, 11},
  Vaddrs <- {0, 4, 5, 14, 22, 28}, Filesizes <- {0, 3, 6}, Memsizes <- {0, 3, 8, 26}

Two == INSTANCE Load WITH
  i <- phdr, W <- 5, PGSIZE <- 4, PHYS_BASE <- 24, Length <- 10, Phnum <- 2,
  Types <- {"load"}, Offsets <- {0, 1},
  Vaddrs <- {4, 5, 12, 17}, Filesizes <- {0, 3, 6}, Memsizes <- {3, 8, 26}

Args == INSTANCE Arguments WITH Char <- {"a", "b"}, MaxLen <- 7, Top <- 64

Scan == INSTANCE Partition WITH
  W <- 3, Size <- 6, Types <- {"filesys", "swap", "empty"}, Offsets <- {1, 3, 7},
  ExtendedAt <- 3, Sizes <- {0, 2, 3, 6}, MaxDepth <- 3

Nested == INSTANCE Partition WITH
  W <- 3, Size <- 6, Types <- {"filesys", "extended"}, Offsets <- {1, 3, 7},
  ExtendedAt <- 3, Sizes <- {0, 2, 3, 6}, MaxDepth <- 6

listVars == <<prev, next, op, model>>
hashVars == <<factor, elem_cnt, buckets, iter, content, called>>
poolVars == <<bits, lock, call, got, panic>>
heapVars == <<heap, held, last>>
loadVars == <<headers, phdr, segment, spt, status>>
argVars == <<cmd_line, ptr, esp, argv, argc, bytes, words, pc>>
partVars == <<tables, stack, part_nr, blocks, overflow, io>>
vars == <<part, listVars, hashVars, poolVars, heapVars, loadVars, argVars, partVars>>

\* A part that does not take place has one initial state.
NoList == prev = 0 /\ next = 0 /\ op = 0 /\ model = 0
NoHash == factor = 0 /\ elem_cnt = 0 /\ buckets = 0 /\ iter = 0 /\ content = 0 /\ called = 0
NoPool == bits = 0 /\ lock = 0 /\ call = 0 /\ got = 0 /\ panic = 0
NoHeap == heap = 0 /\ held = 0 /\ last = 0
NoLoad == headers = 0 /\ phdr = 0 /\ segment = 0 /\ spt = 0 /\ status = 0
NoArgs == cmd_line = 0 /\ ptr = 0 /\ esp = 0 /\ argv = 0 /\ argc = 0 /\ bytes = 0 /\ words = 0 /\ pc = 0
NoPart == tables = 0 /\ stack = 0 /\ part_nr = 0 /\ blocks = 0 /\ overflow = 0 /\ io = 0

NoStructures == NoList /\ NoHash /\ NoPool /\ NoHeap /\ NoLoad /\ NoArgs /\ NoPart

Structures == {"list", "hash", "pool", "heap", "one", "two", "args", "scan", "nested"}

Init ==
  /\ part \in Structures
  /\ IF part = "list" THEN Lists!Init ELSE NoList
  /\ IF part = "hash" THEN Hash!Init ELSE NoHash
  /\ IF part = "pool" THEN Pool!Init ELSE NoPool
  /\ IF part = "heap" THEN Heap!Init ELSE NoHeap
  /\ CASE part = "one" -> One!Init [] part = "two" -> Two!Init [] OTHER -> NoLoad
  /\ IF part = "args" THEN Args!Init ELSE NoArgs
  /\ CASE part = "scan" -> Scan!Init [] part = "nested" -> Nested!Init [] OTHER -> NoPart

Next ==
  /\ UNCHANGED part
  /\ \/ /\ part = "list" /\ Lists!Next
        /\ UNCHANGED <<hashVars, poolVars, heapVars, loadVars, argVars, partVars>>
     \/ /\ part = "hash" /\ Hash!Next
        /\ UNCHANGED <<listVars, poolVars, heapVars, loadVars, argVars, partVars>>
     \/ /\ part = "pool" /\ Pool!Next
        /\ UNCHANGED <<listVars, hashVars, heapVars, loadVars, argVars, partVars>>
     \/ /\ part = "heap" /\ Heap!Next
        /\ UNCHANGED <<listVars, hashVars, poolVars, loadVars, argVars, partVars>>
     \/ /\ \/ part = "one" /\ One!Next
           \/ part = "two" /\ Two!Next
        /\ UNCHANGED <<listVars, hashVars, poolVars, heapVars, argVars, partVars>>
     \/ /\ part = "args" /\ Args!Next
        /\ UNCHANGED <<listVars, hashVars, poolVars, heapVars, loadVars, partVars>>
     \/ /\ \/ part = "scan" /\ Scan!Next
           \/ part = "nested" /\ Nested!Next
        /\ UNCHANGED <<listVars, hashVars, poolVars, heapVars, loadVars, argVars>>

Spec == Init /\ [][Next]_vars

View ==
  <<part, IF part = "list" THEN Lists!View ELSE <<hashVars, poolVars, heapVars, loadVars, argVars, partVars>>>>

----------------------------------------------------------------------------

\* The linked lists of list.c hold what the calls are meant to make, in the
\* right order in both directions, also after list_sort, list_reverse,
\* list_unique and list_splice.
Represents == part = "list" => Lists!Represents

\* hash_find, hash_next and hash_clear see exactly the elements of the table,
\* each once, whatever rehash did.
HoldsElements == part = "hash" => Hash!HoldsElements

\* palloc_get_multiple and palloc_free_multiple lose no page and give none to
\* two threads, although freeing takes no lock.
PagesAccounted == part = "pool" => Pool!PagesAccounted

\* The blocks of malloc are different, the counts of its arenas are right, an
\* arena without a block in use is given back, and blocks are as large as
\* malloc, calloc and realloc were asked for.
HeapAccounted == part = "heap" => Heap!HeapAccounted

\* load puts the segments of an executable where its program headers say, and
\* nothing in page 0 or in the kernel's part.
SegmentsLoaded ==
  /\ part = "one" => One!SegmentsLoaded
  /\ part = "two" => Two!SegmentsLoaded

\* push_arguments gives main the words of the command line.
MainGetsArguments == part = "args" => Args!MainGetsArguments

\* The scan finds the partitions of a disk, and no access through a partition
\* leaves it.
FindsPartitions ==
  /\ part = "scan" => Scan!FindsPartitions
  /\ part = "nested" => Nested!FindsPartitions

=============================================================================
