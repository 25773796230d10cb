------------------------------ MODULE MCKernel ------------------------------
(***************************************************************************)
(* The parts of MCHandlers and of MCStructures in one model: a behaviour   *)
(* is one of any of them, and the variables of the other module stay as    *)
(* they are.                                                               *)
(***************************************************************************)
EXTENDS MCHandlers, TLC

CONSTANTS t3

VARIABLES
  prev, next, op, model,
  factor, elem_cnt, buckets, iter, content, called,
  bits, pool_lock, pool_call, got, pool_panic,
  heap, held, last,
  headers, phdr, segment, spt, status,
  cmd_line, ptr, esp, argv, argc, bytes, words, arg_pc,
  tables, stack, part_nr, blocks, overflow, io

S == INSTANCE MCStructures WITH
  lock <- pool_lock, call <- pool_call, panic <- pool_panic, pc <- arg_pc

NoHandlers == panic = 0 /\ NoPort /\ NoPrint /\ NoDisk /\ NoIntr /\ NoFamily /\ NoCalls

handlerVars == <<panic, portVars, printVars, diskVars, intrVars, familyVars, callVars>>
structureVars ==
  <<prev, next, op, model, factor, elem_cnt, buckets, iter, content, called,
    bits, pool_lock, pool_call, got, pool_panic, heap, held, last,
    headers, phdr, segment, spt, status, cmd_line, ptr, esp, argv, argc, bytes, words, arg_pc,
    tables, stack, part_nr, blocks, overflow, io>>

KernelInit ==
  \/ Init /\ S!NoStructures
  \/ S!Init /\ NoHandlers

KernelNext ==
  \/ part \in Handlers /\ Next /\ UNCHANGED structureVars
  \/ part \in S!Structures /\ S!Next /\ UNCHANGED handlerVars

KernelSpec == KernelInit /\ [][KernelNext]_<<vars, structureVars>>

View == IF part \in Handlers THEN vars ELSE S!View

\* malloc may give process_execute either block.
Symmetry == Permutations({b1, b2})

----------------------------------------------------------------------------

\* list.c: the lists hold what the calls are meant to make, in order.
Represents == S!Represents

\* hash.c: the table holds each of its elements once, whatever rehash did.
HoldsElements == S!HoldsElements

\* palloc.c: no page is lost or given to two threads.
PagesAccounted == S!PagesAccounted

\* malloc.c: blocks are different and large enough, and empty arenas are freed.
HeapAccounted == S!HeapAccounted

\* load of process.c: segments are where the program headers say.
SegmentsLoaded == S!SegmentsLoaded

\* push_arguments of process.c: main gets the words of the command line.
MainGetsArguments == S!MainGetsArguments

\* partition.c: the partitions of a disk are found, and accesses stay in them.
FindsPartitions == S!FindsPartitions

=============================================================================
