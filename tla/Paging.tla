------------------------------- MODULE Paging -------------------------------
(***************************************************************************)
(* Virtual memory: page_fault in userprog/exception.c, the frame table,    *)
(* swapping, the supplemental page tables and memory mapped files (vm/),   *)
(* mmap and munmap in userprog/syscall.c, and what process_exit does to    *)
(* them.  A page, a frame or a swap slot holds one value.                  *)
(*                                                                         *)
(* The handler runs with interrupts on and waits for the disk, so it is    *)
(* one action for each effect that another process may see.                *)
(***************************************************************************)
EXTENDS Integers, FiniteSets, TLC

CONSTANTS
  Process, Frame, Slot, Val,
  Stack, Data, Code, Mmap,  \* pages: of the stack, of writable and of read-only
                            \* segments of the executable, and only for mappings
  Ranges,         \* the sets of pages that mmap is called for
  Overlap,        \* whether processes run while another one is in the handler
  MayFail,        \* whether allocations and writes of files fail
  NONE

Page == Stack \cup Data \cup Code \cup Mmap

PagingAssumption == 0 \in Val /\ \A S \in Ranges : S \subseteq Page

VARIABLES
  spte,         \* [p][v]: the supplemental page table entry, or NONE
  pte,          \* [p][v]: the frame and the dirty bit in the page directory, or NONE
  frame_table,  \* entries [frame, owner, page]; page is NONE until aux is set
  free,         \* frames of the user pool
  used,         \* swap_slots_bitmap
  mem, swap, file,
  mmap_table,   \* [p]: ranges
  filesys_lock,
  pc, at,       \* [p]: where it is, and its local variables
  stored,       \* [p][v]: what the process has stored in its page, a history
  panic         \* an assertion failed, or memory was used after it was freed

tables == <<spte, pte, frame_table, mmap_table>>
store == <<free, used, mem, swap, file>>
vars == <<tables, store, filesys_lock, pc, at, stored, panic>>

Entry == [loaded : BOOLEAN, source : {"ZERO", "SWAP", "FILE_BACKED"},
          slot : Slot \cup {NONE}, writable : BOOLEAN, mapping : BOOLEAN]

sup_page_table_add_file(w, m) ==
  [loaded |-> FALSE, source |-> "FILE_BACKED", slot |-> NONE, writable |-> w, mapping |-> m]

sup_page_table_add ==
  [loaded |-> TRUE, source |-> "ZERO", slot |-> NONE, writable |-> TRUE, mapping |-> FALSE]

\* After load: the segments of the executable, to be read on demand.
Segments ==
  [v \in Page |-> IF v \in Data \cup Code THEN sup_page_table_add_file(v \in Data, FALSE) ELSE NONE]

Nowhere == [page |-> NONE, frame |-> NONE, victim |-> NONE, dirty |-> FALSE, slot |-> NONE,
            reclaimed |-> FALSE, fresh |-> FALSE, range |-> {}, ret |-> "user"]

Init ==
  /\ spte = [p \in Process |-> Segments]
  /\ pte = [p \in Process |-> [v \in Page |-> NONE]]
  /\ frame_table = {} /\ free = Frame
  /\ used = [s \in Slot |-> FALSE]
  /\ mem = [f \in Frame |-> 0] /\ swap = [s \in Slot |-> 0]
  /\ file = [p \in Process |-> [v \in Page |-> 1]]
  /\ mmap_table = [p \in Process |-> {}]
  /\ filesys_lock = NONE
  /\ pc = [p \in Process |-> "user"] /\ at = [p \in Process |-> Nowhere]
  /\ stored = [p \in Process |-> [v \in Page |-> IF Segments[v] # NONE THEN 1 ELSE NONE]]
  /\ panic = FALSE

Go(p, l) == pc' = [pc EXCEPT ![p] = l]
Spte(p, v, e) == [spte EXCEPT ![p] = [@ EXCEPT ![v] = e]]
Pte(p, v, e) == [pte EXCEPT ![p] = [@ EXCEPT ![v] = e]]
Stored(p, v, x) == [stored EXCEPT ![p] = [@ EXCEPT ![v] = x]]
File(p, v, x) == [file EXCEPT ![p] = [@ EXCEPT ![v] = x]]

\* P runs at L.
At(p, l) ==
  /\ ~panic /\ pc[p] = l
  /\ Overlap \/ \A q \in Process \ {p} : pc[q] \in {"user", "dead"}

\* A lock_acquire of a lock one holds already fails an assertion.
Locks(p) == filesys_lock \in {NONE, p} /\ panic' = (filesys_lock = p)

\* exit(-1) from within the handler.
Exit(p) == Go(p, "exit") /\ at' = [at EXCEPT ![p] = Nowhere]

----------------------------------------------------------------------------
\* Accesses by user programs, and page faults

write(p, v, x) ==
  /\ At(p, "user") /\ pte[p][v] # NONE /\ spte[p][v] # NONE /\ spte[p][v].writable
  /\ mem' = [mem EXCEPT ![pte[p][v].frame] = x]
  /\ pte' = Pte(p, v, [pte[p][v] EXCEPT !.dirty = TRUE])
  /\ stored' = Stored(p, v, x)
  /\ UNCHANGED <<spte, frame_table, mmap_table, free, used, swap, file, filesys_lock, pc, at, panic>>

\* An access that does not end in exit(-1): the page has an entry, or a user
\* program grows its stack.
page_fault(p, v) ==
  /\ At(p, "user") /\ pte[p][v] = NONE
  /\ spte[p][v] # NONE \/ v \in Stack
  /\ at' = [at EXCEPT ![p] = [Nowhere EXCEPT !.page = v]]
  /\ Go(p, "alloc")
  /\ UNCHANGED <<stored, tables, store, filesys_lock, panic>>

\* dir_readdir writes a name to the user's buffer under filesys_lock; the handler of
\* a page fault there may acquire the lock once more.
readdir(p, v) ==
  /\ At(p, "user") /\ filesys_lock = NONE /\ spte[p][v] # NONE /\ spte[p][v].writable
  /\ filesys_lock' = p
  /\ at' = [at EXCEPT ![p] = [Nowhere EXCEPT !.page = v, !.ret = "readdir"]]
  /\ Go(p, IF pte[p][v] = NONE THEN "alloc" ELSE "readdir")
  /\ UNCHANGED <<stored, tables, store, panic>>

Unlock(p) == filesys_lock' = NONE

readdir_done(p) ==
  /\ At(p, "readdir")
  /\ \E x \in Val : LET v == at[p].page IN
       IF pte[p][v] = NONE
       THEN /\ Go(p, "alloc") /\ UNCHANGED <<stored, pte, mem, filesys_lock>>
       ELSE /\ mem' = [mem EXCEPT ![pte[p][v].frame] = x]
            /\ pte' = Pte(p, v, [pte[p][v] EXCEPT !.dirty = TRUE])
            /\ stored' = Stored(p, v, x)
            /\ Unlock(p) /\ Go(p, "user")
  /\ UNCHANGED <<spte, frame_table, mmap_table, free, used, swap, file, at, panic>>

palloc_get_page(p) ==
  /\ At(p, "alloc")
  /\ \E f \in free :
       /\ free' = free \ {f}
       /\ mem' = [mem EXCEPT ![f] = 0]
       /\ at' = [at EXCEPT ![p].frame = f]
  /\ Go(p, "add")
  /\ UNCHANGED <<stored, tables, used, swap, file, filesys_lock, panic>>

----------------------------------------------------------------------------
\* swap_evict_frame

\* What frame_table_pop_lru may return: which one it is depends on the times of
\* access (module Lru).
Evictable(e) ==
  /\ e.page # NONE /\ spte[e.owner][e.page] # NONE /\ spte[e.owner][e.page].loaded
  /\ pc[e.owner] \notin {"exit_spt", "dead"}

Dirty(p, v) == pte[p][v] # NONE /\ pte[p][v].dirty

swap_evict_frame(p) ==
  /\ At(p, "alloc") /\ free = {}
  /\ \E e \in frame_table :
       /\ Evictable(e)
       /\ frame_table' = frame_table \ {e}
       /\ at' = [at EXCEPT ![p].victim = e, ![p].dirty = Dirty(e.owner, e.page)]
       /\ Go(p, "evict")
  /\ UNCHANGED <<stored, spte, pte, mmap_table, store, filesys_lock, panic>>

\* The pages of others may be used between the two passes over the table.
swap_evict_frame_none(p) ==
  /\ At(p, "alloc") /\ free = {}
  /\ \A e \in frame_table : Evictable(e) => Overlap /\ e.owner # p
  /\ Exit(p)
  /\ UNCHANGED <<stored, tables, store, filesys_lock, panic>>

Victim(p) == at[p].victim
VictimSpte(p) == spte[Victim(p).owner][Victim(p).page]

\* The entry of the victim is gone: its process has unmapped it or has exited.
Dangling(p) == VictimSpte(p) = NONE

\* A mistake: changed pages of a mapping are dropped like clean ones.
WritesBack_Never(p) == FALSE

WritesBack(p) == VictimSpte(p).mapping /\ at[p].dirty

UsesSwap(p) ==
  VictimSpte(p).source = "FILE_BACKED" => ~VictimSpte(p).mapping /\ VictimSpte(p).writable

\* A page that can be read again is dropped, after writing it to its mapping.
evict_file(p) ==
  /\ At(p, "evict") /\ ~Dangling(p) /\ ~UsesSwap(p)
  /\ IF WritesBack(p)
     THEN /\ Locks(p)
          /\ file' = File(Victim(p).owner, Victim(p).page, mem[Victim(p).frame])
     ELSE UNCHANGED <<file, panic>>
  /\ Go(p, "drop")
  /\ UNCHANGED <<stored, tables, free, used, mem, swap, filesys_lock, at>>

\* The file cannot be written, or there is no free slot: the frame goes back.
evict_fails(p) ==
  /\ At(p, "evict") /\ ~Dangling(p)
  /\ \/ UsesSwap(p) /\ \A s \in Slot : used[s]
     \/ ~UsesSwap(p) /\ WritesBack(p) /\ MayFail /\ filesys_lock = NONE
  /\ frame_table' = frame_table \cup {Victim(p)}
  /\ Exit(p)
  /\ UNCHANGED <<stored, spte, pte, mmap_table, store, filesys_lock, panic>>

\* A mistake: the owner keeps the frame mapped.
ClearVictim_Never(p) == pte

ClearVictim(p) == Pte(Victim(p).owner, Victim(p).page, NONE)

evict_drop(p) ==
  /\ At(p, "drop")
  /\ pte' = ClearVictim(p)
  /\ Go(p, "dropped")
  /\ UNCHANGED <<stored, spte, frame_table, mmap_table, store, filesys_lock, at, panic>>

\* The frame is the handler's now.
Take(p) == at' = [at EXCEPT ![p].frame = Victim(p).frame, ![p].victim = NONE] /\ Go(p, "add")

evict_dropped(p) ==
  /\ At(p, "dropped") /\ ~Dangling(p)
  /\ spte' = Spte(Victim(p).owner, Victim(p).page, [VictimSpte(p) EXCEPT !.loaded = FALSE])
  /\ Take(p)
  /\ UNCHANGED <<stored, pte, frame_table, mmap_table, store, filesys_lock, panic>>

evict_swap(p) ==
  /\ At(p, "evict") /\ ~Dangling(p) /\ UsesSwap(p)
  /\ \E s \in Slot :
       /\ ~used[s]
       /\ used' = [used EXCEPT ![s] = TRUE]
       /\ at' = [at EXCEPT ![p].slot = s]
  /\ Go(p, "swap")
  /\ UNCHANGED <<stored, tables, free, mem, swap, file, filesys_lock, panic>>

write_to_block(p) ==
  /\ At(p, "swap")
  /\ swap' = [swap EXCEPT ![at[p].slot] = mem[Victim(p).frame]]
  /\ Go(p, "swapped")
  /\ UNCHANGED <<stored, tables, free, used, mem, file, filesys_lock, at, panic>>

evict_swapped(p) ==
  /\ At(p, "swapped") /\ ~Dangling(p)
  /\ spte' = Spte(Victim(p).owner, Victim(p).page,
                  [VictimSpte(p) EXCEPT !.loaded = FALSE, !.source = "SWAP", !.slot = at[p].slot])
  /\ Go(p, "unmap_victim")
  /\ UNCHANGED <<stored, pte, frame_table, mmap_table, store, filesys_lock, at, panic>>

evict_clear(p) ==
  /\ At(p, "unmap_victim")
  /\ pte' = ClearVictim(p)
  /\ Take(p)
  /\ UNCHANGED <<stored, spte, frame_table, mmap_table, store, filesys_lock, panic>>

UseAfterFree(p) ==
  /\ \E l \in {"evict", "dropped", "swapped"} : At(p, l)
  /\ Dangling(p)
  /\ panic' = TRUE
  /\ UNCHANGED <<stored, tables, store, filesys_lock, pc, at>>

----------------------------------------------------------------------------
\* The rest of page_fault

Fte(p, v) == [frame |-> at[p].frame, owner |-> p, page |-> v]

frame_table_add(p) ==
  /\ At(p, "add")
  /\ frame_table' = frame_table \cup {Fte(p, NONE)}
  /\ Go(p, "fill")
  /\ UNCHANGED <<stored, spte, pte, mmap_table, store, filesys_lock, at, panic>>

\* palloc_free_page on the paths to exit(-1).
Freed(p) == {at[p].frame}

\* malloc, reading the file, or the page directory fails: everything is undone.
page_fault_fails(p) ==
  /\ MayFail /\ \E l \in {"add", "fill", "install"} : At(p, l)
  /\ frame_table' = frame_table \ {Fte(p, NONE), Fte(p, at[p].page)}
  /\ free' = free \cup Freed(p)
  /\ spte' = IF at[p].fresh THEN Spte(p, at[p].page, NONE) ELSE spte
  /\ Exit(p)
  /\ UNCHANGED <<stored, pte, mmap_table, used, mem, swap, file, filesys_lock, panic>>

grow_stack(p) ==
  /\ At(p, "fill") /\ spte[p][at[p].page] = NONE
  /\ spte' = Spte(p, at[p].page, sup_page_table_add)
  /\ at' = [at EXCEPT ![p].fresh = TRUE]
  /\ Go(p, "aux")
  /\ UNCHANGED <<stored, pte, frame_table, mmap_table, store, filesys_lock, panic>>

Faulting(p) == spte[p][at[p].page]

\* The page is read from its file or from swap.  It is neither if another
\* process is just dropping it and has not said so yet.
bring_in(p) ==
  /\ At(p, "fill") /\ Faulting(p) # NONE
  /\ LET e == Faulting(p)
         reads == ~e.loaded /\ e.source = "FILE_BACKED"
         reclaims == ~e.loaded /\ e.source = "SWAP"
     IN  /\ mem' = [mem EXCEPT ![at[p].frame] = IF reads THEN file[p][at[p].page]
                                              ELSE IF reclaims THEN swap[e.slot] ELSE @]
         /\ at' = [at EXCEPT ![p].reclaimed = reclaims]
         /\ IF reads THEN Locks(p) ELSE UNCHANGED panic
  /\ Go(p, "aux")
  /\ UNCHANGED <<stored, tables, free, used, swap, file, filesys_lock>>

set_aux(p) ==
  /\ At(p, "aux")
  /\ frame_table' = (frame_table \ {Fte(p, NONE)}) \cup {Fte(p, at[p].page)}
  /\ Go(p, "install")
  /\ UNCHANGED <<stored, spte, pte, mmap_table, store, filesys_lock, at, panic>>

install_page(p) ==
  /\ At(p, "install")
  /\ pte' = Pte(p, at[p].page, [frame |-> at[p].frame, dirty |-> FALSE])
  /\ Go(p, "installed")
  /\ stored' = IF at[p].fresh THEN Stored(p, at[p].page, mem[at[p].frame]) ELSE stored
  /\ UNCHANGED <<spte, frame_table, mmap_table, store, filesys_lock, at, panic>>

\* A mistake: the entry still names the slot that was freed.
SlotAfter_Kept(p) == Faulting(p).slot

SlotAfter(p) == IF at[p].reclaimed THEN NONE ELSE Faulting(p).slot

page_fault_done(p) ==
  /\ At(p, "installed")
  /\ LET e == Faulting(p) IN
       /\ used' = IF at[p].reclaimed THEN [used EXCEPT ![e.slot] = FALSE] ELSE used
       /\ spte' = Spte(p, at[p].page, [e EXCEPT !.loaded = TRUE,
                         !.slot = SlotAfter(p),
                         !.source = IF at[p].reclaimed /\ e.mapping THEN "FILE_BACKED" ELSE @])
  /\ Go(p, at[p].ret)
  /\ at' = [at EXCEPT ![p] = IF at[p].ret = "user" THEN Nowhere
                             ELSE [Nowhere EXCEPT !.page = at[p].page, !.ret = at[p].ret]]
  /\ UNCHANGED <<stored, pte, frame_table, mmap_table, free, mem, swap, file, filesys_lock, panic>>

----------------------------------------------------------------------------
\* mmap_file, munmap_file

Add(p, S) ==
  [spte EXCEPT ![p] = [v \in Page |-> IF v \in S THEN sup_page_table_add_file(TRUE, TRUE) ELSE @[v]]]

mmap_file(p, S) ==
  /\ At(p, "user") /\ \A v \in S : spte[p][v] = NONE
  /\ spte' = Add(p, S)
  /\ mmap_table' = [mmap_table EXCEPT ![p] = @ \cup {S}]
  /\ stored' = [stored EXCEPT ![p] = [v \in Page |-> IF v \in S THEN file[p][v] ELSE @[v]]]
  /\ UNCHANGED <<pte, frame_table, store, filesys_lock, pc, at, panic>>

\* The second loop of mmap_file, over entries D of S that were made.
Rollback(p, S, D) == [Add(p, D) EXCEPT ![p] = [v \in Page |-> IF v \in S /\ v \in D THEN NONE ELSE @[v]]]

\* A page of the range is in use, or there is no memory for an entry.
mmap_file_fails(p, S) ==
  /\ At(p, "user")
  /\ \E D \in SUBSET {v \in S : spte[p][v] = NONE} :
       /\ D # S
       /\ (\A v \in S : spte[p][v] = NONE) => MayFail
       /\ spte' = Rollback(p, S, D)
  /\ UNCHANGED <<stored, pte, frame_table, mmap_table, store, filesys_lock, pc, at, panic>>

\* The mapping leaves the table first; exit does this for each mapping.
munmap_file(p, S) ==
  /\ S \in mmap_table[p]
  /\ At(p, "user") \/ At(p, "exit")
  /\ mmap_table' = [mmap_table EXCEPT ![p] = @ \ {S}]
  /\ at' = [at EXCEPT ![p] = [Nowhere EXCEPT !.range = S, !.ret = pc[p]]]
  /\ Go(p, "unmap")
  /\ UNCHANGED <<stored, spte, pte, frame_table, store, filesys_lock, panic>>

Unmapped(p, v) == spte[p][v] # NONE /\ spte[p][v].mapping

MustSave(p, v) == Unmapped(p, v) /\ spte[p][v].loaded /\ Dirty(p, v)

\* One turn of the loop of memory_mapping_unmap; its branch for pages in swap
\* is never taken (SlotsOwned).  Nobody looks whether the page was saved:
\* file_write_at may write nothing, without memory for a sector or while writes
\* are denied.
memory_mapping_unmap(p, v, saved) ==
  /\ At(p, "unmap") /\ v \in at[p].range
  /\ saved \/ (MayFail /\ MustSave(p, v))
  /\ at' = [at EXCEPT ![p].range = @ \ {v}]
  /\ IF ~Unmapped(p, v)
     THEN UNCHANGED <<stored, spte, pte, frame_table, free, file, panic>>
     ELSE LET e == pte[p][v]
              fte == {x \in frame_table : e # NONE /\ x.frame = e.frame /\ x.owner = p}
          IN  /\ spte' = Spte(p, v, NONE)
              /\ stored' = Stored(p, v, NONE)
              /\ IF MustSave(p, v)
                 THEN Locks(p) /\ file' = IF saved THEN File(p, v, mem[e.frame]) ELSE file
                 ELSE UNCHANGED <<file, panic>>
              /\ IF spte[p][v].loaded
                 THEN /\ frame_table' = frame_table \ fte
                      /\ free' = free \cup {x.frame : x \in fte}
                      /\ pte' = Pte(p, v, NONE)
                 ELSE UNCHANGED <<frame_table, free, pte>>
  /\ UNCHANGED <<mmap_table, used, mem, swap, filesys_lock, pc>>

munmap_done(p) ==
  /\ At(p, "unmap") /\ at[p].range = {}
  /\ Go(p, at[p].ret)
  /\ at' = [at EXCEPT ![p] = Nowhere]
  /\ UNCHANGED <<stored, tables, store, filesys_lock, panic>>

----------------------------------------------------------------------------
\* process_exit; a process with the same pages is started later.

exit(p) ==
  /\ At(p, "user")
  /\ Go(p, "exit")
  /\ UNCHANGED <<stored, tables, store, filesys_lock, at, panic>>

\* Closing the executable takes filesys_lock.
frame_table_remove_owner_frames(p) ==
  /\ At(p, "exit") /\ mmap_table[p] = {}
  /\ Locks(p)
  /\ frame_table' = {e \in frame_table : e.owner # p}
  /\ Go(p, "exit_pagedir")
  /\ stored' = [stored EXCEPT ![p] = [v \in Page |-> NONE]]
  /\ UNCHANGED <<spte, pte, mmap_table, store, filesys_lock, at>>

\* Freeing a page that is free fails an assertion of palloc_free_multiple.
pagedir_destroy(p) ==
  /\ At(p, "exit_pagedir")
  /\ LET S == {pte[p][v].frame : v \in {w \in Page : pte[p][w] # NONE}} IN
       /\ free' = free \cup S
       /\ panic' = (S \cap free # {})
  /\ pte' = [pte EXCEPT ![p] = [v \in Page |-> NONE]]
  /\ Go(p, "exit_spt")
  /\ UNCHANGED <<stored, spte, frame_table, mmap_table, used, mem, swap, file, filesys_lock, at>>

sup_page_table_destroy(p) ==
  /\ At(p, "exit_spt")
  /\ spte' = [spte EXCEPT ![p] = [v \in Page |-> NONE]]
  /\ Go(p, "dead")
  /\ UNCHANGED <<stored, pte, frame_table, mmap_table, store, filesys_lock, at, panic>>

start_process(p) ==
  /\ At(p, "dead")
  /\ spte' = [spte EXCEPT ![p] = Segments]
  /\ Go(p, "user")
  /\ stored' = [stored EXCEPT ![p] = [v \in Page |-> IF Segments[v] # NONE THEN file[p][v] ELSE NONE]]
  /\ UNCHANGED <<pte, frame_table, mmap_table, store, filesys_lock, at, panic>>

Panicked == panic /\ UNCHANGED vars

Handler(p) ==
  \/ palloc_get_page(p) \/ swap_evict_frame(p) \/ swap_evict_frame_none(p)
  \/ evict_file(p) \/ evict_fails(p) \/ evict_drop(p) \/ evict_dropped(p)
  \/ evict_swap(p) \/ write_to_block(p) \/ evict_swapped(p) \/ evict_clear(p)
  \/ UseAfterFree(p) \/ frame_table_add(p) \/ page_fault_fails(p)
  \/ grow_stack(p) \/ bring_in(p)
  \/ set_aux(p) \/ install_page(p) \/ page_fault_done(p)

Next ==
  \/ \E p \in Process :
       \/ Handler(p)
       \/ \E v \in Page : page_fault(p, v) \/ readdir(p, v) \/ \E saved \in BOOLEAN : memory_mapping_unmap(p, v, saved)
       \/ \E v \in Page, x \in Val : write(p, v, x)
       \/ \E S \in Ranges : mmap_file(p, S) \/ mmap_file_fails(p, S) \/ munmap_file(p, S)
       \/ readdir_done(p) \/ munmap_done(p) \/ exit(p) \/ frame_table_remove_owner_frames(p)
       \/ pagedir_destroy(p) \/ sup_page_table_destroy(p) \/ start_process(p)
  \/ Panicked

Spec == Init /\ [][Next]_vars

\* What is in free frames and free slots is overwritten before it is read, and
\* processes, frames and slots are alike.
View == <<tables, free, used, [f \in Frame \ free |-> mem[f]], [s \in {t \in Slot : used[t]} |-> swap[s]],
          file, filesys_lock, pc, at, stored, panic>>
\* No step depends on the values stored.
ControlView == <<tables, free, used, filesys_lock, pc, at, panic>>
Symmetry == Permutations(Process) \cup Permutations(Frame) \cup Permutations(Slot)

----------------------------------------------------------------------------
\* Properties

\* Where the contents of a page are.
Value(p, v) ==
  IF pc[p] \in {"exit_pagedir", "exit_spt", "dead"} THEN NONE
  ELSE IF pte[p][v] # NONE THEN mem[pte[p][v].frame]
  ELSE IF spte[p][v] = NONE \/ spte[p][v].source = "ZERO" THEN NONE
  ELSE IF spte[p][v].source = "SWAP" THEN swap[spte[p][v].slot]
  ELSE file[p][v]

Memory == INSTANCE UserMemory
  WITH content <- [p \in Process |-> [v \in Page |-> Value(p, v)]],
       mapped <- [p \in Process |-> {v \in Page : spte[p][v] # NONE /\ spte[p][v].mapping}],
       Absent <- NONE

\* A page of a mapping is dropped though it could not be written to the file.
Unsaved == \E p \in Process, v \in Page : memory_mapping_unmap(p, v, FALSE)

\* Every page holds what its process stored last, wherever it is moved by faults
\* and evictions, also those of other processes, and a mapped file has all that
\* was written to the mapping when it is gone, unless it could not be written
\* then (page_fault, swap_evict_frame, memory_mapping_unmap).
Implements == Memory!Init /\ [][[Memory!Next]_(Memory!vars) \/ Unsaved]_vars

\* Every frame is free, or in the hands of one fault handler, or mapped for one
\* page; none is lost, not even by faults that fail (palloc_free_page in
\* page_fault, frame_table_remove_by_kpage, pagedir_destroy).
Holders(f) ==
  {<<p, v>> \in Process \X Page : pte[p][v] # NONE /\ pte[p][v].frame = f}
  \cup {<<p, NONE>> : p \in {q \in Process :
          \/ at[q].frame = f /\ pc[q] # "installed"
          \/ pc[q] = "dropped" /\ at[q].victim.frame = f}}

FramesOwned ==
  \A f \in Frame : Cardinality(Holders(f)) = IF f \in free THEN 0 ELSE 1

\* A slot that a page is in is marked used and has no second page in it, and a
\* page of a mapping is never in swap (swap_evict_frame, swap_free_slot).
SlotsOwned ==
  \A p, q \in Process : \A v, w \in Page :
    spte[p][v] # NONE /\ spte[p][v].slot # NONE =>
      /\ used[spte[p][v].slot] /\ ~spte[p][v].mapping
      /\ spte[q][w] # NONE /\ spte[q][w].slot = spte[p][v].slot => <<p, v>> = <<q, w>>

=============================================================================
