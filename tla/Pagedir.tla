------------------------------- MODULE Pagedir -------------------------------
(***************************************************************************)
(* userprog/pagedir.c, and the processor that walks the page tables and    *)
(* remembers what it found: the translation lookaside buffer. Threads are  *)
(* switched between any two steps; every switch activates the page         *)
(* directory of the next thread.                                           *)
(***************************************************************************)
EXTENDS Integers, FiniteSets

CONSTANTS
  Proc,          \* threads that may run a process
  Upage,         \* user pages, numbers
  PtSize,        \* pages of a page table
  Frame,         \* physical pages, numbers
  NULL           \* also stands for init_page_dir

pd_no(u) == u \div PtSize
PdNo == {pd_no(u) : u \in Upage}

VARIABLES
  current,       \* the running thread
  cr3,           \* the page directory the processor uses
  tlb,           \* what it remembers: [page, frame, dirty]
  pagedir,       \* the member of struct thread
  dying,         \* the local pd of process_exit
  at,            \* "run", or where process_exit is
  pdes,          \* of the process's directory: page tables
  ptes,          \* their entries
  free           \* pages of palloc

vars == <<current, cr3, tlb, pagedir, dying, at, pdes, ptes, free>>

NoPte == [P |-> FALSE, frame |-> NULL, A |-> FALSE, D |-> FALSE]

Init ==
  /\ current \in Proc /\ cr3 = NULL /\ tlb = {}
  /\ pagedir = [p \in Proc |-> NULL] /\ dying = [p \in Proc |-> NULL]
  /\ at = [p \in Proc |-> "run"]
  /\ pdes = [p \in Proc |-> [n \in PdNo |-> NULL]]
  /\ ptes = [p \in Proc |-> [u \in Upage |-> NoPte]]
  /\ free = Frame

\* Loading CR3 clears the TLB.
pagedir_activate(pd) == cr3' = pd /\ tlb' = {}

\* A mistake: the processor goes on with what it remembers.
invalidate_pagedir_Not(pd) == UNCHANGED <<cr3, tlb>>

invalidate_pagedir(pd) == IF cr3 = pd THEN pagedir_activate(pd) ELSE UNCHANGED <<cr3, tlb>>

\* thread_schedule_tail calls process_activate.
process_activate(p) ==
  /\ p # current
  /\ current' = p
  /\ pagedir_activate(pagedir[p])
  /\ UNCHANGED <<pagedir, dying, at, pdes, ptes, free>>

\* palloc_get_page takes the first free page.
palloc_get_page(pool) == {f \in pool : \A g \in pool : f <= g}

\* load: a new directory has no user pages.
pagedir_create ==
  /\ pagedir[current] = NULL /\ at[current] = "run"
  /\ \E f \in palloc_get_page(free) :
       /\ pagedir' = [pagedir EXCEPT ![current] = f]
       /\ free' = free \ {f}
       /\ pagedir_activate(f)
  /\ pdes' = [pdes EXCEPT ![current] = [n \in PdNo |-> NULL]]
  /\ ptes' = [ptes EXCEPT ![current] = [u \in Upage |-> NoPte]]
  /\ UNCHANGED <<current, dying, at>>

\* A page table is a page of the pool; there may be none.
lookup_page(u, f) ==
  LET n == pd_no(u) IN
    IF pdes[current][n] # NULL
    THEN pdes' = pdes /\ free' = free \ {f}
    ELSE \E t \in palloc_get_page(free \ {f}) : /\ pdes' = [pdes EXCEPT ![current][n] = t]
                                                /\ free' = free \ {f, t}

\* install_page; the caller has the page f, and frees it when this fails.
pagedir_set_page(u) ==
  /\ pagedir[current] # NULL /\ at[current] = "run" /\ ~ptes[current][u].P
  /\ \E f \in palloc_get_page(free) :
       /\ lookup_page(u, f)
       /\ ptes' = [ptes EXCEPT ![current][u] = [P |-> TRUE, frame |-> f, A |-> FALSE, D |-> FALSE]]
  /\ UNCHANGED <<current, cr3, tlb, pagedir, dying, at>>

\* By any thread, of any process, after which the page is freed. The other bits
\* stay; the address is not used again.
pagedir_clear_page(p, u) ==
  /\ pagedir[p] # NULL /\ ptes[p][u].P
  /\ ptes' = [ptes EXCEPT ![p][u].P = FALSE, ![p][u].frame = NULL]
  /\ invalidate_pagedir(pagedir[p])
  /\ free' = free \cup {ptes[p][u].frame}
  /\ UNCHANGED <<current, pagedir, dying, at, pdes>>

pagedir_set_dirty(p, u) ==
  /\ pagedir[p] # NULL /\ pdes[p][pd_no(u)] # NULL
  /\ ptes' = [ptes EXCEPT ![p][u].D = FALSE]
  /\ invalidate_pagedir(pagedir[p])
  /\ UNCHANGED <<current, pagedir, dying, at, pdes, free>>

\* By the clock of the frame table.
pagedir_set_accessed(p, u) ==
  /\ pagedir[p] # NULL /\ pdes[p][pd_no(u)] # NULL
  /\ ptes' = [ptes EXCEPT ![p][u].A = FALSE]
  /\ invalidate_pagedir(pagedir[p])
  /\ UNCHANGED <<current, pagedir, dying, at, pdes, free>>

\* process_exit, in three steps.

thread_pagedir(p) == [pagedir EXCEPT ![p] = NULL]

exit_pagedir ==
  /\ pagedir[current] # NULL /\ at[current] = "run"
  /\ at' = [at EXCEPT ![current] = "leave"]
  /\ dying' = [dying EXCEPT ![current] = pagedir[current]]
  /\ pagedir' = thread_pagedir(current)
  /\ UNCHANGED <<current, cr3, tlb, pdes, ptes, free>>

exit_activate ==
  /\ at[current] = "leave"
  /\ at' = [at EXCEPT ![current] = "destroy"]
  /\ pagedir_activate(NULL)
  /\ UNCHANGED <<current, pagedir, dying, pdes, ptes, free>>

\* The pages that a page directory references.
pages(p) == {ptes[p][u].frame : u \in {v \in Upage : ptes[p][v].P}} \cup ({pdes[p][n] : n \in PdNo} \ {NULL})

pagedir_destroy ==
  /\ at[current] = "destroy"
  /\ at' = [at EXCEPT ![current] = "run"]
  /\ free' = free \cup {dying[current]} \cup pages(current)
  /\ dying' = [dying EXCEPT ![current] = NULL]
  /\ pdes' = [pdes EXCEPT ![current] = [n \in PdNo |-> NULL]]
  /\ ptes' = [ptes EXCEPT ![current] = [u \in Upage |-> NoPte]]
  /\ UNCHANGED <<current, cr3, tlb, pagedir>>

\* An access of the running process: what the TLB does not have is looked up
\* in the page tables. The bits are set there, unless the TLB has them set.
Owner == CHOOSE p \in Proc : cr3 \in {pagedir[p], dying[p]}
Cached(u) == {e \in tlb : e.page = u}

access(u, how) ==
  /\ cr3 # NULL
  /\ LET pte == ptes[Owner][u]
         modify == how = "modified"
     IN  IF Cached(u) # {} /\ (modify => \E e \in Cached(u) : e.dirty)
         THEN UNCHANGED <<tlb, ptes>>
         ELSE /\ pte.P
              /\ tlb' = (tlb \ Cached(u)) \cup {[page |-> u, frame |-> pte.frame, dirty |-> pte.D \/ modify]}
              /\ ptes' = [ptes EXCEPT ![Owner][u].A = TRUE, ![Owner][u].D = @ \/ modify]
  /\ UNCHANGED <<current, cr3, pagedir, dying, at, pdes, free>>

Next ==
  \/ \E p \in Proc : process_activate(p)
  \/ pagedir_create \/ exit_pagedir \/ exit_activate \/ pagedir_destroy
  \/ \E u \in Upage :
       \/ pagedir_set_page(u)
       \/ \E p \in Proc : pagedir_clear_page(p, u) \/ pagedir_set_dirty(p, u) \/ pagedir_set_accessed(p, u)
       \/ \E how \in {"accessed", "modified"} : access(u, how)

Spec == Init /\ [][Next]_vars

----------------------------------------------------------------------------

\* What the processor remembers of a page is what the page tables say, so that
\* no access goes to a page that was taken away, not even one of a thread that
\* was running when another thread's eviction ended, and no use of a page is
\* missed because its bit, cleared since, is remembered as set.  The directory
\* the processor uses has never been freed: process_exit drops the thread's
\* reference before it leaves the directory, so that no switch in between
\* brings it back.
TlbInSync ==
  /\ cr3 \notin free
  /\ \A e \in tlb : LET pte == ptes[Owner][e.page] IN
       pte.P /\ pte.frame = e.frame /\ pte.A /\ (e.dirty => pte.D)

=============================================================================
