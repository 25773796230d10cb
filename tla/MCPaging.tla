------------------------------ MODULE MCPaging ------------------------------
(***************************************************************************)
(* Virtual memory for TLC.  A behaviour is one of these:                   *)
(*   one      a process with all kinds of pages, where allocations and     *)
(*            writes may fail;                                             *)
(*   two      two processes that evict each other's stack and data;        *)
(*   mapped   two processes that evict each other's mapped files;          *)
(*   overlap  two processes in the handler at once, until a frame belongs  *)
(*            to both;                                                     *)
(*   lru      the scans for a victim;                                      *)
(*   tables   the page directories of two processes, and a TLB.            *)
(* The variables of the other parts stay as they are.                      *)
(***************************************************************************)
EXTENDS Integers, TLC

CONSTANTS p, q, f1, f2, s1, s2, NONE

VARIABLES
  part,
  spte, pte, frame_table, free, used, mem, swap, file, mmap_table, filesys_lock,
  pc, at, stored, panic,
  lru_table, loaded, accessed, access_time, ticks, scan, victim, before, touched,
  current, cr3, tlb, pagedir, dying, exit_at, pdes, ptes, unused

One == INSTANCE Paging WITH
  Process <- {p}, Frame <- {f1, f2}, Slot <- {s1}, Val <- {0, 1},
  Stack <- {"s"}, Data <- {"d"}, Code <- {"c"}, Mmap <- {"m"}, Ranges <- {{"m"}, {"m", "s"}},
  Overlap <- FALSE, MayFail <- TRUE

Two == INSTANCE Paging WITH
  Process <- {p, q}, Frame <- {f1, f2}, Slot <- {s1, s2}, Val <- {0, 1},
  Stack <- {"s"}, Data <- {"d"}, Code <- {}, Mmap <- {}, Ranges <- {},
  Overlap <- FALSE, MayFail <- FALSE

Mapped == INSTANCE Paging WITH
  Process <- {p, q}, Frame <- {f1}, Slot <- {s1}, Val <- {0, 1},
  Stack <- {"s"}, Data <- {}, Code <- {}, Mmap <- {"m"}, Ranges <- {{"m"}},
  Overlap <- FALSE, MayFail <- FALSE

Both == INSTANCE Paging WITH
  Process <- {p, q}, Frame <- {f1}, Slot <- {s1, s2}, Val <- {0},
  Stack <- {}, Data <- {"d"}, Code <- {}, Mmap <- {}, Ranges <- {},
  Overlap <- TRUE, MayFail <- FALSE

Lru == INSTANCE Lru WITH frame_table <- lru_table, Page <- {1, 2, 3}, MaxTime <- 1

Tables == INSTANCE Pagedir WITH
  at <- exit_at, free <- unused,
  Proc <- {p, q}, Upage <- {0, 1}, PtSize <- 2, Frame <- 1..4, NULL <- NONE

ASSUME One!PagingAssumption /\ Mapped!PagingAssumption

pageVars == <<spte, pte, frame_table, free, used, mem, swap, file, mmap_table, filesys_lock,
              pc, at, stored, panic>>
lruVars == <<lru_table, loaded, accessed, access_time, ticks, scan, victim, before, touched>>
tableVars == <<current, cr3, tlb, pagedir, dying, exit_at, pdes, ptes, unused>>
vars == <<part, pageVars, lruVars, tableVars>>

Init ==
  /\ part \in {"one", "two", "mapped", "overlap", "lru", "tables"}
  /\ CASE part = "one" -> One!Init [] part = "mapped" -> Mapped!Init
       [] part = "overlap" -> Both!Init [] OTHER -> Two!Init
  /\ Lru!Init
  /\ Tables!Init /\ current = p

PageStep ==
  \/ part = "one" /\ One!Next
  \/ part = "two" /\ Two!Next
  \/ part = "mapped" /\ Mapped!Next
  \/ part = "overlap" /\ Both!FramesOwned /\ Both!Next
  \/ part = "overlap" /\ ~Both!FramesOwned /\ UNCHANGED pageVars

Next ==
  /\ UNCHANGED part
  /\ \/ PageStep /\ UNCHANGED <<lruVars, tableVars>>
     \/ part = "lru" /\ Lru!Next /\ UNCHANGED <<pageVars, tableVars>>
     \/ part = "tables" /\ Tables!Next /\ UNCHANGED <<pageVars, lruVars>>

Spec == Init /\ [][Next]_vars

View ==
  <<part, CASE part = "one" -> One!View [] part = "two" -> Two!View
            [] part = "mapped" -> Mapped!View [] part = "overlap" -> Both!ControlView
            [] part = "lru" -> Lru!View [] part = "tables" -> tableVars>>

\* Processes, frames and slots are alike wherever several of them take part.
Symmetry == Permutations({p, q}) \cup Permutations({f1, f2}) \cup Permutations({s1, s2})

----------------------------------------------------------------------------

\* Every frame is free or has one owner.
FramesOwned ==
  /\ part = "one" => One!FramesOwned
  /\ part = "two" => Two!FramesOwned
  /\ part = "mapped" => Mapped!FramesOwned

\* A swap slot has one page, also while two processes are in the handler.
SlotsOwned ==
  /\ part = "one" => One!SlotsOwned
  /\ part = "two" => Two!SlotsOwned
  /\ part = "overlap" => Both!SlotsOwned

\* Paging implements UserMemory, but for pages that memory_mapping_unmap could not
\* write to their file.
MemoryKept ==
  /\ part = "one" => One!Memory!Init
  /\ part = "two" => Two!Memory!Init
  /\ part = "mapped" => Mapped!Memory!Init
  /\ [][/\ part = "one" => [One!Memory!Next]_(One!Memory!vars) \/ One!Unsaved
        /\ part = "two" => [Two!Memory!Next]_(Two!Memory!vars)
        /\ part = "mapped" => [Mapped!Memory!Next]_(Mapped!Memory!vars)]_vars

\* The victim is the page that was least recently used.
EvictsLeastRecent == part = "lru" => Lru!EvictsLeastRecent

\* What the processor remembers of page tables is what they say.
TlbInSync == part = "tables" => Tables!TlbInSync

==============================================================================
