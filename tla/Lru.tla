--------------------------------- MODULE Lru ---------------------------------
(***************************************************************************)
(* frame_table_pop_lru of vm/frame_table.c: which frame is evicted.  The   *)
(* scan holds frame_table_lock, but the timer may let other processes run  *)
(* between its turns: they touch their pages, and the processor sets       *)
(* accessed bits that the scan has just cleared.                           *)
(***************************************************************************)
EXTENDS Integers, Sequences, SequencesExt, FiniteSets

CONSTANTS Page, MaxTime

\* Two processes; pages are numbers.
Proc == {0, 1}
Owner(p) == p % 2

NULL == 0

VARIABLES
  frame_table,  \* the pages of its entries, in the order of insertion
  loaded,       \* pages with is_loaded, and an owner that has a page directory
  accessed,     \* the accessed bits
  access_time,
  ticks,
  scan,         \* the call of frame_table_pop_lru in progress, or NoScan
  victim,       \* what the last call has just returned: <<NULL>> or <<page>>
  before,       \* the state that call began in, a history
  touched       \* the pages touched since it began, a history

vars == <<frame_table, loaded, accessed, access_time, ticks, scan, victim, before, touched>>

Idle == scan.pass = -1
NoScan == [pass |-> -1]

Init ==
  /\ frame_table = << >> /\ loaded = {} /\ accessed = {}
  /\ access_time = [p \in Page |-> 0]
  /\ ticks = 0
  /\ scan = NoScan
  /\ victim = << >>
  /\ before = [accessed |-> {}, time |-> access_time, evictable |-> {}]
  /\ touched = {}

\* Needs frame_table_lock.  The page keeps the access_time of its last stay.
frame_table_insert(p) ==
  /\ Idle /\ p \notin Range(frame_table)
  /\ frame_table' = Append(frame_table, p)
  /\ accessed' = accessed \ {p}
  /\ loaded' = loaded \ {p}
  /\ victim' = << >>
  /\ UNCHANGED <<access_time, ticks, scan, before, touched>>

\* page_fault has filled the frame.
is_loaded(p) ==
  /\ Idle /\ p \in Range(frame_table) \ loaded
  /\ loaded' = loaded \cup {p}
  /\ victim' = << >>
  /\ UNCHANGED <<frame_table, accessed, access_time, ticks, scan, before, touched>>

\* The processor, whenever a process that runs uses its page.
Touch(p) ==
  /\ p \in loaded /\ p \in Range(frame_table)
  /\ ~Idle => scan.proc # Owner(p)
  /\ accessed' = accessed \cup {p}
  /\ touched' = IF Idle THEN touched ELSE touched \cup {p}
  /\ victim' = << >>
  /\ UNCHANGED <<frame_table, loaded, access_time, ticks, scan, before>>

timer_interrupt ==
  /\ ticks < MaxTime /\ ticks' = ticks + 1
  /\ victim' = << >>
  /\ UNCHANGED <<frame_table, loaded, accessed, access_time, scan, before, touched>>

----------------------------------------------------------------------------
(* frame_table_pop_lru, called by process q *)

Skipped(p) == p \notin loaded
Evictable == Range(frame_table) \cap loaded

pop_lru(q) ==
  /\ Idle
  /\ scan' = [pass |-> 0, proc |-> q, now |-> ticks, pos |-> 1, fte |-> NULL]
  /\ before' = [accessed |-> accessed, time |-> access_time, evictable |-> Evictable]
  /\ touched' = {}
  /\ victim' = << >>
  /\ UNCHANGED <<frame_table, loaded, accessed, access_time, ticks>>

pagedir_is_accessed(p) == p \in accessed

\* A mistake: a page that was used last is taken first.
Older_Newer(p, q) == access_time[p] > access_time[q]

Older(p, q) == access_time[p] < access_time[q]

pop_lru_turn ==
  /\ ~Idle /\ scan.pos <= Len(frame_table)
  /\ LET page == frame_table[scan.pos]
         seen == ~Skipped(page) /\ pagedir_is_accessed(page)
     IN  /\ accessed' = IF seen THEN accessed \ {page} ELSE accessed
         /\ access_time' = IF seen THEN [access_time EXCEPT ![page] = scan.now] ELSE access_time
         /\ scan' = [scan EXCEPT !.pos = @ + 1,
                                 !.fte = IF ~Skipped(page) /\ ~seen /\ (@ = NULL \/ Older(page, @)) THEN page ELSE @]
  /\ victim' = << >>
  /\ UNCHANGED <<frame_table, loaded, ticks, before, touched>>

Passes == 2

pop_lru_pass ==
  /\ ~Idle /\ scan.pos > Len(frame_table)
  /\ scan.fte = NULL /\ scan.pass + 1 < Passes
  /\ scan' = [scan EXCEPT !.pass = @ + 1, !.pos = 1]
  /\ victim' = << >>
  /\ UNCHANGED <<frame_table, loaded, accessed, access_time, ticks, before, touched>>

pop_lru_return ==
  /\ ~Idle /\ scan.pos > Len(frame_table)
  /\ scan.fte # NULL \/ scan.pass + 1 >= Passes
  /\ frame_table' = SelectSeq(frame_table, LAMBDA p : p # scan.fte)
  /\ loaded' = loaded \ {scan.fte}
  /\ accessed' = accessed \ {scan.fte}
  /\ victim' = <<scan.fte>>
  /\ scan' = NoScan
  /\ UNCHANGED <<access_time, ticks, before, touched>>

Next ==
  \/ \E p \in Page : frame_table_insert(p) \/ is_loaded(p) \/ Touch(p)
  \/ timer_interrupt
  \/ \E q \in Proc : pop_lru(q)
  \/ pop_lru_turn \/ pop_lru_pass \/ pop_lru_return

Spec == Init /\ [][Next]_vars

----------------------------------------------------------------------------

\* Of what happened in a scan, only the last one matters.
View == <<frame_table, loaded, accessed, access_time, ticks, scan, victim,
          IF Idle /\ victim = << >> THEN << >> ELSE <<before, touched>> >>

Returned(p) == victim # << >> /\ victim[1] = p

\* The least recently used page goes.  One whose accessed bit was set when the
\* scan began is evicted only if no page was unused: the others were all marked
\* then, or have been used since.  Among the unused ones the access_time is
\* least.  Nothing is found, and page_fault then ends the process, only if
\* every page was used while the scan ran.
EvictsLeastRecent ==
  LET unused == before.evictable \ (before.accessed \cup touched) IN
  /\ Returned(NULL) => before.evictable \subseteq touched
  /\ \A v \in before.accessed : Returned(v) => unused = {}
  /\ \A v \in Page : Returned(v) /\ v \notin before.accessed =>
       \A p \in unused : before.time[v] <= before.time[p]

=============================================================================
