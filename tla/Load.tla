--------------------------------- MODULE Load ---------------------------------
(***************************************************************************)
(* load of userprog/process.c: the program headers of an executable become *)
(* entries of the supplemental page table, then the stack is set up.       *)
(* Addresses and sizes have 2^W values, as they have 2^32; the user's part *)
(* ends at PHYS_BASE.                                                      *)
(***************************************************************************)
EXTENDS Integers, Sequences, FiniteSets

CONSTANTS
  W, PGSIZE,
  PHYS_BASE,                     \* a multiple of PGSIZE below 2^W
  Length,                        \* of the file
  Types, Offsets, Vaddrs, Filesizes, Memsizes,     \* of program headers
  Phnum                          \* e_phnum

Wrap(n) == n % 2^W
pg_ofs(a) == a % PGSIZE
pg_round_down(a) == a - pg_ofs(a)
ROUND_UP(n) == pg_round_down(Wrap(n + PGSIZE - 1))
is_user_vaddr(a) == a < PHYS_BASE
Page == {a \in 0..(2^W - 1) : pg_ofs(a) = 0}
StackPage == PHYS_BASE - PGSIZE

Elf32_Phdr == [type : Types, offset : Offsets, vaddr : Vaddrs, filesz : Filesizes, memsz : Memsizes]

VARIABLES
  headers,      \* of the file
  i,            \* the header that is looked at
  segment,      \* what load_segment still has to do
  spt,          \* the entries of the supplemental page table
  status        \* "headers", "segment", "stack", "loaded" or "failed"

vars == <<headers, i, segment, spt, status>>

NoEntry == [source |-> "none"]
NoSegment == [ofs |-> 0, upage |-> 0, read |-> 0, zero |-> 0]

\* The executable is open and its own header is in order, or else it is not loaded.
Init ==
  /\ headers \in [1..Phnum -> Elf32_Phdr]
  /\ i = 1 /\ segment = NoSegment
  /\ spt = [p \in Page |-> NoEntry]
  /\ status \in {"headers", "failed"}

Fail == status' = "failed" /\ UNCHANGED <<i, segment, spt>>

WrapsAround(h) == Wrap(h.vaddr + h.memsz) < h.vaddr

validate_segment(h) ==
  /\ pg_ofs(h.offset) = pg_ofs(h.vaddr)
  /\ h.offset <= Length
  /\ h.memsz >= h.filesz
  /\ h.memsz # 0
  /\ is_user_vaddr(h.vaddr)
  /\ is_user_vaddr(Wrap(h.vaddr + h.memsz))
  /\ ~WrapsAround(h)
  /\ h.vaddr >= PGSIZE

\* A mistake: what is read does not include the part of the page before p_vaddr.
read_bytes_Short(h) == h.filesz

read_bytes(h) == IF h.filesz > 0 THEN pg_ofs(h.vaddr) + h.filesz ELSE 0

zero_bytes(h) == Wrap(ROUND_UP(pg_ofs(h.vaddr) + h.memsz) - read_bytes(h))

Header == headers[i]

\* A turn of the loop of load; a "short" header is not all in the file.
load_header ==
  /\ status = "headers" /\ i <= Phnum
  /\ CASE Header.type = "ignore" -> i' = i + 1 /\ UNCHANGED <<segment, spt, status>>
       [] Header.type \in {"dynamic", "short"} -> Fail
       [] OTHER -> IF ~validate_segment(Header) THEN Fail
                   ELSE /\ segment' = [ofs |-> pg_round_down(Header.offset), upage |-> pg_round_down(Header.vaddr),
                                       read |-> read_bytes(Header), zero |-> zero_bytes(Header)]
                        /\ status' = "segment"
                        /\ UNCHANGED <<i, spt>>
  /\ UNCHANGED headers

\* An entry that is there already is what sup_page_table_add_file returns.
sup_page_table_add_file(entry) ==
  spt' = IF spt[segment.upage] # NoEntry THEN spt ELSE [spt EXCEPT ![segment.upage] = entry]

\* A turn of load_segment; the allocation of an entry may fail.
load_segment ==
  /\ status = "segment"
  /\ LET read == IF segment.read < PGSIZE THEN segment.read ELSE PGSIZE
         zero == PGSIZE - read
     IN  IF segment.read = 0 /\ segment.zero = 0
         THEN status' = "headers" /\ i' = i + 1 /\ segment' = NoSegment /\ UNCHANGED spt
         ELSE \/ spt[segment.upage] = NoEntry /\ Fail
              \/ /\ sup_page_table_add_file([source |-> "file", ofs |-> segment.ofs, read |-> read, is_loaded |-> FALSE])
                 /\ segment' = [ofs |-> segment.ofs + read, upage |-> Wrap(segment.upage + PGSIZE),
                                read |-> segment.read - read, zero |-> Wrap(segment.zero - zero)]
                 /\ UNCHANGED <<i, status>>
  /\ UNCHANGED headers

\* A zeroed page is installed for the stack. It belongs to the entry of a
\* segment if there is one for that address. Without an entry of the frame
\* table the page's entry is removed again.
setup_stack ==
  /\ status = "headers" /\ i = Phnum + 1
  /\ \/ Fail
     \/ /\ spt' = [spt EXCEPT ![StackPage] = NoEntry]
        /\ status' = "failed"
     \/ /\ spt' = [spt EXCEPT ![StackPage] =
                     IF @ = NoEntry THEN [source |-> "zero", is_loaded |-> TRUE] ELSE [@ EXCEPT !.is_loaded = TRUE]]
        /\ status' = "loaded"
  /\ UNCHANGED <<headers, i, segment>>

\* start_process goes on with the program, or exits.
Done == status \in {"loaded", "failed"} /\ UNCHANGED vars

Next == load_header \/ load_segment \/ setup_stack \/ Done

Spec == Init /\ [][Next]_vars

----------------------------------------------------------------------------

Loadable == {h \in 1..Phnum : headers[h].type = "load"}
PagesOf(h) == {p \in Page : p + PGSIZE > headers[h].vaddr /\ p < headers[h].vaddr + headers[h].memsz}

\* No two segments, and no segment and the stack, have a page in common.
Apart ==
  /\ \A g, h \in Loadable : g # h => PagesOf(g) \cap PagesOf(h) = {}
  /\ \A h \in Loadable : StackPage \notin PagesOf(h)

\* What a program finds at an address, in a page that is loaded already or by
\* the page fault handler: a byte of the file or zero.
Byte(a) ==
  LET e == spt[pg_round_down(a)]
  IN  IF e.source = "file" /\ ~e.is_loaded /\ pg_ofs(a) < e.read THEN <<"file", e.ofs + pg_ofs(a)>> ELSE <<"zero", 0>>

\* Every address of a segment has an entry, and gets the byte of the file that
\* its program header says, or zero behind p_filesz.
AsHeaderSays(h) ==
  LET s == headers[h] IN
    \A a \in s.vaddr..(s.vaddr + s.memsz - 1) :
      /\ spt[pg_round_down(a)] # NoEntry
      /\ Byte(a) = IF a < s.vaddr + s.filesz THEN <<"file", s.offset + a - s.vaddr>> ELSE <<"zero", 0>>

\* After a successful load all segments of an executable whose segments have
\* pages of their own are in memory as the program headers say.  Page 0 and
\* kernel addresses never get an entry, not even in the middle of a load.
SegmentsLoaded ==
  /\ status = "loaded" /\ Apart => \A h \in Loadable : AsHeaderSays(h)
  /\ \A p \in Page : spt[p] # NoEntry => p >= PGSIZE /\ is_user_vaddr(p)

=============================================================================
