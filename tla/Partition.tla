------------------------------ MODULE Partition ------------------------------
(***************************************************************************)
(* devices/partition.c and devices/block.c: the scan of a disk for         *)
(* partitions, the block devices it registers, and where their sectors are *)
(* on the disk.  Sector numbers have 2^W values, as block_sector_t has     *)
(* 2^32.                                                                   *)
(***************************************************************************)
EXTENDS Integers, Sequences, SequencesExt, FiniteSets

CONSTANTS
  W, Size,       \* width of a sector number, sectors of the disk
  Types,         \* types of the entries of a partition table
  Offsets, Sizes,
  ExtendedAt,    \* the sector of an extended table
  MaxDepth       \* tables within tables that the kernel's stack has room for

Wrap(n) == n % 2^W

\* A table has its signature and two entries; the code has four.
Entry == [type : Types, offset : Offsets, size : Sizes]
Logical == [type |-> "filesys", offset |-> 1, size |-> 1]
NoTable == [signature |-> FALSE, entries |-> << >>]

VARIABLES
  tables,        \* the sectors of the disk that hold a table
  stack,         \* the calls of read_partition_table, the innermost first
  part_nr,
  blocks,        \* all_blocks behind the disk itself
  overflow,      \* the calls are nested too deep
  io             \* the last access through a partition, if any, and its sector on the disk

vars == <<tables, stack, part_nr, blocks, overflow, io>>

Extended(type) == type = "extended"

\* A primary table, and an extended one with one partition.
Init ==
  /\ \E e1, e2 \in Entry, s \in BOOLEAN :
       tables = [n \in 0..(Size - 1) |->
                   CASE n = 0 -> [signature |-> s, entries |-> <<e1, e2>>]
                     [] n = ExtendedAt -> [signature |-> TRUE, entries |-> <<Logical>>]
                     [] OTHER -> NoTable]
  /\ stack = <<[sector |-> 0, primary |-> 0, read |-> FALSE, i |-> 1]>>
  /\ part_nr = 0 /\ blocks = << >> /\ overflow = FALSE /\ io = << >>

Top == stack[1]
Call(sector, primary) == [sector |-> sector, primary |-> primary, read |-> FALSE, i |-> 1]

\* The table is read from sector 0, whatever SECTOR is.
Table == tables[0]
EntryNow == Table.entries[Top.i]

\* Check SECTOR, read the table, check its signature.
read_partition_table ==
  /\ stack # << >> /\ ~overflow /\ ~Top.read
  /\ IF Top.sector >= Size \/ ~Table.signature THEN stack' = Tail(stack)
     ELSE stack' = [stack EXCEPT ![1].read = TRUE]
  /\ UNCHANGED <<tables, part_nr, blocks, overflow, io>>

Turn == stack # << >> /\ ~overflow /\ Top.read /\ Top.i <= Len(Table.entries)
Following == [stack EXCEPT ![1].i = @ + 1]

Empty(e) == e.size = 0 \/ e.type = "empty"

entry_empty ==
  /\ Turn /\ Empty(EntryNow)
  /\ stack' = Following
  /\ UNCHANGED <<tables, part_nr, blocks, overflow, io>>

\* An offset in the primary table is absolute, another one is relative to the
\* first extended table.
entry_extended ==
  /\ Turn /\ ~Empty(EntryNow) /\ Extended(EntryNow.type)
  /\ LET o == EntryNow.offset
         call == IF Top.sector = 0 THEN Call(o, o) ELSE Call(Wrap(o + Top.primary), Top.primary)
     IN  IF Len(stack) = MaxDepth THEN overflow' = TRUE /\ UNCHANGED stack
         ELSE stack' = <<call>> \o Following /\ UNCHANGED overflow
  /\ UNCHANGED <<tables, part_nr, blocks, io>>

\* A mistake: the end of the partition may be past the last sector number.
PastEnd_NoWrap(start, size) == Wrap(start + size) > Size

PastEnd(start, size) == Wrap(start + size) < start \/ Wrap(start + size) > Size

found_partition(type, start, size, nr) ==
  blocks' = IF start >= Size \/ PastEnd(start, size) THEN blocks
            ELSE Append(blocks, [nr |-> nr, type |-> type, start |-> start, size |-> size])

entry_partition ==
  /\ Turn /\ ~Empty(EntryNow) /\ ~Extended(EntryNow.type)
  /\ part_nr' = part_nr + 1
  /\ found_partition(EntryNow.type, Wrap(EntryNow.offset + Top.sector), EntryNow.size, part_nr')
  /\ stack' = Following
  /\ UNCHANGED <<tables, overflow, io>>

table_done ==
  /\ stack # << >> /\ ~overflow /\ Top.read /\ Top.i > Len(Table.entries)
  /\ stack' = Tail(stack)
  /\ UNCHANGED <<tables, part_nr, blocks, overflow, io>>

Scanned == stack = << >>

\* locate_block_device without a name on the command line: the first in
\* probe order that has the type.
locate_block_device(role) ==
  SelectInSeq(blocks, LAMBDA b : b.type = role)

\* block_read or block_write of a sector of the device with a role: the
\* partition adds its start, and the disk checks the sum.
block_access(role, sector) ==
  /\ Scanned
  /\ LET b == locate_block_device(role)
     IN  /\ b # 0
         /\ sector < blocks[b].size
         /\ io' = <<[block |-> blocks[b], sector |-> Wrap(blocks[b].start + sector)]>>
  /\ UNCHANGED <<tables, stack, part_nr, blocks, overflow>>

\* Nobody reads or writes.
Rest == (Scanned \/ overflow) /\ UNCHANGED vars

Next ==
  \/ read_partition_table
  \/ entry_empty \/ entry_extended \/ entry_partition \/ table_done
  \/ \E role \in {"filesys", "swap"}, s \in 0..(Size - 1) : block_access(role, s)
  \/ Rest

Spec == Init /\ [][Next]_vars

----------------------------------------------------------------------------

\* A partition that the table describes, in exact arithmetic.
Valid(e) == ~Empty(e) /\ e.offset + e.size <= Size
Described ==
  {[type |-> e.type, start |-> e.offset, size |-> e.size] : e \in {x \in Range(Table.entries) : Valid(x)}}

\* The scan of a table that names no extended one registers the partitions
\* that it describes, and no others: a range that wraps around or ends behind
\* the disk is left out.  With and without extended tables, an access to a
\* sector that its block device has goes to a sector of that partition and of
\* the disk, so that check_sector of the disk, which the partition's sum has to
\* pass as well, never stops the kernel.
FindsPartitions ==
  /\ Scanned /\ (\A e \in Range(Table.entries) : ~Extended(e.type)) =>
       {[type |-> b.type, start |-> b.start, size |-> b.size] : b \in Range(blocks)}
         = IF Table.signature THEN Described ELSE {}
  /\ \A a \in Range(io) : /\ a.sector < Size
                          /\ a.sector >= a.block.start
                          /\ a.sector < a.block.start + a.block.size

=============================================================================
