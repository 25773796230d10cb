-------------------------------- MODULE Inode --------------------------------
(***************************************************************************)
(* Files on disk: the index structure of an inode, its growth, removal     *)
(* and the free map (filesys/inode.c, filesys/free-map.c, filesys_create   *)
(* and filesys_remove of filesys/filesys.c).                               *)
(*                                                                         *)
(* The callers hold filesys_lock, so one operation is in progress at a     *)
(* time (busy); it is cut into the turns of its loops because the power    *)
(* may fail between two of them, and an allocation in any of them.  The    *)
(* disk holds what was last written to a sector: words of a file, pointers *)
(* of an index block, a struct inode_disk, or ZERO.                        *)
(***************************************************************************)
EXTENDS Integers, Sequences, FiniteSets, SequencesExt, FiniteSetsExt, TLC

CONSTANTS
  SECTORS,              \* block_size (fs_device)
  BLOCK_SECTOR_SIZE,    \* in words of a file
  DIRECT_BLOCKS, PTRS_PER_SECTOR,
  Word,                 \* what is written to files
  Size,                 \* sizes of writes and of new files
  MaxLength, MaxOpen,   \* bounds on a file's length and on its openers
  MaxFiles,             \* bound on the files with a name
  MayFail,              \* whether allocations fail before the disk is full
  MayCrash,             \* whether the power fails
  MaxFaults,            \* bound on the failures, after which nothing new begins
  ZERO, NONE

Sector == 0..(SECTORS - 1)
FREE_MAP_SECTOR == 0

DIV_ROUND_UP(x, y) == (x + y - 1) \div y
bytes_to_sectors(size) == DIV_ROUND_UP(size, BLOCK_SECTOR_SIZE)

\* No file is longer than what the index blocks can describe: the code does
\* not check this and relies on the device being smaller.
InodeAssumption ==
  /\ 0 \notin Word
  /\ bytes_to_sectors(MaxLength) <= DIRECT_BLOCKS + PTRS_PER_SECTOR
                                      + PTRS_PER_SECTOR * PTRS_PER_SECTOR

VARIABLES
  free_map,     \* the sectors in use: the bitmap in memory,
  saved_map,    \* and in the free map file
  disk,
  open_inodes,  \* struct inode of each sector whose inode is open
  named,        \* inode sectors with a directory entry
  busy,         \* the operation in progress
  faults,       \* how often something has failed
  panic

vars == <<free_map, saved_map, disk, open_inodes, named, busy, faults, panic>>

Data(s) == IF disk[s] = ZERO THEN [i \in 0..(BLOCK_SECTOR_SIZE - 1) |-> 0] ELSE disk[s]
Pointers(s) == IF disk[s] = ZERO THEN [i \in 0..(PTRS_PER_SECTOR - 1) |-> 0] ELSE disk[s]

\* The sector of the word at POS of the inode D, for POS below its length.
byte_to_sector(d, pos) ==
  LET idx == pos \div BLOCK_SECTOR_SIZE
      ind == idx - DIRECT_BLOCKS
      dbl == ind - PTRS_PER_SECTOR
  IN  CASE idx < DIRECT_BLOCKS -> d.direct[idx]
        [] ind \in 0..(PTRS_PER_SECTOR - 1) -> Pointers(d.indirect)[ind]
        [] OTHER -> Pointers(Pointers(d.doubly_indirect)[dbl \div PTRS_PER_SECTOR])
                      [dbl % PTRS_PER_SECTOR]

\* The inode of a file: the copy in memory if it is open.
inode_disk(f) == IF f \in DOMAIN open_inodes THEN open_inodes[f].data ELSE disk[f]

inode_read_at(f, size, offset) ==
  LET d == inode_disk(f)
  IN  [i \in 1..Min({size, d.length - offset}) |->
         Data(byte_to_sector(d, offset + i - 1))[(offset + i - 1) % BLOCK_SECTOR_SIZE]]

----------------------------------------------------------------------------

Init ==
  /\ free_map = {FREE_MAP_SECTOR} /\ saved_map = free_map
  /\ disk = [s \in Sector |-> ZERO]
  /\ open_inodes = << >>
  /\ named = {}
  /\ busy = NONE
  /\ faults = 0
  /\ panic = FALSE

Idle == busy = NONE /\ ~panic
Start == Idle /\ faults < MaxFaults
Fault == faults' = faults + 1

Free == Sector \ free_map

\* What bitmap_scan_and_flip finds on the K-th of several calls.
NthFree(k) == CHOOSE s \in Free : Cardinality({t \in Free : t < s}) = k - 1

\* free_map_allocate of the sectors S.
free_map_allocate(S) ==
  /\ free_map' = free_map \cup S
  /\ saved_map' = free_map'

\* free_map_release of the sectors S: nobody notices when the file cannot be
\* written.
free_map_release(S) ==
  /\ free_map' = free_map \ S
  /\ \/ saved_map' = free_map' /\ UNCHANGED faults
     \/ MayFail /\ faults < MaxFaults /\ Fault /\ UNCHANGED saved_map
  /\ panic' = ~(S \subseteq free_map)

\* What turn I of inode_extend allocates: the data, then index blocks.
Needs(i) ==
  LET ind == i - DIRECT_BLOCKS
      di_off == ind - PTRS_PER_SECTOR
  IN  <<"data">> \o (IF ind = 0 THEN <<"indirect">> ELSE << >>)
        \o (IF di_off = 0 THEN <<"doubly_indirect">> ELSE << >>)
        \o (IF di_off >= 0 /\ di_off % PTRS_PER_SECTOR = 0 THEN <<"inner">> ELSE << >>)

\* The inode and the disk once turn I has linked the new sector A[1] by means
\* of the new index blocks A[2], A[3].
Link(d, i, a) ==
  LET ind == i - DIRECT_BLOCKS
      di_off == ind - PTRS_PER_SECTOR
      new == a[1]
      blank == [j \in 0..(PTRS_PER_SECTOR - 1) |-> 0]
  IN  CASE ind < 0 -> <<[d EXCEPT !.direct[i] = new], [disk EXCEPT ![new] = ZERO]>>
        [] ind >= 0 /\ di_off < 0 ->
             LET e == IF ind = 0 THEN [d EXCEPT !.indirect = a[2]] ELSE d
                 old == IF ind = 0 THEN blank ELSE Pointers(e.indirect)
             IN  <<e, [disk EXCEPT ![new] = ZERO, ![e.indirect] = [old EXCEPT ![ind] = new]]>>
        [] OTHER ->
             LET e == IF di_off = 0 THEN [d EXCEPT !.doubly_indirect = a[2]] ELSE d
                 outer_idx == di_off \div PTRS_PER_SECTOR
                 inner_idx == di_off % PTRS_PER_SECTOR
                 old == IF di_off = 0 THEN blank ELSE Pointers(e.doubly_indirect)
                 outer == IF inner_idx = 0 THEN [old EXCEPT ![outer_idx] = a[Len(a)]] ELSE old
                 inner == IF inner_idx = 0 THEN blank ELSE Pointers(outer[outer_idx])
             IN  <<e, [disk EXCEPT ![new] = ZERO, ![e.doubly_indirect] = outer,
                                   ![outer[outer_idx]] = [inner EXCEPT ![inner_idx] = new]]>>

----------------------------------------------------------------------------

Extending ==
  /\ busy # NONE /\ ~panic
  /\ busy.op \in {"create", "write"} /\ ~busy.failed
  /\ busy.i < bytes_to_sectors(busy.length)

Extended(op) ==
  /\ busy # NONE /\ ~panic
  /\ busy.op = op /\ ~busy.failed
  /\ busy.i >= bytes_to_sectors(busy.length)

Failed(op) == busy # NONE /\ ~panic /\ busy.op = op /\ busy.failed

\* One turn of inode_extend; BUSY.d is the inode it extends.
inode_extend_turn ==
  LET i == busy.i
      n == Len(Needs(i))
      a == [k \in 1..n |-> NthFree(k)]
      r == Link(busy.d, i, a)
  IN  /\ Extending
      /\ Cardinality(Free) >= n
      /\ free_map_allocate({a[k] : k \in 1..n})
      /\ disk' = r[2]
      /\ busy' = [busy EXCEPT !.i = i + 1, !.d = r[1]]
      /\ UNCHANGED <<open_inodes, named, faults, panic>>

\* The turn fails at the allocation after the first K: the data sector is
\* given back, a doubly indirect block is not.
inode_extend_fails ==
  /\ Extending
  /\ \E k \in 0..(Len(Needs(busy.i)) - 1) :
       /\ Cardinality(Free) >= k
       /\ Cardinality(Free) = k \/ (MayFail /\ faults < MaxFaults)
       /\ free_map' = free_map \cup {NthFree(j) : j \in 2..k}
       /\ saved_map' = free_map'
       /\ Fault
       /\ disk' = [s \in Sector |-> IF \E j \in 1..k : s = NthFree(j) THEN ZERO ELSE disk[s]]
       /\ busy' = [busy EXCEPT !.failed = TRUE,
                               !.d.doubly_indirect = IF k = 2 THEN NthFree(2) ELSE @]
  /\ UNCHANGED <<open_inodes, named, panic>>

----------------------------------------------------------------------------

\* filesys_create allocates a sector for the inode and calls inode_create.
filesys_create(length) ==
  LET f == NthFree(1)
  IN  /\ Start /\ Free # {}
      /\ Cardinality(named \cup DOMAIN open_inodes) < MaxFiles
      /\ free_map_allocate({f})
      /\ busy' = [op |-> "create", f |-> f, i |-> 0, length |-> length, failed |-> FALSE,
                  d |-> [length |-> 0, direct |-> [i \in 0..(DIRECT_BLOCKS - 1) |-> 0],
                         indirect |-> 0, doubly_indirect |-> 0]]
      /\ UNCHANGED <<disk, open_inodes, named, faults, panic>>

\* The inode is written and entered in the directory, ...
filesys_create_done ==
  /\ Extended("create")
  /\ disk' = [disk EXCEPT ![busy.f] = [busy.d EXCEPT !.length = busy.length]]
  /\ named' = named \cup {busy.f}
  /\ busy' = NONE
  /\ UNCHANGED <<free_map, saved_map, open_inodes, faults, panic>>

\* ... or inode_create or dir_add fails, and the sector of the inode, but
\* not what inode_extend has allocated, is given back.
filesys_create_fails ==
  /\ Failed("create") \/ (MayFail /\ faults < MaxFaults /\ Extended("create"))
  /\ disk' = IF busy.failed THEN disk
             ELSE [disk EXCEPT ![busy.f] = [busy.d EXCEPT !.length = busy.length]]
  /\ free_map_release({busy.f})
  /\ busy' = NONE
  /\ UNCHANGED <<open_inodes, named>>

inode_open(f) ==
  /\ Idle
  /\ \/ /\ f \in DOMAIN open_inodes /\ open_inodes[f].open_cnt < MaxOpen
        /\ open_inodes' = [open_inodes EXCEPT ![f].open_cnt = @ + 1]
     \/ /\ f \in named \ DOMAIN open_inodes
        /\ open_inodes' = (f :> [open_cnt |-> 1, removed |-> FALSE, deny_write_cnt |-> 0,
                                 data |-> disk[f]]) @@ open_inodes
  /\ UNCHANGED <<free_map, saved_map, disk, named, busy, faults, panic>>

\* A mistake: the index blocks stay allocated.
inode_deallocate_Data(d) == {byte_to_sector(d, p) : p \in 0..(d.length - 1)}

\* The sectors that inode_deallocate releases.
inode_deallocate(d) ==
  LET sectors == bytes_to_sectors(d.length)
      ind_cnt == Min({sectors - DIRECT_BLOCKS, PTRS_PER_SECTOR})
      remaining == sectors - DIRECT_BLOCKS - PTRS_PER_SECTOR
      outer == Pointers(d.doubly_indirect)
      inner_cnt(i) == Min({remaining - i * PTRS_PER_SECTOR, PTRS_PER_SECTOR})
      outers == 0..(DIV_ROUND_UP(remaining, PTRS_PER_SECTOR) - 1)
  IN  {d.direct[i] : i \in 0..(Min({sectors, DIRECT_BLOCKS}) - 1)}
        \cup (IF sectors <= DIRECT_BLOCKS THEN {}
              ELSE {d.indirect} \cup {Pointers(d.indirect)[i] : i \in 0..(ind_cnt - 1)})
        \cup (IF remaining <= 0 THEN {}
              ELSE {d.doubly_indirect} \cup {outer[i] : i \in outers}
                     \cup UNION {{Pointers(outer[i])[j] : j \in 0..(inner_cnt(i) - 1)} : i \in outers})

\* An opener that has denied writes allows them before it closes.
inode_close(f) ==
  LET inode == open_inodes[f]
      last == inode.open_cnt = 1
  IN  /\ Idle /\ f \in DOMAIN open_inodes
      /\ inode.deny_write_cnt < inode.open_cnt
      /\ open_inodes' = IF last
                        THEN [g \in DOMAIN open_inodes \ {f} |-> open_inodes[g]]
                        ELSE [open_inodes EXCEPT ![f].open_cnt = @ - 1]
      /\ IF last /\ inode.removed
         THEN free_map_release({f} \cup inode_deallocate(inode.data))
         ELSE UNCHANGED <<free_map, saved_map, faults, panic>>
      /\ UNCHANGED <<disk, named, busy>>

\* filesys_remove: dir_remove erases the entry, opens the inode, marks it
\* removed and closes it.
filesys_remove(f) ==
  /\ Idle /\ f \in named
  /\ named' = named \ {f}
  /\ IF f \in DOMAIN open_inodes
     THEN /\ open_inodes' = [open_inodes EXCEPT ![f].removed = TRUE]
          /\ UNCHANGED <<free_map, saved_map, faults, panic>>
     ELSE /\ free_map_release({f} \cup inode_deallocate(disk[f]))
          /\ UNCHANGED open_inodes
  /\ UNCHANGED <<disk, busy>>

----------------------------------------------------------------------------

\* inode_write_at of SIZE copies of WORD: grows the file first, ...
inode_write_at(f, offset, size, word) ==
  LET d == open_inodes[f].data
      grow == offset + size > d.length
  IN  /\ Start /\ f \in DOMAIN open_inodes
      /\ open_inodes[f].deny_write_cnt = 0
      /\ busy' = [op |-> IF grow THEN "write" ELSE "copy", f |-> f, d |-> d,
                  i |-> bytes_to_sectors(d.length), length |-> offset + size,
                  failed |-> FALSE, offset |-> offset, size |-> size, word |-> word,
                  bounce |-> FALSE]
      /\ UNCHANGED <<free_map, saved_map, disk, open_inodes, named, faults, panic>>

\* A mistake: the inode on the disk keeps its old length.
inode_write_at_extended_Lazy ==
  /\ Extended("write")
  /\ open_inodes' = [open_inodes EXCEPT ![busy.f].data = [busy.d EXCEPT !.length = busy.length]]
  /\ busy' = [busy EXCEPT !.op = "copy"]
  /\ UNCHANGED <<disk, free_map, saved_map, named, faults, panic>>

\* ... writes the longer inode, ...
inode_write_at_extended ==
  LET d == [busy.d EXCEPT !.length = busy.length]
  IN  /\ Extended("write")
      /\ open_inodes' = [open_inodes EXCEPT ![busy.f].data = d]
      /\ disk' = [disk EXCEPT ![busy.f] = d]
      /\ busy' = [busy EXCEPT !.op = "copy", !.d = d]
      /\ UNCHANGED <<free_map, saved_map, named, faults, panic>>

\* ... or returns 0, with the pointers that are set so far in the inode.
inode_write_at_fails ==
  /\ Failed("write")
  /\ open_inodes' = [open_inodes EXCEPT ![busy.f].data = busy.d]
  /\ busy' = NONE
  /\ UNCHANGED <<free_map, saved_map, disk, named, faults, panic>>

\* Sector S with N copies of WORD at OFS.
Bounce(s, ofs, n, word) ==
  [k \in 0..(BLOCK_SECTOR_SIZE - 1) |-> IF k \in ofs..(ofs + n - 1) THEN word ELSE Data(s)[k]]

\* One turn of the loop copies what falls into one sector; a part of a
\* sector needs a bounce buffer, without which the loop ends.
inode_write_at_chunk ==
  LET s == byte_to_sector(busy.d, busy.offset)
      sector_ofs == busy.offset % BLOCK_SECTOR_SIZE
      chunk_size == Min({busy.size, BLOCK_SECTOR_SIZE - sector_ofs})
      partial == chunk_size < BLOCK_SECTOR_SIZE
  IN  /\ busy # NONE /\ busy.op = "copy" /\ ~panic
      /\ \/ /\ disk' = [disk EXCEPT ![s] = Bounce(s, sector_ofs, chunk_size, busy.word)]
            /\ busy' = IF chunk_size = busy.size THEN NONE
                       ELSE [busy EXCEPT !.offset = @ + chunk_size, !.size = @ - chunk_size,
                                         !.bounce = @ \/ partial]
            /\ UNCHANGED faults
         \/ /\ MayFail /\ faults < MaxFaults /\ partial /\ ~busy.bounce
            /\ busy' = NONE /\ Fault
            /\ UNCHANGED disk
      /\ UNCHANGED <<free_map, saved_map, open_inodes, named, panic>>

inode_deny_write(f) ==
  /\ Idle /\ f \in DOMAIN open_inodes
  /\ open_inodes[f].deny_write_cnt < open_inodes[f].open_cnt
  /\ open_inodes' = [open_inodes EXCEPT ![f].deny_write_cnt = @ + 1]
  /\ UNCHANGED <<free_map, saved_map, disk, named, busy, faults, panic>>

inode_allow_write(f) ==
  /\ Idle /\ f \in DOMAIN open_inodes
  /\ open_inodes[f].deny_write_cnt > 0
  /\ open_inodes' = [open_inodes EXCEPT ![f].deny_write_cnt = @ - 1]
  /\ UNCHANGED <<free_map, saved_map, disk, named, busy, faults, panic>>

\* The power fails and the kernel boots again: free_map_open reads the map.
PowerFails ==
  /\ MayCrash /\ faults < MaxFaults /\ Fault
  /\ free_map' = saved_map
  /\ open_inodes' = << >>
  /\ busy' = NONE
  /\ UNCHANGED <<saved_map, disk, named, panic>>

Stopped == (panic \/ faults >= MaxFaults) /\ UNCHANGED vars

Next ==
  \/ \E length \in Size \cup {0} : filesys_create(length)
  \/ filesys_create_done \/ filesys_create_fails
  \/ \E f \in Sector :
       \/ inode_open(f) \/ inode_close(f) \/ filesys_remove(f)
       \/ inode_deny_write(f) \/ inode_allow_write(f)
       \/ \E size \in Size : \E offset \in 0..(MaxLength - size), w \in Word :
            inode_write_at(f, offset, size, w)
  \/ inode_extend_turn \/ inode_extend_fails
  \/ inode_write_at_extended \/ inode_write_at_fails \/ inode_write_at_chunk
  \/ PowerFails
  \/ Stopped

Spec == Init /\ [][Next]_vars

----------------------------------------------------------------------------

Exists(f) == f \in named \cup DOMAIN open_inodes

\* The sectors and index blocks of an inode whose first N sectors are linked.
Parts(d, n) ==
  LET blocks == DIV_ROUND_UP(n - DIRECT_BLOCKS - PTRS_PER_SECTOR, PTRS_PER_SECTOR)
  IN  [i \in 1..n |-> byte_to_sector(d, (i - 1) * BLOCK_SECTOR_SIZE)]
        \o (IF n > DIRECT_BLOCKS THEN <<d.indirect>> ELSE << >>)
        \o (IF n > DIRECT_BLOCKS + PTRS_PER_SECTOR
            THEN <<d.doubly_indirect>>
                   \o [i \in 1..blocks |-> Pointers(d.doubly_indirect)[i - 1]]
            ELSE << >>)

Owned(f) == <<f>> \o Parts(inode_disk(f), bytes_to_sectors(inode_disk(f).length))

\* No sector is used twice, within a file or by two files, and every sector of
\* a file is marked in the free map, whatever failed before and even if the
\* power failed in the middle of an operation (inode_extend links a sector
\* only after the map that says it is taken is on the disk).  Nothing is
\* released twice, as free_map_release asserts.  Unless something failed or a
\* call is under way, nothing else is marked: "If INODE was also a removed
\* inode, frees its blocks" (inode_close).
SectorsAccounted ==
  LET F == {f \in Sector : Exists(f)}
      owned == [f \in F |-> Owned(f)]
      all == UNION {ToSet(owned[f]) : f \in F}
      marked == free_map \ {FREE_MAP_SECTOR}
  IN  /\ all \subseteq marked
      /\ Cardinality(all) = MapThenSumSet(LAMBDA f : Len(owned[f]), F)
      /\ ~panic
      /\ busy = NONE /\ ~MayFail /\ ~MayCrash => all = marked

Contents(f) == inode_read_at(f, inode_disk(f).length, 0)

\* What distinguishes two states: not the pointers beyond the end of a file,
\* and not what the sectors of no file hold.
View ==
  LET inode(f) == IF f \in DOMAIN open_inodes THEN [open_inodes[f] EXCEPT !.data = 0] ELSE NONE
  IN  <<free_map, saved_map, named, faults, panic,
        IF busy = NONE THEN NONE ELSE <<[busy EXCEPT !.d = busy.d.length], Parts(busy.d, busy.i)>>,
        [f \in {g \in Sector : Exists(g)} |->
           <<Owned(f), Contents(f), disk[f].length, inode(f)>>]>>

Flat == INSTANCE FlatFiles WITH
  File <- Sector,
  contents <- [f \in Sector |-> IF Exists(f) THEN Contents(f) ELSE NONE],
  request <- IF busy # NONE /\ busy.op = "copy"
             THEN [f |-> busy.f, offset |-> busy.offset, size |-> busy.size, word |-> busy.word]
             ELSE NONE

\* Through all index blocks, growth, failures, removal and power failures, a
\* file is the flat sequence of words that was written to it.
Implements == Flat!Spec

=============================================================================
