------------------------------- MODULE MCFiles -------------------------------
(***************************************************************************)
(* The file system for TLC.  A behaviour is one of its parts:              *)
(*   crash    two files on a disk that fills up, while the power may fail; *)
(*   partial  writes of parts of sectors, where any allocation may fail;   *)
(*   intact   neither, and files that use every kind of index block;       *)
(*   tree     two processes in a tree of directories;                      *)
(*   list     a process that lists directories while it changes them;      *)
(*   open     three processes that open and execute two files;             *)
(*   close    two processes and two directories, until both have exited.   *)
(* The variables of the other parts stay as they are.                      *)
(***************************************************************************)
EXTENDS Integers, TLC

CONSTANTS p, q, f1, f2, o1, o2, o3, ZERO, NONE

VARIABLES
  part,
  free_map, saved_map, disk, open_inodes, named, busy, faults, panic,
  used, is_dir, entries, open_cnt, removed, cwd, handle,
  inode, objects, filesys_lock, pc, op, cur, fd_table, exe, dir, version, started

Crash == INSTANCE Inode WITH
  SECTORS <- 10, BLOCK_SECTOR_SIZE <- 1, DIRECT_BLOCKS <- 1, PTRS_PER_SECTOR <- 2,
  Word <- {1}, Size <- {4}, MaxLength <- 5, MaxOpen <- 1, MaxFiles <- 2,
  MayFail <- FALSE, MayCrash <- TRUE, MaxFaults <- 2

Partial == INSTANCE Inode WITH
  SECTORS <- 9, BLOCK_SECTOR_SIZE <- 2, DIRECT_BLOCKS <- 1, PTRS_PER_SECTOR <- 1,
  Word <- {1}, Size <- {1, 3}, MaxLength <- 5, MaxOpen <- 2, MaxFiles <- 1,
  MayFail <- TRUE, MayCrash <- FALSE, MaxFaults <- 2

Intact == INSTANCE Inode WITH
  SECTORS <- 18, BLOCK_SECTOR_SIZE <- 1, DIRECT_BLOCKS <- 1, PTRS_PER_SECTOR <- 2,
  Word <- {1}, Size <- {2, 5}, MaxLength <- 7, MaxOpen <- 1, MaxFiles <- 1,
  MayFail <- FALSE, MayCrash <- FALSE, MaxFaults <- 2

Dirs == INSTANCE Filesys WITH
  Process <- {p, q}, Name <- {"a"}, SECTORS <- 3, MaxPath <- 2, MaxEntries <- 4,
  RemovesDot <- FALSE, LeavesRemoved <- FALSE

List == INSTANCE Filesys WITH
  Process <- {p}, Name <- {"a", "b"}, SECTORS <- 3, MaxPath <- 1, MaxEntries <- 4,
  RemovesDot <- FALSE, LeavesRemoved <- FALSE

Open == INSTANCE OpenFiles WITH
  open_inodes <- objects, cwd <- dir,
  Process <- {"main", p, q}, Initial <- "main", Inum <- {"root", f1, f2}, Dir <- {"root"},
  Object <- {o1, o2, o3}, MaxFds <- 1, InitialExits <- FALSE, OpensDirs <- FALSE,
  LoadFails <- TRUE

Close == INSTANCE OpenFiles WITH
  open_inodes <- objects, cwd <- dir,
  Process <- {"main", p}, Initial <- "main", Inum <- {"root", "d", f1}, Dir <- {"root", "d"},
  Object <- {o1, o2, o3}, MaxFds <- 1, InitialExits <- TRUE, OpensDirs <- FALSE,
  LoadFails <- TRUE

ASSUME
  Crash!InodeAssumption /\ Partial!InodeAssumption /\ Intact!InodeAssumption

fileVars == <<free_map, saved_map, disk, open_inodes, named, busy, faults, panic>>
dirVars == <<used, is_dir, entries, open_cnt, removed, cwd, handle>>
openVars == <<inode, objects, filesys_lock, pc, op, cur, fd_table, exe, dir, version, started>>
vars == <<part, fileVars, dirVars, openVars>>

Init ==
  /\ part \in {"crash", "partial", "intact", "tree", "list", "open", "close"}
  /\ CASE part = "partial" -> Partial!Init [] part = "intact" -> Intact!Init
       [] OTHER -> Crash!Init
  /\ IF part = "list" THEN List!Init ELSE Dirs!Init
  /\ IF part = "close" THEN Close!Init ELSE Open!Init

FileStep ==
  \/ part = "crash" /\ Crash!Next
  \/ part = "partial" /\ Partial!Next
  \/ part = "intact" /\ Intact!Next

Next ==
  /\ UNCHANGED part
  /\ \/ FileStep /\ UNCHANGED <<dirVars, openVars>>
     \/ part = "tree" /\ Dirs!Next /\ UNCHANGED <<fileVars, openVars>>
     \/ part = "list" /\ List!Next /\ UNCHANGED <<fileVars, openVars>>
     \/ part = "open" /\ Open!Next /\ UNCHANGED <<fileVars, dirVars>>
     \/ part = "close" /\ Close!Next /\ UNCHANGED <<fileVars, dirVars>>

Spec == Init /\ [][Next]_vars

View ==
  <<part, CASE part = "crash" -> Crash!View [] part = "partial" -> Partial!View
            [] part = "intact" -> Intact!View [] part = "tree" -> Dirs!View
            [] part = "list" -> List!View
            [] part \in {"open", "close"} -> openVars>>

Symmetry == Permutations({p, q}) \cup Permutations({f1, f2}) \cup Permutations({o1, o2, o3})

----------------------------------------------------------------------------

\* Every sector of the disk belongs to one file, after power failures included,
\* and unless something fails inode_close gives all of them back.
SectorsAccounted ==
  /\ part = "crash" => Crash!SectorsAccounted
  /\ part = "partial" => Partial!SectorsAccounted
  /\ part = "intact" => Intact!SectorsAccounted

\* Inode implements FlatFiles.
FilesKept ==
  /\ Crash!Flat!Init \/ part \in {"partial", "intact"}
  /\ Partial!Flat!Init \/ part # "partial"
  /\ [][/\ part = "crash" => [Crash!Flat!Next]_(Crash!Flat!vars)
        /\ part = "partial" => [Partial!Flat!Next]_(Partial!Flat!vars)]_vars


\* A listing with dir_readdir misses nothing, whatever is added and removed
\* between its calls.
ListsAll == part = "list" => List!ListsAll

\* An inode in use is freed only where a close without filesys_lock is freeing it,
\* and the exits of all processes leave none open.
FreedWhenUnused ==
  /\ [][/\ part = "open" => Open!OnlyUnlocked
        /\ part = "close" => Close!OnlyUnlocked]_vars
  /\ [](part = "close" => Close!NoneLeft)

\* An executable does not change while a process runs it.
ExecutableUnchanged ==
  /\ part = "open" => Open!ExecutableUnchanged
  /\ part = "close" => Close!ExecutableUnchanged

==============================================================================
