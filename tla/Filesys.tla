------------------------------- MODULE Filesys -------------------------------
(***************************************************************************)
(* The directory tree: filesys/directory.c and filesys/filesys.c on top of *)
(* inodes whose contents are flat (see Inode, which implements FlatFiles). *)
(*                                                                         *)
(* Every operation runs under filesys_lock and is one step.  A sector is   *)
(* that of an inode; what an operation opens and closes again leaves no    *)
(* trace.  Allocations of sectors and memory fail at any time.             *)
(***************************************************************************)
EXTENDS Integers, Sequences, FiniteSets, SequencesExt, FiniteSetsExt, TLC

CONSTANTS
  Process, Name,
  SECTORS,              \* of inodes, the root's included
  MaxPath,              \* bound on the components of a path
  MaxEntries,           \* bound on the slots of a directory
  RemovesDot,           \* whether paths that end in "." are removed
  LeavesRemoved,        \* whether paths lead from a removed directory to ".."
  NONE

ROOT_DIR_SECTOR == 1
Sector == 1..SECTORS
Component == Name \cup {".", ".."}
Path == [absolute : BOOLEAN, tokens : UNION {[1..n -> Component] : n \in 0..MaxPath}]

VARIABLES
  used,         \* sectors of inodes that the free map has marked
  is_dir,       \* in the inode on the disk
  entries,      \* the slots of a directory: names and sectors, or NONE if not in_use
  open_cnt, removed,    \* of the inodes in memory
  cwd,          \* struct thread.cwd, the sector of its inode
  handle        \* the file or directory that a process has open, with its pos

vars == <<used, is_dir, entries, open_cnt, removed, cwd, handle>>
disk == <<used, is_dir, entries>>
memory == <<open_cnt, removed>>

\* lookup: the sector that NAME has in the directory S, or NONE.
Slots(s, name) == {i \in DOMAIN entries[s] : entries[s][i] # NONE /\ entries[s][i].name = name}
lookup(s, name) ==
  IF Slots(s, name) = {} THEN NONE
  ELSE entries[s][Min(Slots(s, name))].sector

dir_is_empty(s) ==
  \A i \in DOMAIN entries[s] : entries[s][i] # NONE => entries[s][i].name \in {".", ".."}

\* The slots ES once dir_add has put NAME into the first free one, or at the end.
dir_add(es, name, sector) ==
  LET e == [name |-> name, sector |-> sector]
      free == {i \in DOMAIN es : es[i] = NONE}
  IN  IF free = {} THEN Append(es, e)
      ELSE [es EXCEPT ![Min(free)] = e]

\* The walk of resolve_path over all but the last component: the directory it
\* ends in, or NONE.
Walk(p, path) ==
  LET into(s, prev) == IF s = NONE THEN NONE
                       ELSE LET t == lookup(s, prev)
                            IN  IF t # NONE /\ is_dir[t] THEN t ELSE NONE
  IN  FoldLeft(into, IF path.absolute \/ cwd[p] = NONE THEN ROOT_DIR_SECTOR ELSE cwd[p],
               SubSeq(path.tokens, 1, Len(path.tokens) - 1))

\* resolve_path: the directory, or NONE on failure; the inode of a directory
\* that is not open is read from the disk and has not been removed.
resolve_path(p, path) ==
  LET s == IF path.absolute \/ path.tokens # << >> THEN Walk(p, path) ELSE NONE
  IN  IF s # NONE /\ open_cnt[s] > 0 /\ removed[s] THEN NONE ELSE s

final_name(path) == IF path.tokens = << >> THEN "." ELSE Last(path.tokens)

Removed(s) == open_cnt[s] > 0 /\ removed[s]

\* The paths that a process uses.
Used(p) ==
  {path \in Path :
     LeavesRemoved \/ path.absolute \/ Len(path.tokens) < 2 \/ path.tokens[1] # ".."
       \/ cwd[p] = NONE \/ ~Removed(cwd[p])}

\* The directories and final names that they resolve to.
Resolved(p) ==
  {<<s, name>> \in {<<resolve_path(p, path), final_name(path)>> : path \in Used(p)} : s # NONE}

----------------------------------------------------------------------------

Dots(s, parent) ==
  <<[name |-> ".", sector |-> s],
    [name |-> "..", sector |-> parent]>>

\* do_format, and a first process without a working directory.
Init ==
  /\ used = {ROOT_DIR_SECTOR}
  /\ is_dir = [s \in Sector |-> s = ROOT_DIR_SECTOR]
  /\ entries = [s \in Sector |-> IF s = ROOT_DIR_SECTOR THEN Dots(s, s) ELSE << >>]
  /\ open_cnt = [s \in Sector |-> 0]
  /\ removed = [s \in Sector |-> FALSE]
  /\ cwd = [p \in Process |-> NONE]
  /\ handle = [p \in Process |-> NONE]

\* inode_open and inode_close, as changes of what is in memory; the last
\* closer of a removed inode frees its sector.
Open(s) == open_cnt' = [open_cnt EXCEPT ![s] = @ + 1]

Close(s) ==
  /\ open_cnt' = [open_cnt EXCEPT ![s] = @ - 1]
  /\ IF open_cnt[s] = 1
     THEN /\ removed' = [removed EXCEPT ![s] = FALSE]
          /\ used' = IF removed[s] THEN used \ {s} ELSE used
     ELSE UNCHANGED <<removed, used>>

\* filesys_create or filesys_mkdir succeeds: the first free sector gets an
\* inode, then a name.  When one of them fails, the sector is free again.
Create(parent, name, dir) ==
  LET s == Min(Sector \ used)
  IN  /\ Sector # used
      /\ lookup(parent, name) = NONE
      /\ Len(dir_add(entries[parent], name, s)) <= MaxEntries
      /\ used' = used \cup {s}
      /\ is_dir' = [is_dir EXCEPT ![s] = dir]
      /\ entries' = [entries EXCEPT ![s] = IF dir THEN Dots(s, parent) ELSE << >>,
                                    ![parent] = dir_add(@, name, s)]
      /\ UNCHANGED <<open_cnt, removed, cwd, handle>>

filesys_create(s, name) == Create(s, name, FALSE)
filesys_mkdir(s, name) == Create(s, name, TRUE)

\* SYS_OPEN: filesys_open_inode, which does not open a removed inode.
filesys_open_inode(p, s, name) ==
  LET t == lookup(s, name)
  IN  /\ handle[p] = NONE /\ t # NONE
      /\ ~(open_cnt[t] > 0 /\ removed[t])
      /\ Open(t)
      /\ handle' = [handle EXCEPT ![p] =
           [sector |-> t, pos |-> 0,
            missing |-> {e.name : e \in ToSet(entries[t]) \ {NONE}} \ {".", ".."}]]
      /\ UNCHANGED <<used, is_dir, entries, removed, cwd>>

\* fd_close, through file_close or dir_close.
fd_close(p) ==
  /\ handle[p] # NONE
  /\ Close(handle[p].sector)
  /\ handle' = [handle EXCEPT ![p] = NONE]
  /\ UNCHANGED <<is_dir, entries, cwd>>

\* A mistake: the position is advanced before the slot is read.
upcoming_Skip(es, pos) ==
  {i \in (pos + 2)..Len(es) : es[i] # NONE /\ es[i].name \notin {".", ".."}}

\* The slots that dir_readdir has still to return.
upcoming(es, pos) ==
  {i \in (pos + 1)..Len(es) : es[i] # NONE /\ es[i].name \notin {".", ".."}}

\* SYS_READDIR: the next entry in use, or the end.
dir_readdir(p) ==
  LET h == handle[p]
      es == entries[h.sector]
  IN  /\ h # NONE /\ is_dir[h.sector]
      /\ handle' = [handle EXCEPT ![p] =
           IF upcoming(es, h.pos) = {} THEN [h EXCEPT !.pos = Len(es)]
           ELSE LET i == Min(upcoming(es, h.pos))
                IN  [h EXCEPT !.pos = i, !.missing = @ \ {es[i].name}]]
      /\ UNCHANGED <<disk, memory, cwd>>


\* filesys_remove refuses the root and directories with entries.
removable(t) == is_dir[t] => t # ROOT_DIR_SECTOR /\ dir_is_empty(t)

\* filesys_remove: dir_remove erases the entry and marks the inode.
filesys_remove(s, name) ==
  LET t == lookup(s, name)
  IN  /\ t # NONE
      /\ removable(t)
      /\ name = "." => RemovesDot
      /\ entries' = [entries EXCEPT ![s] = [i \in DOMAIN @ |->
           IF i \in Slots(s, name) THEN NONE ELSE @[i]]]
      /\ IF open_cnt[t] = 0
         THEN used' = used \ {t} /\ UNCHANGED removed
         ELSE removed' = [removed EXCEPT ![t] = TRUE] /\ UNCHANGED used
      /\ handle' = [q \in Process |->
           IF handle[q] # NONE /\ handle[q].sector = s
           THEN [handle[q] EXCEPT !.missing = @ \ {name}] ELSE handle[q]]
      /\ UNCHANGED <<is_dir, open_cnt, cwd>>

\* filesys_chdir: the new directory is opened, then the old one closed.
filesys_chdir(p, s, name) ==
  LET t == lookup(s, name)
      old == cwd[p]
      cnt == [open_cnt EXCEPT ![t] = @ + 1]
  IN  /\ t # NONE /\ is_dir[t] /\ t # old
      /\ cwd' = [cwd EXCEPT ![p] = t]
      /\ IF old = NONE
         THEN open_cnt' = cnt /\ UNCHANGED <<removed, used>>
         ELSE /\ open_cnt' = [cnt EXCEPT ![old] = @ - 1]
              /\ removed' = [removed EXCEPT ![old] = @ /\ cnt[old] > 1]
              /\ used' = IF removed[old] /\ cnt[old] = 1 THEN used \ {old} ELSE used
      /\ UNCHANGED <<is_dir, entries, handle>>

\* process_exit: dir_close of the working directory.
process_exit(p) ==
  /\ cwd[p] # NONE /\ handle[p] = NONE
  /\ Close(cwd[p])
  /\ cwd' = [cwd EXCEPT ![p] = NONE]
  /\ UNCHANGED <<is_dir, entries, handle>>

Next ==
  \E p \in Process :
    \/ \E r \in Resolved(p) :
         \/ filesys_create(r[1], r[2]) \/ filesys_mkdir(r[1], r[2]) \/ filesys_remove(r[1], r[2])
         \/ filesys_open_inode(p, r[1], r[2]) \/ filesys_chdir(p, r[1], r[2])
    \/ fd_close(p) \/ dir_readdir(p) \/ process_exit(p)

Spec == Init /\ [][Next]_vars

\* What an inode that is not in use holds on the disk does not matter.
View == <<used, [s \in used |-> <<is_dir[s], entries[s]>>], open_cnt, removed, cwd, handle>>

----------------------------------------------------------------------------

Live(s) == s \in used /\ ~Removed(s)

\* The names in a directory, without the dots.
Named(s) == {e \in ToSet(entries[s]) \ {NONE} : e.name \notin {".", ".."}}


\* A listing misses no entry that was there when the directory was opened and
\* still is: slots do not move (dir_add, dir_remove, dir_readdir).
ListsAll ==
  \A p \in Process : handle[p] # NONE =>
    LET h == handle[p]
        es == entries[h.sector]
    IN  h.missing \subseteq {es[i].name : i \in {j \in DOMAIN es : j > h.pos /\ es[j] # NONE}}

=============================================================================
