------------------------------ MODULE OpenFiles ------------------------------
(***************************************************************************)
(* Who has which inode open: the list open_inodes and its counts           *)
(* (filesys/inode.c, file.c, directory.c) under the file descriptors, the  *)
(* executable and the working directory of each process                    *)
(* (userprog/syscall.c, userprog/process.c).                               *)
(*                                                                         *)
(* Most callers hold filesys_lock.  start_process, the end of load and     *)
(* the dir_close in process_exit do not, so that opening and closing an    *)
(* inode are several steps here.  A struct inode is an object in memory.   *)
(* A behaviour ends where one is freed although it is in use (HeldIsOpen): *)
(* from there on what the code reads and writes is not an inode.           *)
(***************************************************************************)
EXTENDS Integers, Sequences, FiniteSets, SequencesExt

CONSTANTS
  Process, Initial,
  Inum, Dir,            \* inode numbers, and which of them are directories
  Object,               \* memory for struct inode
  MaxFds,               \* bound on the descriptors of a process
  InitialExits,         \* whether the initial process may exit
  OpensDirs,            \* whether descriptors may be of directories
  LoadFails,            \* whether an executable may be ill-formed
  NONE

VARIABLES
  inode,        \* the struct inode in an object, or NONE if it is free
  open_inodes,  \* the objects on the list
  filesys_lock, \* its holder, or NONE
  pc, op, cur,  \* of a process: where it is, the call, the inode it is about
  fd_table,     \* the inodes behind the descriptors
  exe, cwd,     \* struct thread.exe and cwd, as inodes
  version,      \* of a file's contents, changed by writing
  started       \* the version a process began to execute

vars == <<inode, open_inodes, filesys_lock, pc, op, cur, fd_table, exe, cwd, version, started>>
files == <<fd_table, exe, cwd, version, started>>

At(p, l) == pc[p] = l
Go(p, l) == pc' = [pc EXCEPT ![p] = l]
Acquire(p) == filesys_lock = NONE /\ filesys_lock' = p
Release == filesys_lock' = NONE

Init ==
  \E o \in Object :
    LET root == CHOOSE i \in Dir : TRUE IN
      /\ inode = [x \in Object |-> IF x = o THEN [sector |-> root, open_cnt |-> 1, deny |-> 0]
                                   ELSE NONE]
      /\ open_inodes = {o}
      /\ filesys_lock = NONE
      /\ pc = [p \in Process |-> IF p = Initial THEN "user" ELSE "unborn"]
      /\ op = [p \in Process |-> "none"] /\ cur = [p \in Process |-> NONE]
      /\ fd_table = [p \in Process |-> << >>]
      /\ exe = [p \in Process |-> NONE]
      /\ cwd = [p \in Process |-> IF p = Initial THEN o ELSE NONE]
      /\ version = [i \in Inum |-> 0]
      /\ started = [p \in Process |-> NONE]

----------------------------------------------------------------------------
\* inode_open

\* The inodes on the list for sector I.
find(i) == {o \in open_inodes : inode[o].sector = i}

\* Called with the lock by SYS_OPEN, load and filesys_chdir: the inode is on
\* the list, or a new one is put there.
inode_open(p, l, c, i) ==
  /\ At(p, l) /\ Acquire(p)
  /\ op' = [op EXCEPT ![p] = c]
  /\ \/ /\ find(i) # {}
        /\ cur' = [cur EXCEPT ![p] = CHOOSE o \in find(i) : TRUE]
        /\ Go(p, "reopen")
        /\ UNCHANGED <<inode, open_inodes>>
     \/ /\ find(i) = {}
        /\ \E o \in Object :
             /\ inode[o] = NONE
             /\ inode' = [inode EXCEPT ![o] = [sector |-> i, open_cnt |-> 1, deny |-> 0]]
             /\ open_inodes' = open_inodes \cup {o}
             /\ cur' = [cur EXCEPT ![p] = o]
        /\ Go(p, "opened")
  /\ UNCHANGED files

Count(o, n) == inode' = [inode EXCEPT ![o].open_cnt = @ + n]

inode_reopen(p) ==
  /\ At(p, "reopen")
  /\ Count(cur[p], 1)
  /\ Go(p, "opened")
  /\ UNCHANGED <<open_inodes, filesys_lock, op, cur, files>>

syscall_open(p, i) ==
  /\ Len(fd_table[p]) < MaxFds /\ (i \in Dir => OpensDirs)
  /\ inode_open(p, "user", "open", i)

\* fd_alloc, and the lock is released.
fd_alloc(p) ==
  /\ At(p, "opened") /\ op[p] = "open"
  /\ fd_table' = [fd_table EXCEPT ![p] = Append(@, cur[p])]
  /\ op' = [op EXCEPT ![p] = "none"]
  /\ cur' = [cur EXCEPT ![p] = NONE]
  /\ Go(p, "user") /\ Release
  /\ UNCHANGED <<inode, open_inodes, exe, cwd, version, started>>

filesys_chdir(p, i) == i \in Dir /\ inode_open(p, "user", "chdir", i)

\* The old directory is closed under the lock; cwd is read by the process only.
filesys_chdir_opened(p) ==
  /\ At(p, "opened") /\ op[p] = "chdir"
  /\ cwd' = [cwd EXCEPT ![p] = cur[p]]
  /\ cur' = [cur EXCEPT ![p] = cwd[p]]
  /\ Go(p, "close")
  /\ UNCHANGED <<inode, open_inodes, filesys_lock, op, fd_table, exe, version, started>>

----------------------------------------------------------------------------
\* inode_close: the count, then the list, then the memory.

\* A mistake: the inode is freed by the first close.
LastReference_Always(o) == TRUE

LastReference(o) == inode[o].open_cnt = 1

\* Where a process goes on when inode_close returns.
Return(p) ==
  /\ Go(p, CASE op[p] = "exit_cwd" -> "exit_exe"
             [] op[p] \in {"exit_exe", "exit_fds"} -> "exit_fds"
             [] op[p] = "load_failed" -> "exit"
             [] OTHER -> "user")
  /\ op' = [op EXCEPT ![p] = IF @ \in {"close", "chdir"} THEN "none" ELSE @]
  /\ cur' = [cur EXCEPT ![p] = NONE]
  /\ filesys_lock' = IF filesys_lock = p THEN NONE ELSE filesys_lock

inode_close(p) ==
  /\ At(p, "close")
  /\ Count(cur[p], -1)
  /\ IF LastReference(cur[p]) THEN Go(p, "unlist") /\ UNCHANGED <<filesys_lock, op, cur>>
                              ELSE Return(p)
  /\ UNCHANGED <<open_inodes, files>>

inode_close_unlist(p) ==
  /\ At(p, "unlist")
  /\ open_inodes' = open_inodes \ {cur[p]}
  /\ Go(p, "free")
  /\ UNCHANGED <<inode, filesys_lock, op, cur, files>>

inode_close_free(p) ==
  /\ At(p, "free")
  /\ inode' = [inode EXCEPT ![cur[p]] = NONE]
  /\ Return(p)
  /\ UNCHANGED <<open_inodes, files>>

\* SYS_CLOSE: the descriptor goes, and the file or directory behind it.
syscall_close(p, k) ==
  /\ At(p, "user") /\ k \in DOMAIN fd_table[p] /\ Acquire(p)
  /\ cur' = [cur EXCEPT ![p] = fd_table[p][k]]
  /\ fd_table' = [fd_table EXCEPT ![p] = RemoveAt(@, k)]
  /\ op' = [op EXCEPT ![p] = "close"]
  /\ Go(p, "close")
  /\ UNCHANGED <<inode, open_inodes, exe, cwd, version, started>>

IsFile(o) == inode[o].sector \notin Dir

\* A mistake: a file is written although writes to it are denied.
Writable_Always(o) == TRUE

Writable(o) == inode[o].deny = 0

\* SYS_WRITE on a file, under the lock throughout.
syscall_write(p, k) ==
  /\ At(p, "user") /\ k \in DOMAIN fd_table[p] /\ filesys_lock = NONE
  /\ LET o == fd_table[p][k] IN
       /\ IsFile(o) /\ Writable(o)
       /\ version' = [version EXCEPT ![inode[o].sector] = 1 - @]
  /\ UNCHANGED <<inode, open_inodes, filesys_lock, pc, op, cur, fd_table, exe, cwd, started>>

----------------------------------------------------------------------------
\* exec: the parent waits in process_execute until the child has loaded.

process_execute(p, c) ==
  /\ At(p, "user") /\ At(c, "unborn")
  /\ pc' = [pc EXCEPT ![p] = "executing", ![c] = "start"]
  /\ op' = [op EXCEPT ![p] = c, ![c] = "load"]
  /\ UNCHANGED <<inode, open_inodes, filesys_lock, cur, files>>

\* load has returned and load_wait is upped.
Loaded(c) == op[c] \notin {"load", "load_failed"} \/ At(c, "exit")

process_execute_return(p) ==
  /\ At(p, "executing") /\ Loaded(op[p])
  /\ Go(p, "user")
  /\ op' = [op EXCEPT ![p] = "none"]
  /\ UNCHANGED <<inode, open_inodes, filesys_lock, cur, files>>

Parent(c) == CHOOSE p \in Process : op[p] = c /\ At(p, "executing")

\* dir_reopen of the directory of the parent, without the lock.
start_process(c) ==
  /\ At(c, "start")
  /\ Count(cwd[Parent(c)], 1)
  /\ cwd' = [cwd EXCEPT ![c] = cwd[Parent(c)]]
  /\ Go(c, "load")
  /\ UNCHANGED <<open_inodes, filesys_lock, op, cur, fd_table, exe, version, started>>

load(c, i) == i \notin Dir /\ inode_open(c, "load", "load", i)

load_opened(c) ==
  /\ At(c, "opened") /\ op[c] = "load"
  /\ exe' = [exe EXCEPT ![c] = cur[c]]
  /\ cur' = [cur EXCEPT ![c] = NONE]
  /\ Go(c, "deny") /\ Release
  /\ UNCHANGED <<inode, open_inodes, op, fd_table, cwd, version, started>>

Deny(o, n) == inode' = [inode EXCEPT ![o].deny = @ + n]

\* file_deny_write without the lock; from here on the headers are read.
load_deny_write(c) ==
  /\ At(c, "deny")
  /\ Deny(exe[c], 1)
  /\ started' = [started EXCEPT ![c] = version[inode[exe[c]].sector]]
  /\ Go(c, "loading")
  /\ UNCHANGED <<open_inodes, filesys_lock, op, cur, fd_table, exe, cwd, version>>

load_done(c) ==
  /\ At(c, "loading")
  /\ Go(c, "user")
  /\ op' = [op EXCEPT ![c] = "none"]
  /\ UNCHANGED <<inode, open_inodes, filesys_lock, cur, files>>

\* A bad header: file_allow_write and file_close without the lock, then exit.
load_failed(c) ==
  /\ At(c, "loading") /\ LoadFails
  /\ Deny(exe[c], -1)
  /\ cur' = [cur EXCEPT ![c] = exe[c]]
  /\ exe' = [exe EXCEPT ![c] = NONE]
  /\ started' = [started EXCEPT ![c] = NONE]
  /\ op' = [op EXCEPT ![c] = "load_failed"]
  /\ Go(c, "close")
  /\ UNCHANGED <<open_inodes, filesys_lock, fd_table, cwd, version>>

----------------------------------------------------------------------------
\* process_exit

\* The working directory is closed first, without the lock.
process_exit(p) ==
  /\ pc[p] \in {"user", "exit"} /\ (p = Initial => InitialExits)
  /\ cur' = [cur EXCEPT ![p] = cwd[p]]
  /\ cwd' = [cwd EXCEPT ![p] = NONE]
  /\ op' = [op EXCEPT ![p] = "exit_cwd"]
  /\ Go(p, "close")
  /\ UNCHANGED <<inode, open_inodes, filesys_lock, fd_table, exe, version, started>>

process_exit_exe(p) ==
  /\ At(p, "exit_exe") /\ exe[p] # NONE /\ Acquire(p)
  /\ Deny(exe[p], -1)
  /\ cur' = [cur EXCEPT ![p] = exe[p]]
  /\ exe' = [exe EXCEPT ![p] = NONE]
  /\ started' = [started EXCEPT ![p] = NONE]
  /\ op' = [op EXCEPT ![p] = "exit_exe"]
  /\ Go(p, "close")
  /\ UNCHANGED <<open_inodes, fd_table, cwd, version>>

\* Only the files among the descriptors are closed.
process_exit_fds(p) ==
  /\ At(p, "exit_fds") \/ (At(p, "exit_exe") /\ exe[p] = NONE)
  /\ fd_table[p] # << >> /\ filesys_lock = NONE
  /\ LET o == Head(fd_table[p])
         file == IsFile(o)
     IN  /\ cur' = [cur EXCEPT ![p] = IF file THEN o ELSE NONE]
         /\ filesys_lock' = IF file THEN p ELSE NONE
         /\ Go(p, IF file THEN "close" ELSE "exit_fds")
  /\ fd_table' = [fd_table EXCEPT ![p] = Tail(@)]
  /\ op' = [op EXCEPT ![p] = "exit_fds"]
  /\ UNCHANGED <<inode, open_inodes, exe, cwd, version, started>>

process_exit_done(p) ==
  /\ At(p, "exit_fds") \/ (At(p, "exit_exe") /\ exe[p] = NONE)
  /\ fd_table[p] = << >>
  /\ Go(p, "dead")
  /\ op' = [op EXCEPT ![p] = "none"]
  /\ UNCHANGED <<inode, open_inodes, filesys_lock, cur, files>>

AllDead == \A p \in Process : pc[p] \in {"dead", "unborn"}

----------------------------------------------------------------------------
\* How often O is the inode behind a descriptor, an executable or a working
\* directory, or the one that a call has opened or is about to close.
Users(o) ==
  Cardinality({q \in Process : exe[q] = o}) + Cardinality({q \in Process : cwd[q] = o})
  + Cardinality({<<q, k>> \in Process \X (1..MaxFds) :
                   k \in DOMAIN fd_table[q] /\ fd_table[q][k] = o})
  + Cardinality({q \in Process : cur[q] = o /\ pc[q] \in {"opened", "close"}})

\* A call has found O on the list and is about to count itself.
Found(o) == \E q \in Process : cur[q] = o /\ pc[q] = "reopen"

\* inode_close of Q has taken the last reference to O and is about to free it.
Freeing(q, o) == cur[q] = o /\ pc[q] \in {"unlist", "free"}

\* What is in use is allocated, on the list, and has at least as many openers as
\* users; and what is freed is freed once.
Held(o) ==
  /\ Users(o) > 0 \/ Found(o) => o \in open_inodes /\ inode[o] # NONE
  /\ Users(o) > 0 => inode[o].open_cnt >= Users(o)
  /\ \A q, u \in Process : Freeing(q, o) /\ Freeing(u, o) => q = u

\* inode_close frees an inode with its last reference (open_cnt in inode_open,
\* inode_reopen and inode_close).
HeldIsOpen == \A o \in Object : Held(o)

Ended == AllDead \/ ~HeldIsOpen

Next ==
  \/ HeldIsOpen /\ \E p \in Process :
       \/ \E i \in Inum : syscall_open(p, i) \/ filesys_chdir(p, i) \/ load(p, i)
       \/ \E k \in 1..MaxFds : syscall_close(p, k) \/ syscall_write(p, k)
       \/ \E c \in Process : process_execute(p, c)
       \/ inode_reopen(p) \/ fd_alloc(p) \/ filesys_chdir_opened(p)
       \/ inode_close(p) \/ inode_close_unlist(p) \/ inode_close_free(p)
       \/ process_execute_return(p) \/ start_process(p)
       \/ load_opened(p) \/ load_deny_write(p) \/ load_done(p) \/ load_failed(p)
       \/ process_exit(p) \/ process_exit_exe(p)
       \/ process_exit_fds(p) \/ process_exit_done(p)
  \/ Ended /\ UNCHANGED vars

Spec == Init /\ [][Next]_vars

----------------------------------------------------------------------------
\* Properties

\* Whatever processes open, close, execute and leave, and in whichever order, an
\* inode in use is freed only where a close without the lock is freeing it.
OnlyUnlocked ==
  \A o \in Object : Held(o) /\ ~Held(o)' =>
    \E p \in Process : Freeing(p, o) /\ filesys_lock # p

\* When every process has exited no inode is open, except that of a directory
\* behind a descriptor, which process_exit does not close.
NoneLeft == AllDead /\ ~OpensDirs => open_inodes = {}

\* An executable does not change while a process runs it (file_deny_write in
\* load, undone in process_exit only), and the count of those that deny writing
\* never exceeds the count of openers (the assertion of inode_deny_write).
ExecutableUnchanged ==
  /\ \A p \in Process : started[p] # NONE => started[p] = version[inode[exe[p]].sector]
  /\ \A o \in open_inodes : inode[o].deny \in 0..inode[o].open_cnt

=============================================================================
