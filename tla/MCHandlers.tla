----------------------------- MODULE MCHandlers -----------------------------
(***************************************************************************)
(* Interrupt handlers, drivers and system calls for TLC, for safety.  A    *)
(* behaviour is one of these:                                              *)
(*   readers   two readers and a writer at the serial port, queues of one  *)
(*             byte;                                                       *)
(*   queue     a reader and a writer, queues of two bytes;                 *)
(*   console   two threads that print, and interrupt handlers that do;     *)
(*   disk      two threads and two disks on one channel;                   *)
(*   kinds     a thread, all kinds of devices, and one that is too slow;   *)
(*   spurious  two threads, and interrupts that nobody caused;             *)
(*   dispatch  interrupts of two devices, system calls and page faults;    *)
(*   process   exec, wait and exit of a process, a child and a grandchild; *)
(*   transfer  read, write and seek of three processes on one file.        *)
(* The variables of the other parts stay as they are.  panic belongs to    *)
(* all of them.                                                            *)
(***************************************************************************)
EXTENDS Integers, Sequences

CONSTANTS r1, r2, w1, w2, t1, t2, p0, p1, p2, b1, b2, NIL, FREED

VARIABLES
  part, panic,
  mode, txq, buffer, ier, thr, rbr, at, accepted, sent, received, delivered,
  holder, console_lock_depth, frame, left, author, handler_bytes,
  kind, is_ata, registered, lock, expecting_interrupt, completion_wait, pc, req,
  busy, drq, cmd, irq, disk, slow, spurious,
  current, level, frames, old_level, in_external_intr, yield_on_return, pending, in_service, asked,
  where, block, child, exit_state, children, verdict, outcome,
  data, pos, call, bounce, calls, seen

Readers == INSTANCE Serial WITH INTQ_BUFSIZE <- 2, Reader <- {r1, r2}, Writer <- {w1}, Labels <- 3,
  NULL <- NIL
Queue == INSTANCE Serial WITH INTQ_BUFSIZE <- 3, Reader <- {r1}, Writer <- {w1}, Labels <- 4,
  NULL <- NIL

Printing == INSTANCE Console WITH
  INTQ_BUFSIZE <- 2, Reader <- {}, Writer <- {w1, w2}, Labels <- 3, Length <- 2, HandlerBytes <- 2,
  NULL <- NIL

Disk == INSTANCE Ide WITH
  Thread <- {"t1", "t2"}, Sector <- {"s1", "s2"}, Data <- {"x", "y"}, Kinds <- {"ata", "none"},
  MaxSlow <- 0, MaxSpurious <- 0
AnyKind == INSTANCE Ide WITH
  Thread <- {"t1"}, Sector <- {"s1"}, Data <- {"x", "y"},
  Kinds <- {"ata", "big", "alone", "atapi", "dead", "none"}, MaxSlow <- 1, MaxSpurious <- 0
Spurious == INSTANCE Ide WITH
  Thread <- {"t1", "t2"}, Sector <- {"s1"}, Data <- {"x", "y"}, Kinds <- {"ata", "none"},
  MaxSlow <- 0, MaxSpurious <- 2

Dispatch == INSTANCE Interrupts WITH Thread <- {t1, t2}, External <- {32, 46}

Family == INSTANCE Process WITH
  pc <- where, Process <- {p0, p1, p2}, Initial <- p0, Status <- {7},
  Block <- {b1, b2}, NONE <- NIL

ASSUME Family!ProcessAssumption

Calls == INSTANCE Transfer WITH
  Proc <- {1, 2, 3}, Directory <- {3}, PGSIZE <- 2, Sizes <- {1, 3, 4}, Positions <- {0, 3, 8},
  W <- 4, Capacity <- 6, MaxCalls <- 1

portVars == <<mode, txq, buffer, ier, thr, rbr, at, accepted, sent, received, delivered>>
printVars == <<holder, console_lock_depth, frame, left, author, handler_bytes>>
diskVars == <<kind, is_ata, registered, lock, expecting_interrupt, completion_wait, pc, req,
              busy, drq, cmd, irq, disk, slow, spurious>>
intrVars == <<current, level, frames, old_level, in_external_intr, yield_on_return, pending, in_service, asked>>
familyVars == <<where, block, child, exit_state, children, verdict, outcome>>
callVars == <<data, pos, call, bounce, calls, seen>>
vars == <<part, panic, portVars, printVars, diskVars, intrVars, familyVars, callVars>>

\* A part that does not take place has one initial state.
NoPort ==
  /\ mode = 0 /\ txq = 0 /\ buffer = 0 /\ ier = 0 /\ thr = 0 /\ rbr = 0 /\ at = 0
  /\ accepted = 0 /\ sent = 0 /\ received = 0 /\ delivered = 0
NoPrint ==
  /\ holder = 0 /\ console_lock_depth = 0 /\ frame = 0 /\ left = 0 /\ author = 0 /\ handler_bytes = 0
NoDisk ==
  /\ kind = 0 /\ is_ata = 0 /\ registered = 0 /\ lock = 0 /\ expecting_interrupt = 0
  /\ completion_wait = 0 /\ pc = 0 /\ req = 0 /\ busy = 0 /\ drq = 0 /\ cmd = 0 /\ irq = 0
  /\ disk = 0 /\ slow = 0 /\ spurious = 0
NoIntr ==
  /\ current = 0 /\ level = 0 /\ frames = 0 /\ old_level = 0 /\ in_external_intr = 0
  /\ yield_on_return = 0 /\ pending = 0 /\ in_service = 0 /\ asked = 0
NoFamily ==
  /\ where = 0 /\ block = 0 /\ child = 0 /\ exit_state = 0 /\ children = 0 /\ verdict = 0 /\ outcome = 0
NoCalls ==
  /\ data = 0 /\ pos = 0 /\ call = 0 /\ bounce = 0 /\ calls = 0 /\ seen = 0

Handlers ==
  {"readers", "queue", "console", "disk", "kinds", "spurious", "dispatch", "process", "transfer"}

Init ==
  /\ part \in Handlers
  /\ CASE part = "readers" -> Readers!Init /\ NoPrint
       [] part = "queue" -> Queue!Init /\ NoPrint
       [] part = "console" -> Printing!ConsoleInit
       [] OTHER -> NoPort /\ NoPrint
  /\ CASE part = "disk" -> Disk!Init
       [] part = "kinds" -> AnyKind!Init
       [] part = "spurious" -> Spurious!Init
       [] OTHER -> NoDisk
  /\ IF part = "dispatch" THEN Dispatch!Init ELSE NoIntr
  /\ IF part = "process" THEN Family!Init ELSE NoFamily
  /\ IF part = "transfer" THEN Calls!Init ELSE NoCalls

Next ==
  /\ UNCHANGED part
  /\ \/ /\ \/ part = "readers" /\ Readers!Next
           \/ part = "queue" /\ Queue!Next
        /\ UNCHANGED <<printVars, diskVars, intrVars, familyVars, callVars>>
     \/ /\ part = "console" /\ Printing!ConsoleNext
        /\ UNCHANGED <<diskVars, intrVars, familyVars, callVars>>
     \/ /\ \/ part = "disk" /\ Disk!Next
           \/ part = "kinds" /\ AnyKind!Next
           \/ part = "spurious" /\ Spurious!Next
        /\ UNCHANGED <<portVars, printVars, intrVars, familyVars, callVars>>
     \/ /\ part = "dispatch" /\ Dispatch!Next
        /\ UNCHANGED <<portVars, printVars, diskVars, familyVars, callVars>>
     \/ /\ part = "process" /\ Family!Next
        /\ UNCHANGED <<portVars, printVars, diskVars, intrVars, callVars>>
     \/ /\ part = "transfer" /\ Calls!Next
        /\ UNCHANGED <<portVars, printVars, diskVars, intrVars, familyVars>>

Spec == Init /\ [][Next]_vars

----------------------------------------------------------------------------

\* The serial port sends what serial_putc took, and input_getc returns what
\* arrived, in order, nothing lost and nothing twice.
BytesInOrder ==
  /\ part = "readers" => Readers!BytesInOrder
  /\ part = "queue" => Queue!BytesInOrder

\* putbuf and printf of different threads do not mix their output.
Unmixed == [][part = "console" => Printing!MixesNothing]_vars

\* ide_read and ide_write transfer the right data, to disks that are there, and
\* do not panic unless a disk is too slow.
DiskData ==
  /\ part = "disk" => Disk!DiskData
  /\ part = "kinds" => AnyKind!DiskData
  /\ part = "spurious" => Spurious!DiskData

\* intr_handler runs one handler at a time, acknowledges its interrupt, and
\* yields if that handler asked for it.
OneAtATime == part = "dispatch" => Dispatch!OneAtATime

\* Every exit_state has one owner, however exec, wait and exit interleave.
BlocksOwned == part = "process" => Family!BlocksOwned

\* process_wait gives a parent the status of its child, once: exec, wait, exit
\* and kill implement Reaping, unless one child used the freed block that
\* malloc() has given to another.
Implements ==
  /\ part = "process" => Family!Reaps!Init
  /\ [][part = "process" => UNCHANGED Family!Reaps!vars \/ Family!Reaps!Next \/ Family!Misled]_vars

\* read and write transfer what the file has, page by page, and move the
\* position by as much.
TransfersFile == part = "transfer" => Calls!TransfersFile

=============================================================================
