------------------------------- MODULE Transfer -------------------------------
(***************************************************************************)
(* The system calls read, write and seek of userprog/syscall.c on a file   *)
(* (filesys/file.c) that several processes have open, each with a position *)
(* of its own. A call moves a page at a time; the file system lock is held *)
(* for one page only, and the user's memory is never touched with it.      *)
(***************************************************************************)
EXTENDS Integers, Sequences, FiniteSets

CONSTANTS
  Proc,
  Directory,        \* the processes whose descriptor is one of a directory
  PGSIZE, Sizes, Positions,
  W,                \* bits of an unsigned and of an off_t
  Capacity,         \* the disk has room for so much
  MaxCalls          \* of a process, a bound of the model

VARIABLES
  data,             \* of the file: who wrote each byte and in which call, 0 if nobody
  pos,              \* struct file
  call,             \* what a process is doing
  bounce,           \* the processes with a page for the transfer
  calls,            \* how many calls a process has made
  seen,             \* history: what each byte has been during the call
  panic             \* an assertion has failed

vars == <<data, pos, call, bounce, calls, seen, panic>>

Offset == 0..(Capacity - 1)
\* What is read behind the end, where there is nothing.
ByteAt(k) == IF k < Len(data) THEN {data[k + 1]} ELSE {}

Idle == [op |-> "none", size |-> 0, total |-> 0, from |-> 0, buffer |-> << >>, chunk |-> << >>, end |-> FALSE]
Mine(p) == <<p, calls[p]>>
Nobody == <<0, 0>>

Init ==
  /\ data \in {[k \in 1..n |-> Nobody] : n \in {0, PGSIZE + 1}}
  /\ pos = [p \in Proc |-> 0] /\ call = [p \in Proc |-> Idle]
  /\ bounce = {} /\ calls = [p \in Proc |-> 0]
  /\ seen = [p \in Proc |-> [k \in Offset |-> {}]]
  /\ panic = FALSE

Transferring(p) == call[p].op \in {"read", "copy", "write"}

\* What happens to the file becomes part of what a call may have seen.
Noticed ==
  seen' = [p \in Proc |-> [k \in Offset |->
             IF Transferring(p) /\ k < Len(data') THEN seen[p][k] \cup {data'[k + 1]} ELSE seen[p][k]]]

\* A call with size 0, or on a descriptor of a directory, returns at once.
Begin(p, op) ==
  /\ call[p].op = "none" /\ p \notin Directory /\ calls[p] < MaxCalls
  /\ \E n \in Sizes :
       call' = [call EXCEPT ![p] = [Idle EXCEPT !.op = op, !.size = n, !.from = pos[p]]]
  /\ bounce' = bounce \cup {p}
  /\ calls' = [calls EXCEPT ![p] = @ + 1]
  /\ seen' = [seen EXCEPT ![p] = [k \in Offset |-> ByteAt(k)]]
  /\ UNCHANGED <<data, pos, panic>>

chunk_size(c) == IF c.size - c.total > PGSIZE THEN PGSIZE ELSE c.size - c.total

\* After fewer bytes than were asked for.
stops(n, size) == n < size

\* inode_read_at at the position, which moves on; fewer bytes at the end, or
\* when there is no memory for the sector that has some of them.
file_read(p) ==
  LET left == IF pos[p] < Len(data) THEN Len(data) - pos[p] ELSE 0
      most == IF chunk_size(call[p]) < left THEN chunk_size(call[p]) ELSE left
  IN  \E n \in 0..most :
      /\ call' = [call EXCEPT ![p].chunk = SubSeq(data, pos[p] + 1, pos[p] + n),
                              ![p].end = stops(n, chunk_size(call[p])),
                              ![p].op = IF n = 0 THEN "read" ELSE "copy"]
      /\ pos' = [pos EXCEPT ![p] = @ + n]

read_from_fd(p) ==
  /\ call[p].op = "read" /\ call[p].total < call[p].size /\ ~call[p].end
  /\ file_read(p)
  /\ UNCHANGED <<data, bounce, calls, seen, panic>>

\* A mistake: every page goes to the start of the buffer.
copied_Start(c) ==
  [k \in 1..(c.total + Len(c.chunk)) |->
     IF k <= Len(c.chunk) THEN c.chunk[k] ELSE IF k <= c.total THEN c.buffer[k] ELSE Nobody]

\* The user's buffer after the page has been copied behind the others.
copied(c) == SubSeq(c.buffer, 1, c.total) \o c.chunk

\* memcpy to the user's buffer.
copy_out(p) ==
  /\ call[p].op = "copy"
  /\ call' = [call EXCEPT ![p] = [@ EXCEPT !.op = "read", !.buffer = copied(call[p]), !.chunk = << >>,
                                           !.total = @ + Len(call[p].chunk)]]
  /\ UNCHANGED <<data, pos, bounce, calls, seen, panic>>

\* The file with room for size bytes at offset o, with zeros where it had
\* nothing, after n bytes of process p there.
Overwritten(p, o, size, n) ==
  [k \in 1..(IF o + size > Len(data) THEN o + size ELSE Len(data)) |->
     IF k > o /\ k <= o + n THEN Mine(p) ELSE IF k <= Len(data) THEN data[k] ELSE Nobody]

written_pos(p, n) == pos[p] + n

\* Nothing is written if the file cannot grow; fewer bytes, once it has grown,
\* when there is no memory for the sector that gets some of them.
file_write(p) ==
  LET want == chunk_size(call[p])
      grows == pos[p] + want <= Capacity \/ pos[p] + want <= Len(data)
  IN  \E n \in IF grows THEN 0..want ELSE {0} :
      /\ data' = IF grows THEN Overwritten(p, pos[p], want, n) ELSE data
      /\ pos' = [pos EXCEPT ![p] = written_pos(p, n)]
      /\ call' = [call EXCEPT ![p].total = @ + n, ![p].end = stops(n, want)]

write_to_fd(p) ==
  /\ call[p].op = "write" /\ call[p].total < call[p].size /\ ~call[p].end
  /\ file_write(p)
  /\ Noticed
  /\ UNCHANGED <<bounce, calls, panic>>

Return(p) ==
  /\ call[p].op \in {"read", "write"} /\ (call[p].total = call[p].size \/ call[p].end)
  /\ bounce' = bounce \ {p}
  /\ call' = [call EXCEPT ![p] = Idle]
  /\ seen' = [seen EXCEPT ![p] = [k \in Offset |-> {}]]
  /\ UNCHANGED <<data, pos, calls, panic>>

\* The user's buffer is on a page that cannot be brought in: exit (-1) from the
\* page fault in memcpy.
page_fault(p) ==
  /\ \/ call[p].op = "copy"
     \/ call[p].op = "write" /\ call[p].total < call[p].size /\ ~call[p].end
  /\ call' = [call EXCEPT ![p] = [Idle EXCEPT !.op = "dead"]]
  /\ seen' = [seen EXCEPT ![p] = [k \in Offset |-> {}]]
  /\ UNCHANGED <<data, pos, bounce, calls, panic>>

\* An unsigned number as an off_t.
off_t(n) == IF n >= 2^(W - 1) THEN n - 2^W ELSE n

\* file_seek asserts that there is a file, which a descriptor of a directory
\* does not have, and that the position is not negative.
syscall_seek(p, n) ==
  /\ call[p].op = "none"
  /\ panic' = (p \in Directory \/ off_t(n) < 0)
  /\ pos' = IF panic' THEN pos ELSE [pos EXCEPT ![p] = off_t(n)]
  /\ UNCHANGED <<data, call, bounce, calls, seen>>

\* The rest of the kernel goes on.
Elsewhere == UNCHANGED vars

Step(p) ==
  \/ Begin(p, "read") \/ Begin(p, "write") \/ Return(p) \/ page_fault(p)
  \/ read_from_fd(p) \/ copy_out(p) \/ write_to_fd(p)
  \/ \E n \in Positions : syscall_seek(p, n)

Next == Elsewhere \/ (~panic /\ \E p \in Proc : Step(p))

Spec == Init /\ [][Next]_vars

----------------------------------------------------------------------------

\* What read puts into the buffer is, byte by byte, what the file had at that
\* offset some time during the call, though others write between its pages.
\* What write has counted was in the file, each byte at its own offset, until
\* another process wrote there.  The position moves by what was transferred,
\* however the pages of two processes alternate.
TransfersFile ==
  \A p \in Proc : Transferring(p) =>
    LET c == call[p]
        had(k) == seen[p][c.from + k - 1]
    IN  /\ pos[p] = c.from + c.total + Len(c.chunk)
        /\ \A k \in 1..c.total : IF c.op = "write" THEN Mine(p) \in had(k) ELSE c.buffer[k] \in had(k)

=============================================================================
