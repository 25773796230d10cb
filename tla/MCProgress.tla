----------------------------- MODULE MCProgress -----------------------------
(***************************************************************************)
(* What has to happen in the end, for TLC: the waits that an interrupt     *)
(* handler, a device or another process ends.  A behaviour is one of       *)
(* these:                                                                  *)
(*   readers   two readers and a writer at the serial port;                *)
(*   disk      two threads at one channel of the disk driver;              *)
(*   dispatch  interrupts of two devices, system calls and page faults;    *)
(*   process   exec, wait and exit of a process and a child.               *)
(* The variables of the other parts stay as they are.  panic belongs to    *)
(* all of them.                                                            *)
(***************************************************************************)
EXTENDS Integers, Sequences

CONSTANTS r1, r2, w1, t1, t2, main, p, b1, NULL, FREED

VARIABLES
  part, panic,
  mode, txq, buffer, ier, thr, rbr, at, accepted, sent, received, delivered,
  kind, is_ata, registered, lock, expecting_interrupt, completion_wait, pc, req,
  busy, drq, cmd, irq, disk, slow, spurious,
  current, level, frames, old_level, in_external_intr, yield_on_return, pending, in_service, asked,
  where, block, child, exit_state, children, verdict, outcome

Readers == INSTANCE Serial WITH INTQ_BUFSIZE <- 2, Reader <- {r1, r2}, Writer <- {w1}, Labels <- 3

Disk == INSTANCE Ide WITH
  Thread <- {"t1", "t2"}, Sector <- {"s1"}, Data <- {"x"}, Kinds <- {"ata"},
  MaxSlow <- 0, MaxSpurious <- 0

Dispatch == INSTANCE Interrupts WITH Thread <- {t1, t2}, External <- {32, 46}

Family == INSTANCE Process WITH
  pc <- where, Process <- {main, p}, Initial <- main, Status <- {7},
  Block <- {b1}, NONE <- NULL

ASSUME Family!ProcessAssumption

portVars == <<mode, txq, buffer, ier, thr, rbr, at, accepted, sent, received, delivered>>
diskVars == <<kind, is_ata, registered, lock, expecting_interrupt, completion_wait, pc, req,
              busy, drq, cmd, irq, disk, slow, spurious>>
intrVars == <<current, level, frames, old_level, in_external_intr, yield_on_return, pending, in_service, asked>>
familyVars == <<where, block, child, exit_state, children, verdict, outcome>>
vars == <<part, panic, portVars, diskVars, intrVars, familyVars>>

\* A part that does not take place has one initial state.
NoPort ==
  /\ mode = 0 /\ txq = 0 /\ buffer = 0 /\ ier = 0 /\ thr = 0 /\ rbr = 0 /\ at = 0
  /\ accepted = 0 /\ sent = 0 /\ received = 0 /\ delivered = 0
NoDisk ==
  /\ kind = 0 /\ is_ata = 0 /\ registered = 0 /\ lock = 0 /\ expecting_interrupt = 0
  /\ completion_wait = 0 /\ pc = 0 /\ req = 0 /\ busy = 0 /\ drq = 0 /\ cmd = 0 /\ irq = 0
  /\ disk = 0 /\ slow = 0 /\ spurious = 0
NoIntr ==
  /\ current = 0 /\ level = 0 /\ frames = 0 /\ old_level = 0 /\ in_external_intr = 0
  /\ yield_on_return = 0 /\ pending = 0 /\ in_service = 0 /\ asked = 0
NoFamily ==
  /\ where = 0 /\ block = 0 /\ child = 0 /\ exit_state = 0 /\ children = 0 /\ verdict = 0 /\ outcome = 0

Init ==
  /\ part \in {"readers", "disk", "dispatch", "process"}
  /\ IF part = "readers" THEN Readers!Init ELSE NoPort
  /\ IF part = "disk" THEN Disk!Init ELSE NoDisk
  /\ IF part = "dispatch" THEN Dispatch!Init ELSE NoIntr
  /\ IF part = "process" THEN Family!Init ELSE NoFamily

Port(A) == part = "readers" /\ A /\ UNCHANGED <<part, diskVars, intrVars, familyVars>>
Drive(A) == part = "disk" /\ A /\ UNCHANGED <<part, portVars, intrVars, familyVars>>
Processor(A) == part = "dispatch" /\ A /\ UNCHANGED <<part, portVars, diskVars, familyVars>>
Kernel(A) == part = "process" /\ A /\ UNCHANGED <<part, portVars, diskVars, intrVars>>

Next == Port(Readers!Next) \/ Drive(Disk!Next) \/ Processor(Dispatch!Next) \/ Kernel(Family!Next)

\* The fairness of Serial, Ide, Interrupts and Process.
Spec ==
  /\ Init /\ [][Next]_vars
  /\ WF_vars(Port(~panic /\ Readers!serial_interrupt)) /\ WF_vars(Port(~panic /\ Readers!uart_sent))
  /\ WF_vars(Port(~panic /\ (Readers!serial_putc_locked(w1) \/ Readers!serial_putc_woken(w1))))
  /\ \A t \in {r1, r2} :
       WF_vars(Port(~panic /\ (Readers!input_getc_locked(t) \/ Readers!input_getc_woken(t))))
  /\ \A t \in {"t1", "t2"} :
       WF_vars(Drive(~panic /\ Disk!Step(t))) /\ SF_vars(Drive(~panic /\ Disk!lock_acquire(t)))
  /\ WF_vars(Drive(~panic /\ Disk!device_ready)) /\ WF_vars(Drive(~panic /\ Disk!device_written))
  /\ WF_vars(Drive(~panic /\ Disk!interrupt_handler))
  /\ WF_vars(Processor(Dispatch!intr_set_level)) /\ WF_vars(Processor(Dispatch!page_fault_enable))
  /\ SF_vars(Processor(Dispatch!intr_handler_end)) /\ WF_vars(Processor(Dispatch!intr_exit /\ ~level))
  /\ \A v \in {32, 46} : SF_vars(Processor(Dispatch!intr_handler(v)))
  /\ \A x \in {main, p} : WF_vars(Kernel(Family!Step(x)))

----------------------------------------------------------------------------

\* For properties of one part: P holds there, Q holds unless it is another one.
In(name, P) == part = name /\ P
Out(name, Q) == part = name => Q

\* The serial port goes on sending what is queued, and the waits of intq.c end
\* once there is a byte, or room for one: no wakeup of a handler is lost.
SerialProgress ==
  /\ \A n \in 0..1 : In("readers", Readers!Sending(n)) ~> Out("readers", txq.tail # n \/ panic)
  /\ \A t \in {r1, r2} : In("readers", Readers!ReaderMayGo(t)) ~>
       Out("readers", at[t] = "idle" \/ Readers!intq_empty(buffer) \/ panic)
  /\ In("readers", Readers!WriterMayGo(w1)) ~>
       Out("readers", at[w1] = "idle" \/ Readers!intq_full(txq) \/ panic)

\* Every ide_read and ide_write comes to its end: the completion interrupt is
\* never missed, and the channel's lock is handed on.
Completes == \A t \in {"t1", "t2"} : In("disk", pc[t] = "acquire") ~> Out("disk", pc[t] = "idle")

\* The timer is served some time after each request, whatever threads and
\* handlers do with the interrupt level.
TimerServed == In("dispatch", 32 \in pending) ~> Out("dispatch", 32 \notin pending)

\* process_wait for a child that has ended returns, and so does process_execute
\* unless the child is killed inside load.
CallsReturn ==
  /\ In("process", Family!Awaited(p, "exit_wait") /\ verdict[p] # NULL) ~>
       Out("process", Family!Freed(p) \/ panic)
  /\ In("process", Family!Awaited(p, "load_wait")) ~>
       Out("process", ~Family!Awaited(p, "load_wait") \/ verdict[p] = -1 \/ panic)

=============================================================================
