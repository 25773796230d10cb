--------------------------------- MODULE Ide ---------------------------------
(***************************************************************************)
(* devices/ide.c: one channel with two devices, its detection at startup   *)
(* and then requests from several threads, with the completion interrupt   *)
(* that ups a semaphore.  The controller is external; it works on commands *)
(* at its own pace, and it may be slow or raise an interrupt for nothing.  *)
(***************************************************************************)
EXTENDS Integers, Sequences, FiniteSets

CONSTANTS
  Thread, Sector, Data,
  Kinds,          \* what may be connected
  MaxSlow,        \* how often a device is slower than a timeout
  MaxSpurious     \* how many interrupts come for no reason

NONE == "none"
Device == {0, 1}
Main == CHOOSE t \in Thread : TRUE

VARIABLES
  kind,           \* what each device is
  is_ata, registered,
  lock, expecting_interrupt, completion_wait,    \* of struct channel
  pc, req,        \* each thread's place in the code, and its request
  busy, drq, cmd, \* of the controller: two status bits, the command in work
  irq,            \* an interrupt is pending
  disk,           \* what the sectors hold
  slow, spurious, \* what is left of the faults
  panic

channel == <<lock, expecting_interrupt, completion_wait>>
controller == <<busy, drq, cmd, irq, disk>>
setup == <<kind, is_ata, registered>>
vars == <<setup, channel, pc, req, controller, slow, spurious, panic>>

NoRequest == [op |-> NONE, dev |-> 0, sector |-> NONE, data |-> NONE]
Init ==
  /\ kind \in [Device -> Kinds]
  /\ is_ata = [d \in Device |-> FALSE] /\ registered = {}
  /\ lock = NONE /\ expecting_interrupt = FALSE /\ completion_wait = 0
  /\ pc = [t \in Thread |-> IF t = Main THEN "check0" ELSE "startup"]
  /\ req = [t \in Thread |-> NoRequest]
  /\ busy = FALSE /\ drq = FALSE /\ cmd = NoRequest /\ irq = FALSE
  /\ disk \in [Device -> [Sector -> {CHOOSE d \in Data : TRUE}]]
  /\ slow = MaxSlow /\ spurious = MaxSpurious
  /\ panic = FALSE

Go(t, l) == pc' = [pc EXCEPT ![t] = l]

----------------------------------------------------------------------------
(* The controller, external                                                *)

\* Registers after a reset, for a disk, a disk whose slave has failed, a CD
\* drive, a master that has failed with its slave, and nothing at all.
Registers(d) ==
  CASE kind[d] = "ata"     -> [error |-> 1, lba |-> <<0, 0>>, drdy |-> TRUE, bsy |-> FALSE]
    [] kind[d] = "big"     -> [error |-> 1, lba |-> <<0, 0>>, drdy |-> TRUE, bsy |-> FALSE]
    [] kind[d] = "alone"   -> [error |-> 129, lba |-> <<60, 195>>, drdy |-> TRUE, bsy |-> FALSE]
    [] kind[d] = "atapi"   -> [error |-> 1, lba |-> <<20, 235>>, drdy |-> FALSE, bsy |-> FALSE]
    [] kind[d] = "dead"    -> [error |-> 129, lba |-> <<0, 0>>, drdy |-> FALSE, bsy |-> FALSE]
    [] OTHER               -> [error |-> 255, lba |-> <<255, 255>>, drdy |-> TRUE, bsy |-> TRUE]

\* The data of a read or of IDENTIFY is there; a write wants its data.
device_ready ==
  /\ busy /\ ~drq /\ cmd.data = NONE
  /\ busy' = FALSE /\ drq' = TRUE
  /\ irq' = (irq \/ cmd.op # "write")
  /\ UNCHANGED <<setup, channel, pc, req, cmd, disk, slow, spurious, panic>>

\* The data of a write is on the disk.
device_written ==
  /\ busy /\ cmd.op = "write" /\ cmd.data # NONE
  /\ disk' = [disk EXCEPT ![cmd.dev][cmd.sector] = cmd.data]
  /\ busy' = FALSE /\ cmd' = NoRequest /\ irq' = TRUE
  /\ UNCHANGED <<setup, channel, pc, req, drq, slow, spurious, panic>>

device_spurious ==
  /\ spurious > 0 /\ ~irq /\ spurious' = spurious - 1
  /\ irq' = TRUE
  /\ UNCHANGED <<setup, channel, pc, req, busy, drq, cmd, disk, slow, panic>>

----------------------------------------------------------------------------

\* Reading the status acknowledges the interrupt.
interrupt_handler ==
  /\ irq
  /\ irq' = FALSE
  /\ completion_wait' = IF expecting_interrupt THEN completion_wait + 1 ELSE completion_wait
  /\ UNCHANGED <<setup, lock, expecting_interrupt, pc, req, busy, drq, cmd, disk, slow, spurious, panic>>

check_device_type(d) ==
  LET r == Registers(d) IN
    IF (r.error # 1 /\ (r.error # 129 \/ d = 1)) \/ ~r.drdy \/ r.bsy
    THEN [is_ata |-> FALSE, slave |-> r.error # 129]
    ELSE [is_ata |-> r.lba \in {<<0, 0>>, <<60, 195>>}, slave |-> TRUE]

\* ide_init: device 1 is looked at only if device 0 allows for it.
ide_init(t) ==
  /\ pc[t] = "check0"
  /\ LET c0 == check_device_type(0)
     IN  is_ata' = [d \in Device |-> IF d = 0 THEN c0.is_ata ELSE c0.slave /\ check_device_type(1).is_ata]
  /\ Go(t, "identify0")
  /\ UNCHANGED <<kind, registered, channel, req, controller, slow, spurious, panic>>

After(t) == IF req[t].op # "identify" THEN "release" ELSE IF req[t].dev = 0 THEN "identify1" ELSE "started"

\* identify_ata_device of each disk; it runs before there are requests.
identify_ata_device(t, d) ==
  /\ pc[t] = (IF d = 0 THEN "identify0" ELSE "identify1")
  /\ req' = [req EXCEPT ![t] = [NoRequest EXCEPT !.op = "identify", !.dev = d]]
  /\ Go(t, IF is_ata[d] THEN "select" ELSE IF d = 0 THEN "identify1" ELSE "started")
  /\ UNCHANGED <<setup, channel, controller, slow, spurious, panic>>

started(t) ==
  /\ pc[t] = "started"
  /\ pc' = [x \in Thread |-> "idle"]
  /\ req' = [x \in Thread |-> NoRequest]
  /\ UNCHANGED <<setup, channel, controller, slow, spurious, panic>>

----------------------------------------------------------------------------
(* ide_read and ide_write, and identify_ata_device from the selection on   *)

request(t, op, d, s, v) ==
  /\ pc[t] = "idle" /\ d \in registered
  /\ req' = [req EXCEPT ![t] = [op |-> op, dev |-> d, sector |-> s, data |-> IF op = "read" THEN NONE ELSE v]]
  /\ Go(t, "acquire")
  /\ UNCHANGED <<setup, channel, controller, slow, spurious, panic>>

lock_acquire(t) ==
  /\ pc[t] = "acquire" /\ lock = NONE
  /\ lock' = t
  /\ Go(t, "select")
  /\ UNCHANGED <<setup, expecting_interrupt, completion_wait, req, controller, slow, spurious, panic>>

\* select_sector with select_device_wait.  wait_until_idle gives up after a
\* time and goes on; each status it reads clears a pending interrupt.
select_sector(t) ==
  /\ pc[t] = "select"
  /\ IF busy \/ drq THEN slow > 0 /\ slow' = slow - 1 ELSE UNCHANGED slow
  /\ irq' = FALSE
  /\ Go(t, "issue")
  /\ UNCHANGED <<setup, channel, req, busy, drq, cmd, disk, spurious, panic>>

\* A mistake: a write waits for an interrupt before it hands over its data.
issue_pio_command_Waits(t) ==
  /\ pc[t] = "issue"
  /\ expecting_interrupt' = TRUE
  /\ cmd' = [req[t] EXCEPT !.data = NONE]
  /\ busy' = TRUE /\ drq' = FALSE
  /\ Go(t, "wait")
  /\ UNCHANGED <<setup, lock, completion_wait, req, irq, disk, slow, spurious, panic>>

\* What a device makes of a command while it is busy is not known.
issue_pio_command(t) ==
  /\ pc[t] = "issue"
  /\ expecting_interrupt' = TRUE
  /\ \/ /\ cmd' = [req[t] EXCEPT !.data = NONE]
        /\ busy' = TRUE /\ drq' = FALSE
     \/ /\ busy
        /\ UNCHANGED <<cmd, busy, drq>>
  /\ Go(t, IF req[t].op = "write" THEN "busy" ELSE "wait")
  /\ UNCHANGED <<setup, lock, completion_wait, req, irq, disk, slow, spurious, panic>>

sema_down(t) ==
  /\ pc[t] \in {"wait", "written"} /\ completion_wait > 0
  /\ completion_wait' = completion_wait - 1
  /\ Go(t, IF pc[t] = "wait" THEN "busy" ELSE After(t))
  /\ UNCHANGED <<setup, lock, expecting_interrupt, req, controller, slow, spurious, panic>>

\* A mistake: the interrupt alone tells that the device is ready.
wait_while_busy_Not(t) ==
  /\ pc[t] = "busy"
  /\ Go(t, "transfer")
  /\ UNCHANGED <<setup, channel, req, controller, slow, spurious, panic>>

\* Poll until BSY is clear, or for 30 seconds; then DRQ must be set.
wait_while_busy(t) ==
  /\ pc[t] = "busy"
  /\ IF busy THEN slow > 0 /\ slow' = slow - 1 ELSE UNCHANGED slow
  /\ IF ~busy /\ drq THEN Go(t, "transfer") /\ UNCHANGED <<is_ata, panic>>
     ELSE IF req[t].op = "identify"
     THEN Go(t, After(t)) /\ is_ata' = [is_ata EXCEPT ![req[t].dev] = FALSE] /\ UNCHANGED panic
     ELSE panic' = TRUE /\ UNCHANGED <<pc, is_ata>>
  /\ UNCHANGED <<kind, registered, channel, req, controller, spurious>>

\* The end of identify_ata_device: a disk of 1 GB or more is not registered.
identified(t) ==
  /\ pc[t] = "transfer" /\ req[t].op = "identify"
  /\ LET d == req[t].dev
         fits == kind[d] # "big"
     IN  /\ registered' = IF fits THEN registered \cup {d} ELSE registered
         /\ is_ata' = [is_ata EXCEPT ![d] = fits]
  /\ drq' = FALSE /\ cmd' = NoRequest
  /\ Go(t, After(t))
  /\ UNCHANGED <<kind, channel, req, busy, irq, disk, slow, spurious, panic>>

input_sector(t) ==
  /\ pc[t] = "transfer" /\ req[t].op = "read"
  /\ req' = [req EXCEPT ![t].data = IF drq THEN disk[cmd.dev][cmd.sector] ELSE NONE]
  /\ drq' = FALSE /\ cmd' = NoRequest
  /\ Go(t, After(t))
  /\ UNCHANGED <<setup, channel, busy, irq, disk, slow, spurious, panic>>

output_sector(t) ==
  /\ pc[t] = "transfer" /\ req[t].op = "write"
  /\ cmd' = [cmd EXCEPT !.data = req[t].data]
  /\ busy' = TRUE /\ drq' = FALSE
  /\ Go(t, "written")
  /\ UNCHANGED <<setup, channel, req, irq, disk, slow, spurious, panic>>

lock_release(t) ==
  /\ pc[t] = "release"
  /\ lock' = NONE
  /\ Go(t, "idle")
  /\ req' = [req EXCEPT ![t] = NoRequest]
  /\ UNCHANGED <<setup, expecting_interrupt, completion_wait, controller, slow, spurious, panic>>

----------------------------------------------------------------------------

Step(t) ==
  \/ ide_init(t) \/ (\E d \in Device : identify_ata_device(t, d)) \/ started(t)
  \/ select_sector(t) \/ issue_pio_command(t) \/ sema_down(t) \/ wait_while_busy(t)
  \/ identified(t) \/ input_sector(t) \/ output_sector(t) \/ lock_release(t)

Request(t) == \E op \in {"read", "write"}, d \in Device, s \in Sector, v \in Data : request(t, op, d, s, v)

\* The rest of the kernel goes on, whatever happens here.
Elsewhere == UNCHANGED vars

Next ==
  \/ ~panic /\ \E t \in Thread : Step(t) \/ Request(t) \/ lock_acquire(t)
  \/ ~panic /\ (device_ready \/ device_written \/ device_spurious \/ interrupt_handler)
  \/ Elsewhere

\* Threads run, the device works and interrupts are taken.  The waiters for
\* the channel's lock are equals, and are served in turn.
Spec ==
  /\ Init /\ [][Next]_vars
  /\ \A t \in Thread : WF_vars(~panic /\ Step(t)) /\ SF_vars(~panic /\ lock_acquire(t))
  /\ WF_vars(~panic /\ device_ready) /\ WF_vars(~panic /\ device_written) /\ WF_vars(~panic /\ interrupt_handler)

----------------------------------------------------------------------------

\* ide_read gives its caller what the sector holds, also if an interrupt that
\* nobody caused has let it go on early: it polls before it takes the data.
\* ide_write returns only after "the disk has acknowledged receiving the data"
\* (ide.c:360), as long as no device raises interrupts for nothing.  ide_init
\* registers exactly the disks of less than 1 GB, a slave only if it is possible
\* that there is one.  A device that keeps to its time limits never makes a
\* request panic.
DiskData ==
  /\ \A t \in Thread :
       pc[t] = "release" /\ (req[t].op = "read" \/ spurious = MaxSpurious) =>
         req[t].data = disk[req[t].dev][req[t].sector]
  /\ (\E t \in Thread : pc[t] = "idle") =>
       registered = {d \in Device : \/ kind[d] = "ata" /\ (d = 1 => kind[0] # "dead")
                                    \/ kind[d] = "alone" /\ d = 0}
  /\ slow = MaxSlow => ~panic

\* Every request is completed.
Completes == \A t \in Thread : pc[t] = "acquire" ~> pc[t] = "idle"

=============================================================================
