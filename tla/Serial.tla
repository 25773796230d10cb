------------------------------- MODULE Serial -------------------------------
(***************************************************************************)
(* The serial port (devices/serial.c), the input buffer (devices/input.c)  *)
(* and the keyboard handler's use of it (devices/kbd.c).                   *)
(*                                                                         *)
(* Threads read from buffer and write to txq; the handlers fill the one    *)
(* and drain the other.  Bytes are numbered, modulo Labels, in the order   *)
(* they are accepted, so that lost, doubled and swapped bytes can be told. *)
(* thr is the byte in the transmitter and rbr the one in the receiver of   *)
(* the UART, NULL if there is none.                                        *)
(***************************************************************************)
EXTENDS Intq

CONSTANTS
  Reader, Writer,
  Labels        \* more than INTQ_BUFSIZE

VARIABLES
  mode,         \* UNINIT, POLL or QUEUE
  txq, buffer,
  ier,          \* the interrupts that are enabled
  thr, rbr,
  at,           \* where a thread is: idle, waiting for the queue's lock or blocked
  accepted,     \* the last byte that serial_putc has taken
  sent,         \* the last byte that left the port
  received,     \* the last byte that was put into buffer
  delivered,    \* the last byte that input_getc returned
  panic

txVars == <<txq, thr, accepted, sent>>
rxVars == <<buffer, rbr, received, delivered>>
vars == <<mode, txVars, rxVars, ier, at, panic>>

Succ(n) == (n + 1) % Labels
Go(t, l) == at' = [at EXCEPT ![t] = l]
Panic == panic' = TRUE /\ UNCHANGED <<mode, txVars, rxVars, ier, at>>

\* write_ier for the mode and the queues that the caller leaves; serial_notify
\* calls it in mode QUEUE only.
write_ier(m, q, in) ==
  ier' = IF m # "QUEUE" THEN ier ELSE
           (IF ~intq_empty(q) THEN {"xmit"} ELSE {}) \cup (IF ~intq_full(in) THEN {"recv"} ELSE {})

----------------------------------------------------------------------------
(* Transmission *)

init_poll ==
  /\ mode = "UNINIT"
  /\ mode' = "POLL" /\ ier' = {}
  /\ UNCHANGED <<txVars, rxVars, at, panic>>

serial_init_queue ==
  /\ mode = "POLL"
  /\ mode' = "QUEUE"
  /\ write_ier("QUEUE", txq, buffer)
  /\ UNCHANGED <<txVars, rxVars, at, panic>>

\* putc_poll: waits until the transmitter is empty, then gives it the byte.
putc_poll(byte) == thr' = byte /\ sent' = IF thr = NULL THEN sent ELSE thr

serial_putc_poll ==
  /\ mode = "POLL"
  /\ putc_poll(Succ(accepted))
  /\ accepted' = Succ(accepted)
  /\ UNCHANGED <<mode, txq, ier, rxVars, at, panic>>

\* serial_putc has put its byte into q, which becomes txq.
Queued(q) ==
  /\ txq' = Putc(q, Succ(accepted))
  /\ accepted' = Succ(accepted)
  /\ write_ier(mode, txq', buffer)
  /\ UNCHANGED <<mode, rxVars, panic>>

\* A mistake: the byte is sent past the ones that are queued.
serial_putc_off_Past ==
  /\ mode = "QUEUE"
  /\ IF intq_full(txq)
     THEN /\ putc_poll(Succ(accepted))
          /\ accepted' = Succ(accepted)
          /\ UNCHANGED <<txq, mode, rxVars, ier, panic>>
     ELSE Queued(txq) /\ UNCHANGED <<thr, sent>>
  /\ UNCHANGED at

\* serial_putc called with interrupts off, as by an interrupt handler.
serial_putc_off ==
  /\ mode = "QUEUE"
  /\ IF intq_full(txq)
     THEN putc_poll(Front(txq)) /\ Queued(Getc(txq))
     ELSE Queued(txq) /\ UNCHANGED <<thr, sent>>
  /\ UNCHANGED at

\* The loop of intq_putc, with interrupts off, in thread t and queue q; it
\* ends with the byte in the queue, or with t blocked or waiting for the lock.
PutcLoop(t, q) ==
  /\ \/ ~intq_full(q) /\ Queued(q) /\ Go(t, "idle")
     \/ /\ intq_full(q)
        /\ IF q.holder = NULL
           THEN txq' = WaitNotFull(q, t) /\ Go(t, "blocked")
           ELSE txq' = q /\ Go(t, "lock")
        /\ UNCHANGED <<mode, rxVars, ier, accepted, panic>>
  /\ UNCHANGED <<thr, sent>>

serial_putc(t) ==
  /\ mode = "QUEUE" /\ at[t] = "idle"
  /\ PutcLoop(t, txq)

serial_putc_locked(t) ==
  /\ at[t] = "lock" /\ txq.holder = NULL
  /\ IF intq_full(txq)
     THEN /\ txq' = WaitNotFull(txq, t) /\ Go(t, "blocked")
          /\ UNCHANGED <<mode, rxVars, ier, thr, accepted, sent, panic>>
     ELSE Panic

serial_putc_woken(t) ==
  /\ at[t] = "blocked" /\ txq.not_full # t
  /\ PutcLoop(t, Release(txq))

\* serial_flush sends what is queued; it does not touch the interrupts.
serial_flush ==
  /\ ~intq_empty(txq)
  /\ txq' = [intq_init EXCEPT !.head = txq.head, !.tail = txq.head, !.holder = txq.holder]
  /\ sent' = (accepted - 1) % Labels /\ thr' = accepted
  /\ UNCHANGED <<mode, accepted, rxVars, ier, at, panic>>

----------------------------------------------------------------------------
(* Reception *)

\* A key that stands for a character; when the buffer is full it is dropped.
keyboard_interrupt ==
  /\ ~intq_full(buffer)
  /\ buffer' = Putc(buffer, Succ(received))
  /\ received' = Succ(received)
  /\ write_ier(mode, txq, buffer')
  /\ UNCHANGED <<mode, txVars, rbr, delivered, at, panic>>

\* The loop of intq_getc in thread t, as PutcLoop, and serial_notify after it.
GetcLoop(t, q) ==
  /\ \/ /\ ~intq_empty(q)
        /\ delivered' = Front(q)
        /\ buffer' = Getc(q)
        /\ write_ier(mode, txq, buffer')
        /\ Go(t, "idle")
     \/ /\ intq_empty(q)
        /\ IF q.holder = NULL
           THEN buffer' = WaitNotEmpty(q, t) /\ Go(t, "blocked")
           ELSE buffer' = q /\ Go(t, "lock")
        /\ UNCHANGED <<ier, delivered>>
  /\ UNCHANGED <<mode, txVars, rbr, received, panic>>

input_getc(t) == at[t] = "idle" /\ GetcLoop(t, buffer)

\* The thread gets the lock of the queue; wait() asserts that it is empty.
input_getc_locked(t) ==
  /\ at[t] = "lock" /\ buffer.holder = NULL
  /\ IF intq_empty(buffer)
     THEN /\ buffer' = WaitNotEmpty(buffer, t) /\ Go(t, "blocked")
          /\ UNCHANGED <<mode, txVars, rbr, received, delivered, ier, panic>>
     ELSE Panic

input_getc_woken(t) ==
  /\ at[t] = "blocked" /\ buffer.not_empty # t
  /\ GetcLoop(t, Release(buffer))

\* Receives a byte if there is one and room for it, sends one if there is one
\* and the transmitter is free.
serial_interrupt ==
  /\ mode = "QUEUE"
  /\ ("recv" \in ier /\ rbr # NULL) \/ ("xmit" \in ier /\ thr = NULL)
  /\ IF ~intq_full(buffer) /\ rbr # NULL
     THEN buffer' = Putc(buffer, Succ(received)) /\ received' = Succ(received) /\ rbr' = NULL
     ELSE UNCHANGED <<buffer, received, rbr>>
  /\ IF ~intq_empty(txq) /\ thr = NULL
     THEN thr' = Front(txq) /\ txq' = Getc(txq)
     ELSE UNCHANGED <<thr, txq>>
  /\ write_ier(mode, txq', buffer')
  /\ UNCHANGED <<mode, accepted, sent, delivered, at, panic>>

\* The UART: a byte has left the transmitter, or has arrived.
uart_sent ==
  /\ thr # NULL
  /\ thr' = NULL /\ sent' = thr
  /\ UNCHANGED <<mode, txq, accepted, rxVars, ier, at, panic>>

uart_received ==
  /\ rbr = NULL
  /\ rbr' = "byte"
  /\ UNCHANGED <<mode, txVars, buffer, received, delivered, ier, at, panic>>

----------------------------------------------------------------------------

Init ==
  /\ mode = "UNINIT"
  /\ txq = intq_init /\ buffer = intq_init
  /\ ier = {}
  /\ thr = NULL /\ rbr = NULL
  /\ at = [t \in Reader \cup Writer |-> "idle"]
  /\ accepted = 0 /\ sent = 0 /\ received = 0 /\ delivered = 0
  /\ panic = FALSE

\* What a thread or a device does without being asked to.
Step ==
  \/ serial_interrupt \/ uart_sent
  \/ \E t \in Writer : serial_putc_locked(t) \/ serial_putc_woken(t)
  \/ \E t \in Reader : input_getc_locked(t) \/ input_getc_woken(t)

\* The rest of the kernel goes on, or it has stopped.
Elsewhere == UNCHANGED vars

Next ==
  \/ Elsewhere
  \/ /\ ~panic
     /\ \/ Step
        \/ init_poll \/ serial_init_queue \/ serial_putc_poll \/ serial_putc_off \/ serial_flush
        \/ keyboard_interrupt \/ uart_received
        \/ \E t \in Writer : serial_putc(t)
        \/ \E t \in Reader : input_getc(t)

\* The UART goes on sending, the processor takes its interrupts, and a thread
\* that is ready runs.
Spec ==
  /\ Init /\ [][Next]_vars
  /\ WF_vars(~panic /\ serial_interrupt) /\ WF_vars(~panic /\ uart_sent)
  /\ \A t \in Writer : WF_vars(~panic /\ (serial_putc_locked(t) \/ serial_putc_woken(t)))
  /\ \A t \in Reader : WF_vars(~panic /\ (input_getc_locked(t) \/ input_getc_woken(t)))

----------------------------------------------------------------------------
(* Properties *)

\* What serial_putc takes leaves the port in that order, nothing lost and
\* nothing twice, though threads queue bytes, handlers send them, and
\* serial_putc and serial_flush poll in between; and the readers get what
\* arrives in the order of the interrupts.
BytesInOrder ==
  LET transmitter == IF thr = NULL THEN <<>> ELSE <<thr>>
  IN  /\ transmitter \o Content(txq) = [i \in 1 .. (accepted - sent) % Labels |-> (sent + i) % Labels]
      /\ Content(buffer) = [i \in 1 .. (received - delivered) % Labels |-> (delivered + i) % Labels]

Sending(n) == mode = "QUEUE" /\ ~intq_empty(txq) /\ txq.tail = n
ReaderMayGo(t) == at[t] = "blocked" /\ ~intq_empty(buffer)
WriterMayGo(t) == at[t] = "blocked" /\ ~intq_full(txq)

\* The port goes on sending as long as something is queued, and no wakeup is
\* lost: a blocked thread goes on once there is a byte, or room for one, unless
\* another thread was faster.
SerialProgress ==
  /\ \A n \in 0 .. INTQ_BUFSIZE - 1 : Sending(n) ~> txq.tail # n \/ panic
  /\ \A t \in Reader : ReaderMayGo(t) ~> at[t] = "idle" \/ intq_empty(buffer) \/ panic
  /\ \A t \in Writer : WriterMayGo(t) ~> at[t] = "idle" \/ intq_full(txq) \/ panic

==============================================================================
