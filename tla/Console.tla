------------------------------- MODULE Console -------------------------------
(***************************************************************************)
(* The console (lib/kernel/console.c) on the serial port: threads that     *)
(* write a buffer of Length characters under console_lock, and interrupt   *)
(* handlers that write without it.                                         *)
(*                                                                         *)
(* putbuf reads the buffer of a system call where it is.  A page that is   *)
(* not there ends the process in the middle: page_fault calls exit (-1),   *)
(* whose printf nests in the console lock.                                 *)
(***************************************************************************)
EXTENDS Serial, FiniteSets

CONSTANTS Length, HandlerBytes

VARIABLES
  holder,                   \* of console_lock
  console_lock_depth,
  frame,                    \* out, want (the lock), in, exit (nested printf), dead
  left,                     \* the characters that a thread still has to write
  author,                   \* the thread that wrote the last character
  handler_bytes             \* how many characters interrupt handlers have written

consoleVars == <<holder, console_lock_depth, frame, left, author, handler_bytes>>
allVars == <<vars, consoleVars>>

Enter(t, f, n) == frame' = [frame EXCEPT ![t] = f] /\ left' = [left EXCEPT ![t] = n]

putbuf(t) ==
  /\ frame[t] = "out" /\ mode = "QUEUE"
  /\ Enter(t, "want", Length)
  /\ UNCHANGED <<vars, holder, console_lock_depth, author, handler_bytes>>

\* A mistake: the lock is taken whoever holds it.
acquire_console_Unlocked(t) ==
  /\ frame[t] = "want"
  /\ holder' = t
  /\ Enter(t, "in", left[t])
  /\ UNCHANGED <<vars, console_lock_depth, author, handler_bytes>>

acquire_console(t) ==
  /\ frame[t] = "want" /\ holder = NULL
  /\ holder' = t
  /\ Enter(t, "in", left[t])
  /\ UNCHANGED <<vars, console_lock_depth, author, handler_bytes>>

\* Where serial_putc is done, the thread has written a character.
Written(t) ==
  /\ left' = [left EXCEPT ![t] = IF at'[t] = "idle" /\ ~panic' THEN @ - 1 ELSE @]
  /\ author' = IF left'[t] # left[t] THEN t ELSE author
  /\ UNCHANGED <<holder, console_lock_depth, frame, handler_bytes>>

putchar_have_lock(t) ==
  /\ frame[t] \in {"in", "exit"} /\ left[t] > 0
  /\ serial_putc(t) \/ serial_putc_woken(t)
  /\ Written(t)

\* The next character is on a page that cannot be brought in: exit (-1), and
\* in it acquire_console by the thread that holds the lock.
page_fault_exit(t) ==
  /\ frame[t] = "in" /\ left[t] > 0 /\ at[t] = "idle"
  /\ console_lock_depth' = console_lock_depth + 1
  /\ Enter(t, "exit", Length)
  /\ UNCHANGED <<vars, holder, author, handler_bytes>>

release_console(t) ==
  /\ frame[t] \in {"in", "exit"} /\ left[t] = 0
  /\ IF console_lock_depth > 0
     THEN console_lock_depth' = console_lock_depth - 1 /\ UNCHANGED holder
     ELSE holder' = NULL /\ UNCHANGED console_lock_depth
  /\ Enter(t, IF frame[t] = "in" THEN "out" ELSE "dead", 0)
  /\ UNCHANGED <<vars, author, handler_bytes>>

\* An interrupt handler prints, without the lock.
HandlerPrints ==
  /\ handler_bytes < HandlerBytes
  /\ serial_putc_off
  /\ handler_bytes' = handler_bytes + 1
  /\ UNCHANGED <<holder, console_lock_depth, frame, left, author>>

Port ==
  /\ serial_interrupt \/ uart_sent \/ init_poll \/ serial_init_queue
  /\ UNCHANGED consoleVars

ConsoleInit ==
  /\ Init
  /\ holder = NULL /\ console_lock_depth = 0
  /\ frame = [t \in Writer |-> "out"] /\ left = [t \in Writer |-> 0]
  /\ author = NULL /\ handler_bytes = 0

ConsoleNext ==
  \/ \E t \in Writer :
       \/ putbuf(t) \/ acquire_console(t) \/ putchar_have_lock(t) \/ release_console(t)
       \/ page_fault_exit(t)
  \/ HandlerPrints \/ Port
  \/ UNCHANGED allVars        \* the rest of the kernel goes on

ConsoleSpec == ConsoleInit /\ [][ConsoleNext]_allVars

----------------------------------------------------------------------------
(* Properties *)

\* The lock prevents "simultaneous printf() calls from mixing their output"
\* (console.c:16): after a thread's first character no other thread writes
\* one before its last, also if the thread is ended in the middle and prints
\* once more on its way out.  Behind the lock no second thread waits for the
\* queue's lock, and the assertions of intq.c hold.
MixesNothing ==
  /\ \A t \in Writer : author = t /\ author' # t => frame[t] \notin {"in", "exit"}
  /\ \A t \in Writer : frame'[t] \in {"in", "exit"} => holder' = t
  /\ ~panic' /\ \A t \in Writer : at'[t] # "lock"
Unmixed == [][MixesNothing]_allVars

==============================================================================
