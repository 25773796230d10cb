----------------------------- MODULE Interrupts -----------------------------
(***************************************************************************)
(* Interrupt dispatch of threads/interrupt.c: external interrupts through  *)
(* the two interrupt controllers, system calls and page faults, on a       *)
(* processor that several threads share. A thread may yield at the end of  *)
(* an interrupt and return from it much later, after others took           *)
(* interrupts of their own.                                                *)
(***************************************************************************)
EXTENDS Integers, Sequences

CONSTANTS
  Thread,
  External          \* vectors of devices, 32 to 39 of the master, 40 to 47 of the slave

\* Vectors of internal interrupts, numbers too.
PAGE_FAULT == 14
SYSTEM_CALL == 48

VARIABLES
  current,
  level,            \* the interrupt flag of the processor: TRUE is INTR_ON
  frames,           \* the interrupts that each thread is in, the latest first
  old_level,        \* where a thread has disabled interrupts: <<the level before>>
  in_external_intr, yield_on_return,
  pending, in_service,     \* of the interrupt controllers
  asked,            \* history: the present handler wants the thread to yield
  panic             \* an assertion has failed

vars == <<current, level, frames, old_level, in_external_intr, yield_on_return, pending, in_service, asked, panic>>
external == <<in_external_intr, yield_on_return, pending, in_service, asked>>

\* A thread that does not run has disabled interrupts and called schedule.
Init ==
  /\ current \in Thread /\ level = TRUE
  /\ frames = [t \in Thread |-> << >>]
  /\ old_level = [t \in Thread |-> IF t = current THEN << >> ELSE <<TRUE>>]
  /\ in_external_intr = FALSE /\ yield_on_return = FALSE
  /\ pending = {} /\ in_service = {}
  /\ asked = FALSE /\ panic = FALSE

Top == Head(frames[current])
InHandler(vec) == frames[current] # << >> /\ Top.vec = vec
Push(vec, at) == frames' = [frames EXCEPT ![current] = <<[vec |-> vec, eflags |-> level, at |-> at]>> \o @]
Continue(at) == frames' = [frames EXCEPT ![current][1].at = at]
ASSERT(condition) == panic' = (panic \/ ~condition)

\* The running thread is in ordinary code, its own or that of a handler.
InCode == old_level[current] = << >> /\ (frames[current] # << >> => Top.at = "handler")

intr_disable ==
  /\ InCode
  /\ old_level' = [old_level EXCEPT ![current] = <<level>>]
  /\ level' = FALSE
  /\ UNCHANGED <<current, frames, external, panic>>

restored(l) == l

\* With what intr_disable returned.
intr_set_level ==
  /\ old_level[current] # << >>
  /\ level' = restored(Head(old_level[current]))
  /\ ASSERT(level' => ~in_external_intr)
  /\ old_level' = [old_level EXCEPT ![current] = << >>]
  /\ UNCHANGED <<current, frames, external>>

\* The processor runs thread t next, which is somewhere in schedule; the caller
\* goes on there when it is its turn.
Switch(t) ==
  /\ current' = t
  /\ level' = FALSE
  /\ old_level' = [old_level EXCEPT ![current] = <<level>>]

\* Outside interrupt handlers of devices.
thread_yield(t) ==
  /\ InCode /\ ~in_external_intr
  /\ Switch(t)
  /\ UNCHANGED <<frames, external, panic>>

\* A trap gate leaves the level alone.
system_call ==
  /\ frames[current] = << >> /\ old_level[current] = << >>
  /\ Push(SYSTEM_CALL, "handler")
  /\ UNCHANGED <<current, level, old_level, external, panic>>

\* In the user's code or in a system call; an interrupt gate.
page_fault ==
  /\ level /\ (frames[current] # << >> => InHandler(SYSTEM_CALL))
  /\ Push(PAGE_FAULT, "entry")
  /\ level' = FALSE
  /\ UNCHANGED <<current, old_level, external, panic>>

page_fault_enable ==
  /\ InHandler(PAGE_FAULT) /\ Top.at = "entry" /\ old_level[current] = << >>
  /\ Continue("handler")
  /\ level' = TRUE
  /\ ASSERT(~in_external_intr)
  /\ UNCHANGED <<current, old_level, external>>

\* A device requests an interrupt.
Raise(v) ==
  /\ pending' = pending \cup {v}
  /\ UNCHANGED <<current, level, frames, old_level, in_external_intr, yield_on_return, in_service, asked, panic>>

\* The slave controller is on the third line of the master.
Slave(v) == v >= 40
Cascade == 34
line(v) == IF Slave(v) THEN Cascade ELSE v
Lines(v) == {line(v), v}

\* The controllers present the first request that no interrupt in service
\* precedes, on the master or on its own controller; the processor takes it if
\* the level allows.
Presented(v) ==
  /\ v \in pending /\ level
  /\ \A w \in pending \ {v} : line(v) < line(w) \/ (line(v) = line(w) /\ v < w)
  /\ \A w \in in_service : IF Slave(w) THEN Slave(v) => v < w ELSE line(v) < w

\* A mistake: what the last handler wanted is not forgotten.
yield_at_entry_Kept == yield_on_return

yield_at_entry == FALSE

\* intr_handler up to the call of the handler.
intr_handler(v) ==
  /\ Presented(v)
  /\ pending' = pending \ {v} /\ in_service' = in_service \cup Lines(v)
  /\ Push(v, "handler")
  /\ level' = FALSE
  /\ ASSERT(~in_external_intr)
  /\ in_external_intr' = TRUE /\ yield_on_return' = yield_at_entry /\ asked' = FALSE
  /\ UNCHANGED <<current, old_level>>

InExternal == InCode /\ frames[current] # << >> /\ Top.vec \in External

intr_yield_on_return ==
  /\ InExternal
  /\ ASSERT(in_external_intr)
  /\ yield_on_return' = TRUE /\ asked' = TRUE
  /\ UNCHANGED <<current, level, frames, old_level, in_external_intr, pending, in_service>>

\* A controller forgets the first interrupt that it has in service.
Acknowledged(s) == {w \in s : \E x \in s : x < w}

\* A mistake: a thread that yields acknowledges the interrupt when it returns.
pic_end_of_interrupt_Late(v) == IF yield_on_return THEN in_service ELSE in_service \ Lines(v)

\* To the master, and to the slave if the interrupt came from there.
pic_end_of_interrupt(v) ==
  LET slave == {w \in in_service : Slave(w)}
  IN  Acknowledged(in_service \ slave) \cup (IF Slave(v) THEN Acknowledged(slave) ELSE slave)

\* intr_handler after the handler has returned.
intr_handler_end ==
  /\ InExternal
  /\ ASSERT(~level /\ in_external_intr)
  /\ in_external_intr' = FALSE
  /\ in_service' = pic_end_of_interrupt(Top.vec)
  /\ Continue("return")
  /\ IF yield_on_return THEN \E t \in Thread : Switch(t)
     ELSE UNCHANGED <<current, level, old_level>>
  /\ UNCHANGED <<yield_on_return, pending, asked>>

\* intr_exit of intr-stubs.S.
intr_exit ==
  /\ frames[current] # << >> /\ old_level[current] = << >>
  /\ Top.at = (IF Top.vec \in External THEN "return" ELSE "handler")
  /\ level' = Top.eflags
  /\ frames' = [frames EXCEPT ![current] = Tail(@)]
  /\ UNCHANGED <<current, old_level, external, panic>>

Next ==
  \/ intr_disable \/ intr_set_level \/ system_call \/ page_fault \/ page_fault_enable
  \/ intr_yield_on_return \/ intr_handler_end \/ intr_exit
  \/ \E t \in Thread : thread_yield(t)
  \/ \E v \in External : Raise(v) \/ intr_handler(v)

\* The processor goes on, handlers of devices end, and the processor does not
\* for ever ignore a request that it is again and again able to take.
Spec ==
  /\ Init /\ [][Next]_vars
  /\ WF_vars(intr_set_level) /\ WF_vars(page_fault_enable)
  /\ SF_vars(intr_handler_end) /\ WF_vars(intr_exit /\ ~level)
  /\ \A v \in External : SF_vars(intr_handler(v))

----------------------------------------------------------------------------

\* While a device's handler runs it is the only one, on the stack of the
\* running thread, with interrupts off; and whenever none runs every interrupt
\* has been acknowledged, at both controllers, also if the thread that took it
\* yielded.  The thread is going to yield if, and only if, this very handler
\* asked for it.  No assertion about the interrupt level or context fails.
OneAtATime ==
  /\ in_external_intr => ~level /\ in_service = Lines(Top.vec) /\ Top.at = "handler" /\ yield_on_return = asked
  /\ ~in_external_intr => in_service = {}
  /\ ~panic

\* The interrupt with the highest priority, the timer, is taken some time after
\* each request, whatever the threads do with the interrupt level.
TimerServed == \A v \in External : (\A w \in External : v <= w) => (v \in pending ~> v \notin pending)
=============================================================================
