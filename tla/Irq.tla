-------------------------------- MODULE Irq --------------------------------
(***************************************************************************)
(* Interrupts of the soft processor: alt_irq.h, alt_legacy_irq.h, the      *)
(* entry code of alt_exception_entry.S and alt_irq_entry.S, the dispatcher *)
(* of alt_irq_handler.c and the registration of alt_iic_isr_register.c     *)
(* (alt_irq_register.c is the same).  The program is interrupted between   *)
(* any two of its steps; a service routine may register, enable, disable   *)
(* and let itself be interrupted.  A routine's context is named after the  *)
(* routine, so that one called with another's can be told.                 *)
(***************************************************************************)
EXTENDS Integers, Sequences, FiniteSets

CONSTANTS Lines,      \* the interrupt numbers; 0 has the highest priority
          Isr,        \* the service routines
          Null,       \* no routine
          Within,     \* what service routines do: subset of
                      \* {"enable", "disable", "register", "nest"}
          Withdraws,  \* whether a device may withdraw its interrupt
          MaxRaise,   \* bound: interrupts raised
          MaxCalls    \* bound: calls made by a routine, or in a piece of the
                      \* program interrupts are kept out of

ASSUME IrqAssumption ==
  /\ IsFiniteSet(Lines) /\ Lines # {}
  /\ Lines \subseteq Nat /\ Lines = 0 .. Cardinality(Lines) - 1
  /\ Null \notin Isr
  /\ Within \subseteq {"enable", "disable", "register", "nest"}
  /\ Withdraws \in BOOLEAN /\ MaxRaise \in Nat /\ MaxCalls \in Nat

VARIABLES pie,               \* the status register
          ienable,           \* the register of enabled interrupts
          alt_irq_active,    \* the interrupts that have been enabled
          alt_priority_mask,
          handler, context,  \* alt_irq
          asserted, raised,  \* the devices' lines
          frames             \* the program, and the dispatchers on top of it

masks == <<ienable, alt_irq_active, alt_priority_mask>>
table == <<handler, context>>
devices == <<asserted, raised>>
vars == <<pie, masks, table, devices, frames>>

\* What is under way: where it is, which line it serves, the status it
\* interrupted, the contexts its calls of alt_irq_disable_all hold, the call
\* it makes, the priorities it has replaced, and the calls it has made.
Frame(pc, status) ==
  [pc |-> pc, line |-> -1, estatus |-> status, contexts |-> <<>>,
   call |-> "none", id |-> 0, isr |-> Null, old |-> <<>>, calls |-> 0]

Init == /\ pie = TRUE /\ ienable = {} /\ alt_irq_active = {}
        /\ alt_priority_mask = Lines
        /\ handler = [i \in Lines |-> Null] /\ context = handler
        /\ asserted = {} /\ raised = 0
        /\ frames = <<Frame("runs", FALSE)>>

ipending == asserted \cap ienable
depth == Len(frames)
top == frames[depth]
Top(f) == frames' = [frames EXCEPT ![depth] = f]
Go(pc) == Top([top EXCEPT !.pc = pc])
InProgram == depth = 1
Lowest(S) == CHOOSE i \in S : \A j \in S : i <= j

Raise(i) == /\ i \notin asserted /\ raised < MaxRaise
            /\ asserted' = asserted \cup {i} /\ raised' = raised + 1
            /\ UNCHANGED <<pie, masks, table, frames>>
Withdraw(i) == /\ Withdraws /\ i \in asserted
               /\ asserted' = asserted \ {i}
               /\ UNCHANGED <<pie, masks, table, raised, frames>>

-----------------------------------------------------------------------------
(* The calls, of the program and of service routines.                      *)

\* A service routine, and a piece of the program interrupts are kept out of,
\* make a few calls and end.
Free == top.pc = "runs" /\ top.calls < MaxCalls
Counted == IF InProgram /\ top.contexts = <<>> THEN 0 ELSE top.calls + 1
May(call) == InProgram \/ call \in Within

\* alt_irq_disable_all and alt_irq_enable_all.
DisableAll(f) == /\ Top([f EXCEPT !.contexts = <<pie>> \o @])
                 /\ pie' = FALSE
EnableAllAlways(f) == /\ Top([f EXCEPT !.contexts = Tail(@)])
                      /\ pie' = TRUE
EnableAll(f) == /\ Top([f EXCEPT !.contexts = Tail(@)])
                /\ pie' = Head(f.contexts)

Begin(call, pc, i, h) ==
  /\ Free /\ May(call)
  /\ DisableAll([top EXCEPT !.pc = pc, !.call = call, !.id = i, !.isr = h,
                            !.calls = Counted])
  /\ UNCHANGED <<masks, table, devices>>
\* Programs enable only what they have registered a routine for.
Enable(i) == handler[i] # Null /\ Begin("enable", "active", i, Null)
Disable(i) == Begin("disable", "active", i, Null)
Register(i, h) == Begin("register", "handler", i, h)
\* The call of the enhanced API.
alt_ic_isr_register(i, h) == Register(i, h)
SetHandler == /\ top.pc = "handler"
              /\ handler' = [handler EXCEPT ![top.id] = top.isr]
              /\ Go("context")
              /\ UNCHANGED <<pie, masks, context, devices>>
SetContext == /\ top.pc = "context"
              /\ context' = [context EXCEPT ![top.id] = top.isr]
              /\ DisableAll([top EXCEPT !.pc = "active"])
              /\ UNCHANGED <<masks, handler, devices>>
SetActive ==
  /\ top.pc = "active"
  /\ alt_irq_active' =
       IF top.call = "enable" \/ (top.call = "register" /\ top.isr # Null)
       THEN alt_irq_active \cup {top.id} ELSE alt_irq_active \ {top.id}
  /\ Go("ienable")
  /\ UNCHANGED <<pie, ienable, alt_priority_mask, table, devices>>
SetIenableMasked == /\ top.pc = "ienable"
                    /\ ienable' = alt_irq_active \cup ienable
                    /\ Go("restore")
                    /\ UNCHANGED <<pie, alt_irq_active, alt_priority_mask>>
                    /\ UNCHANGED <<table, devices>>
SetIenable == /\ top.pc = "ienable"
              /\ ienable' = alt_irq_active
              /\ Go("restore")
              /\ UNCHANGED <<pie, alt_irq_active, alt_priority_mask, table,
                             devices>>
Restore ==
  /\ top.pc = "restore"
  /\ EnableAll(IF top.call = "register" THEN [top EXCEPT !.call = "enable"]
               ELSE [top EXCEPT !.pc = "runs", !.call = "none"])
  /\ UNCHANGED <<masks, table, devices>>

\* The program also keeps interrupts out of pieces of its own, nested ones.
Enter == /\ InProgram /\ Free /\ Len(top.contexts) < 2
         /\ DisableAll([top EXCEPT !.calls = Counted])
         /\ UNCHANGED <<masks, table, devices>>
Leave == /\ InProgram /\ top.pc = "runs" /\ top.contexts # <<>>
         /\ EnableAll([top EXCEPT !.calls = IF Len(top.contexts) = 1 THEN 0
                                             ELSE @])
         /\ UNCHANGED <<masks, table, devices>>

\* alt_irq_interruptible and alt_irq_non_interruptible.
Higher(i) == {j \in Lines : j < i}
Interruptible ==
  /\ ~ InProgram /\ "nest" \in Within /\ Free /\ top.old = <<>>
  /\ Top([top EXCEPT !.old = <<alt_priority_mask>>, !.calls = @ + 1])
  /\ alt_priority_mask' = Higher(top.line)
  /\ ienable' = alt_irq_active \cap Higher(top.line)
  /\ pie' = TRUE
  /\ UNCHANGED <<alt_irq_active, table, devices>>
NonInterruptible ==
  /\ top.pc \in {"runs", "served"} /\ top.old # <<>>
  /\ Top([top EXCEPT !.old = <<>>])
  /\ pie' = FALSE
  /\ alt_priority_mask' = top.old[1]
  /\ ienable' = top.old[1] \cap alt_irq_active
  /\ UNCHANGED <<alt_irq_active, table, devices>>

-----------------------------------------------------------------------------
(* The dispatcher.                                                         *)

Interrupt == /\ pie /\ ipending # {}
             /\ frames' = Append(frames, Frame("test", pie))
             /\ pie' = FALSE
             /\ UNCHANGED <<masks, table, devices>>
\* Interrupts were off, or nothing is pending any more: it is taken for an
\* instruction exception.
TestIrq == /\ top.pc = "test"
           /\ Go(IF top.estatus /\ ipending # {} THEN "pending" ELSE "unknown")
           /\ UNCHANGED <<pie, masks, table, devices>>
\* alt_irq_pending, and the search for the lowest bit that is set: it never
\* ends when there is none.
FirstPending ==
  /\ top.pc = "pending"
  /\ Top(IF ipending = {} THEN [top EXCEPT !.pc = "lost"]
         ELSE [top EXCEPT !.pc = "call", !.line = Lowest(ipending)])
  /\ UNCHANGED <<pie, masks, table, devices>>
Call == /\ top.pc = "call"
        /\ Top([top EXCEPT !.pc = "runs", !.calls = 0])
        /\ UNCHANGED <<pie, masks, table, devices>>
\* A service routine sees to its device, and returns non-interruptible.
Serve == /\ ~ InProgram /\ top.pc = "runs"
         /\ asserted' = asserted \ {top.line}
         /\ Go("served")
         /\ UNCHANGED <<pie, masks, table, raised>>
Return == /\ top.pc = "served" /\ top.old = <<>>
          /\ Go("again")
          /\ UNCHANGED <<pie, masks, table, devices>>
NextPendingStale ==
  /\ top.pc = "again"
  /\ Go(IF top.line \notin alt_irq_active THEN "exit" ELSE "call")
  /\ UNCHANGED <<pie, masks, table, devices>>
NextPending ==
  /\ top.pc = "again"
  /\ Top(IF ipending = {} THEN [top EXCEPT !.pc = "exit"]
         ELSE [top EXCEPT !.pc = "call", !.line = Lowest(ipending)])
  /\ UNCHANGED <<pie, masks, table, devices>>
Eret == /\ top.pc = "exit"
        /\ frames' = SubSeq(frames, 1, depth - 1)
        /\ pie' = top.estatus
        /\ UNCHANGED <<masks, table, devices>>

Calls == \/ \E i \in Lines : Enable(i) \/ Disable(i)
         \/ \E i \in Lines, h \in Isr \cup {Null} : alt_ic_isr_register(i, h)
         \/ Enter \/ Interruptible
GoOn == \/ SetHandler \/ SetContext \/ SetActive \/ SetIenable \/ Restore
        \/ Leave \/ NonInterruptible
        \/ TestIrq \/ FirstPending \/ Call \/ Serve \/ Return \/ NextPending
        \/ Eret
Devices == \E i \in Lines : Raise(i) \/ Withdraw(i)
Next == Calls \/ GoOn \/ Interrupt \/ Devices
Spec == Init /\ [][Next]_vars
\* The processor goes on, and takes an interrupt it sees over and over.
FairSpec == Spec /\ WF_vars(GoOn) /\ SF_vars(Interrupt)
-----------------------------------------------------------------------------
Pcs == {"runs", "handler", "context", "active", "ienable", "restore", "test",
        "unknown", "pending", "lost", "call", "served", "again", "exit"}
TypeOK ==
  /\ pie \in BOOLEAN
  /\ {ienable, alt_irq_active, alt_priority_mask, asserted} \subseteq
       SUBSET Lines
  /\ handler \in [Lines -> Isr \cup {Null}]
  /\ context \in [Lines -> Isr \cup {Null}]
  /\ raised \in Nat
  /\ depth \in 1 .. Cardinality(Lines) + 1
  /\ \A n \in 1 .. depth : frames[n].pc \in Pcs

\* Interrupts are on exactly where the code that runs has not turned them off,
\* however its calls are nested and whatever has interrupted it: a routine's
\* calls never turn them on under the dispatcher.
PieIsRight == pie <=> /\ top.contexts = <<>>
                      /\ IF InProgram THEN TRUE ELSE top.old # <<>>

\* Between calls the register holds what is enabled and not masked, and out of
\* interrupts nothing is masked: no interrupt is left off.
EnabledAgree ==
  /\ top.pc \notin {"ienable"} => ienable = alt_irq_active \cap alt_priority_mask
  /\ InProgram => alt_priority_mask = Lines

\* The dispatcher never calls a line that has no routine, nor a routine with
\* another's context.
NoWildCall == top.pc = "call" => /\ handler[top.line] # Null
                                 /\ context[top.line] = handler[top.line]

\* alt_legacy_irq.h:103 says of alt_irq_interruptible: "It is used to allow
\* higer priority interrupts to interrupt the current ISR."
OnlyHigherNests ==
  \A m, n \in 2 .. depth :
    m < n /\ frames[n].line # -1 => frames[n].line < frames[m].line

\* The four together, where a service routine that lets itself be interrupted
\* makes no other call (alt_irq_enable and the rest write ienable without
\* alt_priority_mask, so they unmask what alt_irq_interruptible has masked):
\* the dispatcher calls what is registered, with its context, no interrupt is
\* left masked, and only higher priorities interrupt a routine.
Gentle == "nest" \in Within => Within = {"nest"}
DispatchesRight == TypeOK /\ EnabledAgree /\ NoWildCall /\ OnlyHigherNests

\* alt_irq_handler.c:117 says: "This process loops, loading the active interrupt
\* list on each pass until alt_irq_pending() return zero."
EndsOnZero == top.pc # "lost"

\* Who is interrupted goes on some time.
HandlerReturns ==
  \A n \in 1 .. Cardinality(Lines) : depth > n ~> depth <= n

\* An enabled device that raises its interrupt is served, unless disabled.
IsServed == \A i \in Lines : i \in asserted \cap alt_irq_active ~>
                               i \notin asserted \cap alt_irq_active
=============================================================================
