---------------------------- MODULE MCProcessor ----------------------------
(***************************************************************************)
(* The exception code of the soft processor.  Its parts, the dispatching   *)
(* of interrupts, the way back to the interrupted instruction and the      *)
(* emulation of what the core lacks, are modelled with registers of their  *)
(* own, so that a behaviour is one of one part, chosen at the start: the   *)
(* others stay as they are.                                                *)
(***************************************************************************)
EXTENDS Irq

CONSTANTS h1, h2
Routines == {h1, h2}
Two == 0 .. 1
Making == {"enable", "disable", "register"}

VARIABLES part,
          program, pcounter, pc, ea, slot72, interrupt, interrupts, registered,
          PIE, executed, answered,
          instr, before, regs, slot, r3, r6, r9, r10, r11, r12, r13, r14, r17

exceptions == <<program, pcounter, pc, ea, slot72, interrupt, interrupts,
                registered, PIE, executed, answered>>
registers == <<instr, before, regs, slot, r3, r6, r9, r10, r11, r12, r13, r14, r17>>
everything == <<vars, part, exceptions, registers>>
Off(x) == x = 0

\* Irq itself has routines that register, enable and disable; here are some that
\* let themselves be interrupted.
Nesting == INSTANCE Irq WITH
             Isr <- {h1}, Within <- {"nest"}, Withdraws <- FALSE, MaxRaise <- 4

CONSTANTS Length, Api,               \* of Exceptions
          Width, PushedBytes, Met    \* of MulDiv
X == INSTANCE Exceptions WITH ipending <- interrupt, raised <- interrupts

\* Every instruction with every pair of operands, and every instruction with
\* every choice of registers when each holds another value.
Registers == {"r0", "r2", "r16", "et", "bt", "gp", "sp", "fp", "ea", "ba", "ra"}
Operations == {"mul", "mulxuu", "mulxsu", "mulxss", "div", "divu", "muli", "other"}
Some(sources, destinations) ==
  {i \in [op : Operations, a : sources, b : sources, c : destinations,
          imm : 0 .. 15] : i.op = "muli" \/ i.imm = 0}
Pairs == {[r \in Registers |-> CASE r = "r2" -> x [] r = "r16" -> y [] OTHER -> 0] :
            x, y \in 0 .. 15}
Distinct == [r0 |-> 0, r2 |-> 3, r16 |-> 14, et |-> 5, bt |-> 6, gp |-> 7,
             sp |-> 8, fp |-> 9, ea |-> 10, ba |-> 11, ra |-> 13]
PairsAndNames == (Some({"r2", "r16"}, {"r2"}) \X Pairs)
                   \cup (Some(Registers, Registers) \X {Distinct})
E == INSTANCE MulDiv

ASSUME RoutinesAssumption == Gentle /\ Nesting!Gentle
ASSUME ProgramAssumption == X!ExceptionsAssumption
ASSUME RegistersAssumption == E!MulDivAssumption

ExceptionsOff == /\ Off(program) /\ Off(pcounter) /\ Off(ea) /\ Off(slot72)
                 /\ Off(interrupt) /\ Off(interrupts) /\ Off(registered)
                 /\ Off(PIE) /\ Off(executed) /\ Off(answered)
RegistersOff == /\ Off(instr) /\ Off(before) /\ Off(regs) /\ Off(slot)
                /\ Off(r3) /\ Off(r6) /\ Off(r9) /\ Off(r10) /\ Off(r11)
                /\ Off(r12) /\ Off(r13) /\ Off(r14) /\ Off(r17)

MCInit ==
  \/ part = "calling" /\ Init /\ ExceptionsOff /\ RegistersOff /\ Off(pc)
  \/ part = "nesting" /\ Nesting!Init /\ ExceptionsOff /\ RegistersOff /\ Off(pc)
  \/ part = "exceptions" /\ Init /\ X!Init /\ RegistersOff
  \/ part = "emulation" /\ Init /\ ExceptionsOff /\ E!Init
MCNext ==
  /\ \/ part = "calling" /\ Next /\ UNCHANGED <<exceptions, registers>>
     \/ part = "nesting" /\ Nesting!Next /\ UNCHANGED <<exceptions, registers>>
     \/ part = "exceptions" /\ X!Next /\ UNCHANGED <<vars, registers>>
     \/ /\ part = "emulation" /\ E!Next
        /\ UNCHANGED <<vars, program, pcounter, ea, slot72, interrupt,
                       interrupts, registered, PIE, executed, answered>>
  /\ UNCHANGED part
\* Irq's fairness, where interrupts nest.
MCGoOn == part = "nesting" /\ Nesting!GoOn /\ UNCHANGED <<part, exceptions, registers>>
MCInterrupt == part = "nesting" /\ Nesting!Interrupt /\ UNCHANGED <<part, exceptions, registers>>
MCFairSpec == /\ MCInit /\ [][MCNext]_everything
              /\ WF_everything(MCGoOn) /\ SF_everything(MCInterrupt)
-----------------------------------------------------------------------------
\* Every interrupt that stays enabled is served, and whoever it has interrupted
\* goes on.
Served == part = "nesting" => Nesting!IsServed /\ Nesting!HandlerReturns

\* Every instruction is completed once, in order, only one nobody can complete
\* stops the processor, and no interrupt is handled where the program keeps
\* them out.
EachOnceInOrder == part = "exceptions" => X!EachOnceInOrder

\* The emulation does what the instructions mean, up to the last turn of its
\* loops and whichever registers are named.
EmulatesAll == part = "emulation" =>
                 E!TypeOK /\ E!Emulates /\ E!DividesSoFar
=============================================================================
