----------------------------- MODULE Exceptions -----------------------------
(***************************************************************************)
(* Which instruction is executed after an exception: the entry and exit of *)
(* alt_exception_entry.S, the test of alt_irq_entry.S, the handlers linked *)
(* behind it in order (emulation, trap, unknown) and the routine an        *)
(* application may register (alt_instruction_exception_register.c).  The   *)
(* program is a sequence of instructions; addresses count instructions.    *)
(***************************************************************************)
EXTENDS Integers, Sequences

CONSTANTS Length,      \* of the program
          Api,         \* ALT_INCLUDE_INSTRUCTION_RELATED_EXCEPTION_API
          Withdraws,   \* whether a device may withdraw its interrupt
          MaxRaise     \* bound: interrupts

ExceptionsAssumption ==
  /\ Length \in Nat /\ Api \in BOOLEAN /\ Withdraws \in BOOLEAN
  /\ MaxRaise \in Nat

Kinds == {"plain", "muldiv", "trap", "illegal"}
\* NIOS2_EXCEPTION_RETURN_REISSUE_INST and NIOS2_EXCEPTION_RETURN_SKIP_INST.
Results == {0, 1}

VARIABLES program,      \* the kinds of its instructions
          pcounter, pc, \* the next instruction; the exception code's place
          ea, slot72,   \* the return address, and its place in the frame
          ipending, raised,
          registered,   \* alt_instruction_exception_handler
          PIE,          \* of the program's status, and so of estatus
          executed,     \* history: the instructions completed, in order
          answered      \* history: what the routine answered, -1 for nothing
hist == <<executed, answered>>
setting == <<registered, PIE>>
vars == <<program, pcounter, pc, ea, slot72, ipending, raised, setting, hist>>

Init == /\ program \in [1 .. Length -> Kinds]
        /\ pcounter = 1 /\ pc = "program"
        /\ ea = 1 /\ slot72 = 1
        /\ ipending = FALSE /\ raised = 0
        /\ registered \in IF Api THEN BOOLEAN ELSE {FALSE}
        /\ PIE = TRUE
        /\ executed = <<>> /\ answered = -1

Raise == /\ ~ ipending /\ raised < MaxRaise
         /\ ipending' = TRUE /\ raised' = raised + 1
         /\ UNCHANGED <<program, pcounter, pc, ea, slot72, setting, hist>>
Withdraw == /\ Withdraws /\ ipending
            /\ ipending' = FALSE
            /\ UNCHANGED <<program, pcounter, pc, ea, slot72, raised,
                           setting, hist>>

\* What alt_irq_entry.S looks for: estatus.PIE set, and a request.
Pending == PIE /\ ipending

\* The processor executes an instruction, or raises an exception: either way
\* ea is the address of the one that follows.
InProgram == pc = "program" /\ pcounter <= Length
Execute == /\ InProgram /\ program[pcounter] = "plain"
           /\ executed' = Append(executed, pcounter)
           /\ pcounter' = pcounter + 1
           /\ UNCHANGED <<program, pc, ea, slot72, ipending, raised,
                          setting, answered>>
Except == /\ InProgram /\ (program[pcounter] # "plain" \/ Pending)
          /\ ea' = pcounter + 1
          /\ pc' = "entry"
          /\ UNCHANGED <<program, pcounter, slot72, ipending, raised,
                         setting, hist>>

instruction == program[ea - 1]
\* The interrupted instruction is to be issued again; others are skipped.  A
\* request that waits while the program keeps interrupts out is not looked at.
TestIrqSkip ==
  /\ pc = "entry"
  /\ slot72' = ea
  /\ pc' = IF Pending THEN "irq" ELSE "soft"
  /\ UNCHANGED <<program, pcounter, ea, ipending, raised, setting, hist>>
TestIrq == /\ pc = "entry"
           /\ slot72' = IF Pending THEN ea - 1 ELSE ea
           /\ pc' = IF Pending THEN "irq" ELSE "soft"
           /\ UNCHANGED <<program, pcounter, ea, ipending, raised, setting,
                          hist>>
IrqHandler == /\ pc = "irq"
              /\ ipending' = FALSE
              /\ pc' = "exit"
              /\ UNCHANGED <<program, pcounter, ea, slot72, raised, setting,
                             hist>>
Emulate == /\ pc = "soft" /\ instruction = "muldiv"
           /\ executed' = Append(executed, ea - 1)
           /\ pc' = "exit"
           /\ UNCHANGED <<program, pcounter, ea, slot72, ipending, raised,
                          setting, answered>>
\* A software break: what a debugger is for; execution then goes on.
Trap == /\ pc = "soft" /\ instruction = "trap"
        /\ executed' = Append(executed, ea - 1)
        /\ pc' = "exit"
        /\ UNCHANGED <<program, pcounter, ea, slot72, ipending, raised,
                       setting, answered>>
Unknown == /\ pc = "soft" /\ instruction \in {"plain", "illegal"}
           /\ pc' = IF registered THEN "routine" ELSE "break"
           /\ UNCHANGED <<program, pcounter, ea, slot72, ipending, raised,
                          setting, hist>>
\* The routine deals with the instruction, to have it skipped, or puts it
\* right, to have it issued again.
Routine(result) ==
  /\ pc = "routine"
  /\ answered' = result
  /\ executed' = IF result = 1 THEN Append(executed, ea - 1) ELSE executed
  /\ program' = IF result = 0 THEN [program EXCEPT ![ea - 1] = "plain"]
                ELSE program
  /\ slot72' = IF result # 0 THEN slot72 ELSE ea - 1
  /\ pc' = "exit"
  /\ UNCHANGED <<pcounter, ea, ipending, raised, setting>>
Eret == /\ pc = "exit"
        /\ pcounter' = slot72
        /\ pc' = "program"
        /\ answered' = -1
        /\ UNCHANGED <<program, ea, slot72, ipending, raised, setting,
                       executed>>
\* alt_instruction_exception_register, alt_irq_disable_all and
\* alt_irq_enable_all: at any place of the program.
Register == /\ Api /\ pc = "program"
            /\ registered' \in BOOLEAN
            /\ UNCHANGED <<program, pcounter, pc, ea, slot72, ipending, raised,
                           PIE, hist>>
SetPIE == /\ pc = "program"
          /\ PIE' \in BOOLEAN
          /\ UNCHANGED <<program, pcounter, pc, ea, slot72, ipending, raised,
                         registered, hist>>

Next == \/ Raise \/ Withdraw \/ Execute \/ Except
        \/ TestIrq \/ IrqHandler \/ Emulate \/ Trap \/ Unknown
        \/ \E r \in Results : Routine(r)
        \/ Eret \/ Register \/ SetPIE
Spec == Init /\ [][Next]_vars
-----------------------------------------------------------------------------
\* Every instruction is completed once, in order, whatever exceptions and
\* interrupts there are and whatever a routine answers: none is skipped and
\* none is completed twice.
OnceInOrder == /\ \A i \in 1 .. Len(executed) : executed[i] = i
               /\ pc = "program" => Len(executed) = pcounter - 1

\* Only an instruction nobody can complete stops the processor, and with a
\* routine registered none does; but an interrupt that is withdrawn before it is
\* looked for stops it at any the processor knows.
BreaksOnIllegal ==
  pc = "break" => /\ ~ registered
                  /\ instruction \in {"illegal"} \cup
                       (IF Withdraws THEN {"plain"} ELSE {})

\* No interrupt is handled while the program keeps interrupts out, also when an
\* instruction of such a piece raises an exception with a request waiting.
KeptOut == pc = "irq" => PIE

\* The three together: exceptions leave the program as if they had not happened,
\* or stop it for good reason, and let no interrupt in.
EachOnceInOrder == OnceInOrder /\ BreaksOnIllegal /\ KeptOut

\* alt_exception_entry.S:276 says of the routine: "Return code was 0: Skip."
SkipsOnZero == pc = "exit" /\ answered = 0 => slot72 = ea
=============================================================================
