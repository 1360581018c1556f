--------------------------------- MODULE Heap ---------------------------------
(***************************************************************************)
(* sbrk() of alt_sbrk.c with the run-time stack check it takes part in:    *)
(* the heap grows up from the end of the program, the stack down from the  *)
(* end of memory, and nothing else lies between them.  The stack limit is  *)
(* kept in the register et; the code the compiler puts before each         *)
(* function compares the stack pointer with it.  Interrupts are off in     *)
(* sbrk.  Addresses count bytes.                                           *)
(***************************************************************************)
EXTENDS Integers

CONSTANTS heap_start, heap_limit,   \* set by the linker; the stack begins at
                                    \* heap_limit
          Requests,                 \* what sbrk is asked for, back when negative
          Frames                    \* the sizes of stack frames

ASSUME HeapAssumption ==
  /\ heap_start \in Nat /\ heap_limit \in Nat /\ heap_start < heap_limit
  /\ heap_start % 4 = 0
  /\ Requests \subseteq Int /\ Frames \subseteq Nat \ {0}

VARIABLES heap_end, et, sp, overflow
vars == <<heap_end, et, sp, overflow>>

Init == /\ heap_end = heap_start /\ et = heap_start /\ sp = heap_limit
        /\ overflow = FALSE

\* NIOS2_REPORT_STACK_OVERFLOW stops the program.
Aligned(a) == 4 * ((a + 3) \div 4)
Refused(incr) == Aligned(heap_end) + incr > heap_limit
Refuse(incr) == /\ ~ overflow /\ Refused(incr)
                /\ heap_end' = Aligned(heap_end)
                /\ UNCHANGED <<et, sp, overflow>>
GrantUnlimited(incr) ==
  LET new == Aligned(heap_end) + incr
  IN  /\ ~ overflow /\ ~ Refused(incr) /\ new >= heap_start
      /\ heap_end' = new
      /\ overflow' = (sp <= new)
      /\ UNCHANGED <<et, sp>>
Grant(incr) ==
  LET prev_heap_end == Aligned(heap_end)
      new == prev_heap_end + incr
  IN  /\ ~ overflow /\ ~ Refused(incr) /\ new >= heap_start
      /\ heap_end' = new
      /\ overflow' = (et = prev_heap_end /\ sp <= new)
      /\ et' = IF et = prev_heap_end /\ ~ overflow' THEN new ELSE et
      /\ UNCHANGED sp
Sbrk(incr) == Grant(incr) \/ Refuse(incr)

\* A function is entered, and left.
Enter(size) == /\ ~ overflow
               /\ sp' = sp - size /\ overflow' = (sp' < et)
               /\ UNCHANGED <<heap_end, et>>
Leave(size) == /\ ~ overflow /\ sp + size <= heap_limit
               /\ sp' = sp + size
               /\ UNCHANGED <<heap_end, et, overflow>>

Next == \/ \E n \in Requests : Sbrk(n)
        \/ \E n \in Frames : Enter(n) \/ Leave(n)
Spec == Init /\ [][Next]_vars
-----------------------------------------------------------------------------
TypeOK == /\ heap_end \in heap_start .. heap_limit
          /\ et \in heap_start .. heap_limit /\ sp \in Int
          /\ overflow \in BOOLEAN

\* However they grow and shrink, the heap and the stack never overlap without
\* the overflow having been reported.  alt_sbrk.c:99 says: "If the stack and
\* heap are contiguous then extending the heap reduces the space available for
\* the stack.  If we are still using the default stack then adjust the stack
\* limit to note this, while checking for stack pointer overflow."
Apart == overflow \/ heap_end <= sp

\* And none is reported while there is room between them.
ReportsOnlyCollisions == overflow => sp <= heap_end

\* alt_sbrk.c:46 says: "This simple implementation does not perform any bounds
\* checking. Memory will be allocated, even if the request region colides with
\* the stack or overflows the available physical memory."
AlwaysAllocates == \A n \in Requests : ~ overflow => ~ Refused(n)
=============================================================================
