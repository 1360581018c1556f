------------------------------- MODULE MulDiv -------------------------------
(***************************************************************************)
(* The emulation of the multiply and divide instructions the tiny core     *)
(* lacks: alt_exception_muldiv.S, between the entry and the exit of        *)
(* alt_exception_entry.S.  Registers are classes: r2 stands for r1 to r15, *)
(* which the entry saves, and r16 for those the emulation saves.  Words    *)
(* have Width bits, and so do the loops.                                   *)
(***************************************************************************)
EXTENDS Integers

CONSTANTS Width,         \* 32
          PushedBytes,   \* what the two frames take off the stack pointer
          Met            \* the instructions met, with the registers they find

Reg == {"r0", "r2", "r16", "et", "bt", "gp", "sp", "fp", "ea", "ba", "ra"}
RType == {"mul", "mulxuu", "mulxsu", "mulxss", "div", "divu"}
Power[n \in Nat] == IF n = 0 THEN 1 ELSE 2 * Power[n - 1]
Modulus == Power[Width]
Word == 0 .. Modulus - 1

Instr == [op : RType \cup {"muli", "other"}, a : Reg, b : Reg, c : Reg,
          imm : Word]

MulDivAssumption ==
  /\ Width \in Nat \ {0} /\ PushedBytes \in Word
  /\ Met \subseteq Instr \X [Reg -> Word]
  /\ \A m \in Met : m[2]["r0"] = 0

VARIABLES instr, before,  \* the instruction and the registers it finds
          regs,           \* the registers
          slot,           \* the registers' places on the stack
          pc,
          r3, r6,         \* multiplicand or dividend and quotient; multiplier
                          \* (shifted left) or divisor
          r9, r10,        \* the two products, or the quotient
          r11, r12,       \* the multiplier, and shifted right
          r13, r17,       \* the remainder; the sign of the quotient
          r14             \* the turns that are left
loop == <<r3, r6, r9, r10, r11, r12, r13, r14, r17>>
vars == <<instr, before, regs, slot, pc, loop>>

Msb(w) == w >= Modulus \div 2
Twice(w) == (2 * w) % Modulus
Minus(v, w) == (v - w) % Modulus
Negated(w) == Minus(0, w)

Init == /\ \E m \in Met : instr = m[1] /\ before = m[2]
        /\ regs = before
        /\ slot = [r \in Reg |-> 0]
        /\ pc = "runs"
        /\ r3 = 0 /\ r6 = 0 /\ r9 = 0 /\ r10 = 0 /\ r11 = 0 /\ r12 = 0
        /\ r13 = 0 /\ r14 = 0 /\ r17 = FALSE

\* The registers that are saved as they are; sp has changed by then, and the
\* others' places hold what was there.
Saved == {"r0", "r2", "r16", "gp", "fp", "ra"}
Save == /\ pc = "runs"
        /\ \E stale \in {0, 1} :
             slot' = [r \in Reg |->
                        CASE r = "sp"         -> Minus(regs["sp"], PushedBytes)
                          [] r \in Saved      -> regs[r]
                          [] OTHER            -> stale]
        /\ pc' = "operands"
        /\ UNCHANGED <<instr, before, regs, loop>>

Divides == instr.op \in {"div", "divu"}
Absolute(signed, w) == IF signed /\ Msb(w) THEN Negated(w) ELSE w
Operands ==
  /\ pc = "operands" /\ instr.op # "other"
  /\ LET a == slot[instr.a]
         b == IF instr.op = "muli" THEN instr.imm ELSE slot[instr.b]
         signed == instr.op = "div"
     IN  /\ r3' = Absolute(signed, a) /\ r6' = Absolute(signed, b)
         /\ r17' = (signed /\ Msb(a) # Msb(b))
         /\ r11' = b /\ r12' = b
  /\ r9' = 0 /\ r10' = 0 /\ r13' = 0 /\ r14' = Width
  /\ pc' = IF Divides THEN "divide" ELSE "multiply"
  /\ UNCHANGED <<instr, before, regs, slot>>
\* .Lnot_muldiv: another handler's instruction.
NotMulDiv == /\ pc = "operands" /\ instr.op = "other"
             /\ pc' = "not_muldiv"
             /\ UNCHANGED <<instr, before, regs, slot, loop>>

DivideTurnLess ==
  /\ pc = "divide" /\ r14 > 0
  /\ LET shifted == (2 * r13 + IF Msb(r3) THEN 1 ELSE 0) % Modulus
         fits == shifted > r6
     IN  /\ r13' = IF fits THEN Minus(shifted, r6) ELSE shifted
         /\ r3' = Twice(r3) + IF fits THEN 1 ELSE 0
  /\ r14' = r14 - 1
  /\ UNCHANGED <<instr, before, regs, slot, pc, r6, r9, r10, r11, r12, r17>>
DivideTurn ==
  /\ pc = "divide" /\ r14 > 0
  /\ LET shifted == (2 * r13 + IF Msb(r3) THEN 1 ELSE 0) % Modulus
         fits == shifted >= r6
     IN  /\ r13' = IF fits THEN Minus(shifted, r6) ELSE shifted
         /\ r3' = Twice(r3) + IF fits THEN 1 ELSE 0
  /\ r14' = r14 - 1
  /\ UNCHANGED <<instr, before, regs, slot, pc, r6, r9, r10, r11, r12, r17>>
\* The lower half adds the multiplicand for the upper bit of the multiplier,
\* the upper half for the lower bit, carry and all.
MultiplyTurn ==
  /\ pc = "multiply" /\ r14 > 0
  /\ r9' = (Twice(r9) + IF Msb(r6) THEN r3 ELSE 0) % Modulus
  /\ LET sum == (r10 + IF r12 % 2 = 1 THEN r3 ELSE 0) % Modulus
         carry == r12 % 2 = 1 /\ sum < r3
     IN  r10' = sum \div 2 + IF carry THEN Modulus \div 2 ELSE 0
  /\ r6' = Twice(r6) /\ r12' = r12 \div 2
  /\ r14' = r14 - 1
  /\ UNCHANGED <<instr, before, regs, slot, pc, r3, r11, r13, r17>>

\* mulxsu and mulxss from mulxuu.
Mulxsu == IF Msb(r3) THEN Minus(r10, r11) ELSE r10
Mulxss == IF Msb(r11) THEN Minus(Mulxsu, r3) ELSE Mulxsu
Result == CASE Divides                    -> IF r17 THEN Negated(r3) ELSE r3
            [] instr.op \in {"mul", "muli"} -> r9
            [] instr.op = "mulxuu"          -> r10
            [] instr.op = "mulxsu"          -> Mulxsu
            [] instr.op = "mulxss"          -> Mulxss
\* Of muli, B is the destination.
Destination == IF instr.op = "muli" THEN instr.b ELSE instr.c
StoreResult == /\ pc \in {"divide", "multiply"} /\ r14 = 0
               /\ slot' = [slot EXCEPT ![Destination] = Result]
               /\ pc' = "restore"
               /\ UNCHANGED <<instr, before, regs, loop>>
\* gp, sp and et are not loaded again, nor is 0 into r0.
Restore == /\ pc = "restore"
           /\ regs' = [r \in Reg |-> IF r \in {"r2", "r16", "fp", "ra"}
                                     THEN slot[r] ELSE regs[r]]
           /\ pc' = "returned"
           /\ UNCHANGED <<instr, before, slot, loop>>

Next == \/ Save \/ Operands \/ NotMulDiv \/ DivideTurn \/ MultiplyTurn
        \/ StoreResult \/ Restore
Spec == Init /\ [][Next]_vars
-----------------------------------------------------------------------------
\* What the registers hold.
TypeOK == /\ instr \in Instr /\ before \in [Reg -> Word]
          /\ regs \in [Reg -> Word] /\ slot \in [Reg -> Word]
          /\ pc \in {"runs", "operands", "not_muldiv", "divide", "multiply",
                     "restore", "returned"}
          /\ r3 \in Word /\ r6 \in Word /\ r9 \in Word /\ r10 \in Word
          /\ r11 \in Word /\ r12 \in Word /\ r13 \in Word
          /\ r14 \in 0 .. Width /\ r17 \in BOOLEAN

(* What the instructions mean.                                             *)

Signed(w) == IF Msb(w) THEN w - Modulus ELSE w
Abs(n) == IF n < 0 THEN -n ELSE n
Meaning(op, x, y) ==
  CASE op \in {"mul", "muli"} -> (x * y) % Modulus
    [] op = "mulxuu" -> (x * y) \div Modulus
    [] op = "mulxsu" -> ((Signed(x) * y) \div Modulus) % Modulus
    [] op = "mulxss" -> ((Signed(x) * Signed(y)) \div Modulus) % Modulus
    [] op = "divu"   -> x \div y
    [] op = "div"    -> LET q == Abs(Signed(x)) \div Abs(Signed(y))
                        IN  IF Msb(x) # Msb(y) THEN Negated(q) ELSE q
Left == before[instr.a]
Right == IF instr.op = "muli" THEN instr.imm ELSE before[instr.b]
Defined == ~ (Divides /\ Right = 0)
Meant == [before EXCEPT ![Destination] = IF Destination = "r0" THEN 0
                                         ELSE Meaning(instr.op, Left, Right)]
Reads == {instr.a} \cup (IF instr.op = "muli" THEN {} ELSE {instr.b})

\* The emulation does to the registers what the instruction means, and nothing
\* else, whichever registers it names and whichever of them are the same.
Supported == /\ Reads \cap {"et", "bt", "sp", "ea", "ba"} = {}
             /\ Destination \notin {"et", "bt", "gp", "sp", "ea", "ba"}
Emulates == pc = "returned" /\ Supported /\ Defined => regs = Meant

\* Up to the last turn a division has what it divided, and a multiplication the
\* low half of the product so far: the remainder never outgrows its word.
Quotient == r3 % Power[Width - r14]
DividesSoFar ==
  pc = "divide" /\ r6 # 0 =>
    LET dividend == Absolute(instr.op = "div", slot[instr.a])
    IN  /\ dividend \div Power[r14] = Quotient * r6 + r13
        /\ r13 < r6

\* alt_exception_muldiv.S:60 says: "The emulations match the instructions,
\* except for the following limitations": et as a source, sp and ea as a
\* destination, ba and bt.
Listed == \/ "et" \in Reads \/ Destination \in {"sp", "ea"}
          \/ (Reads \cup {Destination}) \cap {"ba", "bt"} # {}
MatchesButForListed == pc = "returned" /\ Defined /\ ~ Listed => regs = Meant
=============================================================================
