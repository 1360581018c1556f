----------------------------- MODULE BusySleep -----------------------------
(***************************************************************************)
(* usleep: the calibrated loop of alt_busy_sleep.c.  A long sleep is cut   *)
(* into loops of INT_MAX turns, each of so many whole microseconds, and    *)
(* what is left; the two loops of a long sleep end when the counter is 0   *)
(* after it was decremented, that of a short one when it is not positive.  *)
(***************************************************************************)
EXTENDS Integers

CONSTANTS IntMax,    \* INT_MAX; words are of twice as many values and two
          PerMicro,  \* turns in a microsecond: ALT_CPU_FREQ over
                     \* cycles_per_loop * 1000000
          Asked      \* the arguments of usleep

SleepAssumption ==
  /\ IntMax \in Nat /\ PerMicro \in 1 .. IntMax
  /\ Asked \subseteq 0 .. 2 * IntMax + 1

VARIABLES asked, us,  \* the argument, as passed and as it is
          big_loops,  \* that are still to be made
          pc, spent   \* where the call is, and the turns made
vars == <<asked, us, big_loops, pc, spent>>

Modulus == 2 * IntMax + 2
MicrosInBig == IntMax \div PerMicro

\* usleep() is alt_busy_sleep() with its argument.
usleep(n) == asked = n /\ us = asked

Init == /\ \E n \in Asked : usleep(n)
        /\ big_loops = asked \div MicrosInBig
        /\ pc = IF big_loops = 0 THEN "short" ELSE "long"
        /\ spent = 0

\* The turns of a loop that counts down to 0, from 0 all the way round.
Turns(n) == IF n = 0 THEN Modulus ELSE n

BigLoop == /\ pc = "long" /\ big_loops > 0
           /\ spent' = spent + Turns(IntMax)
           /\ us' = us - MicrosInBig
           /\ big_loops' = big_loops - 1
           /\ UNCHANGED <<asked, pc>>
LastLoop == /\ pc = "long" /\ big_loops = 0
            /\ spent' = spent + Turns((us * PerMicro) % Modulus)
            /\ pc' = "returned"
            /\ UNCHANGED <<asked, us, big_loops>>
ShortLoop == /\ pc = "short"
             /\ spent' = spent + IF us = 0 THEN 1 ELSE us * PerMicro
             /\ pc' = "returned"
             /\ UNCHANGED <<asked, us, big_loops>>

Next == BigLoop \/ LastLoop \/ ShortLoop
Spec == Init /\ [][Next]_vars
-----------------------------------------------------------------------------
\* However it is cut up, a sleep is never shorter than the loop it stands for
\* and, unless nothing is left for its last loop, longer only by the turns by
\* which INT_MAX is more than whole microseconds: no product is too large.
Wanted == asked * PerMicro
Rounding == (asked \div MicrosInBig) * (IntMax - MicrosInBig * PerMicro)
Exact == asked # 0 /\ (asked < MicrosInBig \/ asked % MicrosInBig # 0)
SleepsAsLong == pc = "returned" =>
  spent >= Wanted /\ (Exact => spent = Wanted + Rounding)

\* alt_busy_sleep.c:36 says: "The ASM instructions in the routine are
\* equivalent to for (i=0;i<us*(ALT_CPU_FREQ/3);i++);"
SameAsFor == pc = "returned" => spent <= Wanted + Rounding + 1
=============================================================================
