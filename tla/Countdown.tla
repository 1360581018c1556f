----------------------------- MODULE Countdown -----------------------------
(***************************************************************************)
(* What alarms promise: each is called when the ticks it was started for   *)
(* have gone by, before the next tick, and not when it has been stopped.   *)
(***************************************************************************)
EXTENDS Naturals

CONSTANTS Alarm, Longest   \* the alarms, and the longest period

VARIABLE left   \* the ticks left to each alarm that is on

Init == left = [a \in {} |-> 0]

On(a) == a \in DOMAIN left
With(a, n) == [b \in DOMAIN left \cup {a} |-> IF b = a THEN n ELSE left[b]]
Without(a) == [b \in DOMAIN left \ {a} |-> left[b]]

Start(a) == ~ On(a) /\ \E n \in 1 .. Longest : left' = With(a, n)
Stop(a) == left' = Without(a)
\* The callback says when it wants to be called again, if it does.
Call(a) == /\ On(a) /\ left[a] = 0
           /\ \E n \in 1 .. Longest : left' = With(a, n)
Tick == /\ \A a \in DOMAIN left : left[a] > 0
        /\ left' = [a \in DOMAIN left |-> left[a] - 1]

Next == Tick \/ \E a \in Alarm : Start(a) \/ Stop(a) \/ Call(a)
Spec == Init /\ [][Next]_left
=============================================================================
