-------------------------------- MODULE Bout --------------------------------
(***************************************************************************)
(* What a bout of the stick-figure game promises its two players, without  *)
(* any of the circuits that keep the score.                                *)
(*                                                                         *)
(* Each player starts with a full bar.  A blow takes something off one     *)
(* player's bar, never past zero, and spends the exchange: no second blow  *)
(* counts before the exchange is opened again.  The first bar to reach     *)
(* zero decides the bout, the other player is declared the winner, and     *)
(* nothing changes any more until a new bout is started.                   *)
(***************************************************************************)
EXTENDS Integers

CONSTANTS Full,      \* the length of a full bar
          MaxBlow    \* the most a single blow can take

VARIABLES hp,        \* hp[p]: what is left of player p's bar
          exchange,  \* "open" when a blow may count, "spent" after one did
          winner     \* the declared winner, 0 while there is none

boutVars == <<hp, exchange, winner>>

Player == {1, 2}
Other(p) == 3 - p

Undecided == \A p \in Player : hp[p] > 0

Init == /\ hp = [p \in Player |-> Full]
        /\ exchange = "open"
        /\ winner = 0

\* A blow of strength d lands on player v.
Blow(v, d) == /\ Undecided
              /\ exchange = "open"
              /\ hp' = [hp EXCEPT ![v] = IF @ <= d THEN 0 ELSE @ - d]
              /\ exchange' = "spent"
              /\ UNCHANGED winner

\* The attack that landed is over.
Reopen == /\ Undecided
          /\ exchange = "spent"
          /\ exchange' = "open"
          /\ UNCHANGED <<hp, winner>>

\* The player whose opponent has nothing left is declared the winner.
Declare(p) == /\ hp[Other(p)] = 0
              /\ winner = 0
              /\ winner' = p
              /\ UNCHANGED <<hp, exchange>>

NewBout == /\ hp' = [p \in Player |-> Full]
           /\ exchange' = "open"
           /\ winner' = 0

Next == \/ \E v \in Player, d \in 1 .. MaxBlow : Blow(v, d)
        \/ Reopen
        \/ \E p \in Player : Declare(p)
        \/ NewBout

SafeSpec == Init /\ [][Next]_boutVars

\* A decided bout does not stay without a winner.
Spec == SafeSpec /\ WF_boutVars(\E p \in Player : Declare(p))
=============================================================================
