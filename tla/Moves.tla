-------------------------------- MODULE Moves --------------------------------
(***************************************************************************)
(* kick.sv, fight.sv, jump.sv, dodge.sv and back.sv: the animations of the *)
(* two fighters.  Every one of them is a small machine clocked by the      *)
(* vertical sync, started by one request register of its fighter, that     *)
(* tells the rest of the game whether the move shows (kick_1 ... back_1)   *)
(* and, in its last picture, that it bites (kick_valid, fight_valid,       *)
(* jump_valid) or protects (dodge_valid).                                  *)
(*                                                                         *)
(* The stages of a move are numbered: 0 is its state stand, 1, 2, ... its  *)
(* pictures, and the one after the last picture its state Wait (back.sv    *)
(* has none).  No machine is reset, and each carries its own copy of the   *)
(* counters; they leave power-up together, so the copies are one here.     *)
(***************************************************************************)
EXTENDS Integers

CONSTANTS Beat,  \* 11 frames: the period of counter
          Rest,  \* 30 frames: the period of counter1
          Reel   \* 41 frames: the period of counter1 of back.sv

ASSUME PeriodAssumption == /\ Beat \in Nat /\ Beat >= 3
                           /\ Rest \in Nat /\ Rest >= 2
                           /\ Reel \in Nat /\ Reel >= 2

VARIABLES metro,  \* [beat, rest, reel]: the counters
          moves   \* moves[p][m]: the stage of move m of player p

Players == {1, 2}
Moving == {"kick", "fight", "jump", "dodge", "back"}

Pictures == [kick |-> 2, fight |-> 2, jump |-> 4, dodge |-> 2, back |-> 2]
Stages(m) == IF m = "back" THEN 0 .. 2 ELSE 0 .. Pictures[m] + 1

MovesInit == /\ metro = [beat |-> 0, rest |-> 0, reel |-> 0]
             /\ moves = [p \in Players |-> [m \in Moving |-> 0]]

OnBeat == metro.beat = Beat - 2
OnRest == metro.rest = Rest - 2
OnReel == metro.reel = Reel - 2

\* Whether move m leaves stage s when its request is asked.  A dodge and a
\* knockback hold their last picture for as long as they are asked for; a
\* knockback starts at once, every other move on the beat.
LeavesAnyTime(m, s, asked) ==
  CASE s = 0 -> asked
    [] s > Pictures[m] -> OnRest
    [] m = "dodge" /\ s = 2 -> OnRest /\ ~ asked
    [] m = "back" /\ s = 2 -> OnReel /\ ~ asked
    [] OTHER -> OnBeat
Leaves(m, s, asked) ==
  CASE s = 0 -> asked /\ (m = "back" \/ OnBeat)
    [] s > Pictures[m] -> OnRest
    [] m = "dodge" /\ s = 2 -> OnRest /\ ~ asked
    [] m = "back" /\ s = 2 -> OnReel /\ ~ asked
    [] OTHER -> OnBeat

After(m, s) == IF s + 1 \in Stages(m) THEN s + 1 ELSE 0

\* One frame; request[p] names the request register that is set.
MovesFrame(request) ==
  /\ metro' = [beat |-> (metro.beat + 1) % Beat,
               rest |-> (metro.rest + 1) % Rest,
               reel |-> (metro.reel + 1) % Reel]
  /\ moves' = [p \in Players |-> [m \in Moving |->
                 IF Leaves(m, moves[p][m], request[p] = m)
                 THEN After(m, moves[p][m]) ELSE moves[p][m]]]

\* kick_1, fight_1, jump_1, dodge_1, back_1 (kick_2, ... of player 2).
Showing(p) == {m \in Moving : moves[p][m] \in 1 .. Pictures[m]}

\* kick_valid, fight_valid, jump_valid and dodge_valid.
Biting(p) == {m \in {"kick", "fight", "jump"} : moves[p][m] = Pictures[m]}
Dodging(p) == moves[p]["dodge"] = Pictures["dodge"]
=============================================================================
