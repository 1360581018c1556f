-------------------------------- MODULE Facing --------------------------------
(***************************************************************************)
(* state_machine.sv and state_machine1.sv: which way each fighter looks.   *)
(* On the 50 MHz Clk, from the request registers of the fighter, to the    *)
(* registered outputs stand_left and stand_right.  The two files differ in *)
(* the side a fighter looks to after Reset.  A knockback is no input.      *)
(***************************************************************************)
EXTENDS Integers

VARIABLE face   \* face[p] = [state, left, right]; left is stand_left

Sides == {1, 2}  \* the players, of whom each file serves one
FaceState == {"reset", "state1", "state2", "state3", "state4", "state5"}

FaceInit == face = [p \in Sides |->
                      [state |-> "reset", left |-> FALSE, right |-> FALSE]]

Halting == {"stand", "kick", "fight", "jump", "dodge"}

NextFaceToAndFro(s, request) ==
  CASE s = "reset"  -> IF request \in {"left", "right"} THEN "state1" ELSE s
    [] s = "state1" -> IF request = "left" THEN "state2"
                       ELSE IF request = "right" THEN "state3" ELSE s
    [] s = "state2" -> IF request \in Halting THEN "state4" ELSE "state1"
    [] s = "state3" -> IF request \in Halting THEN "state5" ELSE "state1"
    [] s = "state4" -> IF request = "right" THEN "state1" ELSE s
    [] s = "state5" -> IF request = "left" THEN "state1" ELSE s
NextFace(s, request) ==
  CASE s = "reset"  -> IF request \in {"left", "right"} THEN "state1" ELSE s
    [] s = "state1" -> IF request = "left" THEN "state2"
                       ELSE IF request = "right" THEN "state3" ELSE s
    [] s = "state2" -> IF request \in Halting THEN "state4"
                       ELSE IF request = "right" THEN "state1" ELSE s
    [] s = "state3" -> IF request \in Halting THEN "state5"
                       ELSE IF request = "left" THEN "state1" ELSE s
    [] s = "state4" -> IF request = "right" THEN "state1" ELSE s
    [] s = "state5" -> IF request = "left" THEN "state1" ELSE s

\* stand_left and stand_right follow the state one edge later; state1 keeps
\* them and a running fighter has neither.
LooksLeft(p, f) == CASE f.state = "reset"  -> p = 2
                     [] f.state = "state1" -> f.left
                     [] OTHER -> f.state = "state4"
LooksRight(p, f) == CASE f.state = "reset"  -> p = 1
                      [] f.state = "state1" -> f.right
                      [] OTHER -> f.state = "state5"

TurnedFace(request) ==
  [p \in Sides |-> [state |-> NextFace(face[p].state, request[p]),
                      left  |-> LooksLeft(p, face[p]),
                      right |-> LooksRight(p, face[p])]]

FaceTick(request) == face' = TurnedFace(request)

\* Reset reaches the states, not the outputs.
FaceReset == face' = [p \in Sides |-> [face[p] EXCEPT !.state = "reset"]]
=============================================================================
