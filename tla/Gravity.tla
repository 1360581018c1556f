------------------------------- MODULE Gravity -------------------------------
(***************************************************************************)
(* gravity.sv: what turns a jump request into a vertical motion.  One      *)
(* instance in ball.sv (player 1), one in ball_second.sv (player 2) and    *)
(* one in AI.sv; all on the 50 MHz Clk.  Row 0 is the top of the screen: a *)
(* fighter rises as his row falls.                                         *)
(***************************************************************************)
EXTENDS Integers

CONSTANTS Bodies,    \* the instances
          Rise,      \* 8, the vertical step of a frame
          Ground,    \* 300, where a fighter stands
          JumpFrom,  \* 284, the highest row a jump can start from
          Apex,      \* 120, where a jump turns
          HeadRoom,  \* 50, how close below or above counts as touching
          Width      \* 1024, the values of a ten-bit coordinate

ASSUME HeightAssumption ==
  /\ {Rise, Ground, JumpFrom, Apex, HeadRoom, Width} \subseteq Nat \ {0}
  /\ Apex < JumpFrom /\ JumpFrom <= Ground /\ Ground < Width
\* A flight stays on the screen, well below row 0.
ASSUME ClimbAssumption == Rise + HeadRoom <= Apex /\ Ground + Rise < Width

VARIABLE grav   \* grav[b] = [state, motion], motion is Ball_Y_Motion

Up == Width - Rise
Down == Rise

GravInit == grav = [b \in Bodies |-> [state |-> 0, motion |-> 0]]

\* jump: the request register; near: within arm's length; y, oy: the rows of
\* the fighter and of his opponent.
NextFlightLandsLate(s, jump, y) ==
  CASE s = 0 -> IF jump /\ y >= JumpFrom THEN 1 ELSE 0
    [] s = 1 -> IF y <= Apex THEN 2 ELSE 1
    [] s = 2 -> IF y > Ground THEN 3 ELSE 2
    [] s = 3 -> 0
NextFlight(s, jump, y) ==
  CASE s = 0 -> IF jump /\ y >= JumpFrom THEN 1 ELSE 0
    [] s = 1 -> IF y <= Apex THEN 2 ELSE 1
    [] s = 2 -> IF y >= Ground THEN 3 ELSE 2
    [] s = 3 -> 0

NextFall(s, near, y, oy) ==
  CASE s = 1 -> IF near /\ oy >= y /\ oy - y <= HeadRoom THEN Down ELSE Up
    [] s = 2 -> IF near /\ oy <= y /\ y - oy <= HeadRoom THEN Up ELSE Down
    [] OTHER -> 0

\* in[b] = [jump, near, y, oy].
Flown(in) ==
  [b \in Bodies |->
     [state  |-> NextFlight(grav[b].state, in[b].jump, in[b].y),
      motion |-> NextFall(grav[b].state, in[b].near, in[b].y, in[b].oy)]]

GravTick(in) == grav' = Flown(in)

GravReset == grav' = [b \in Bodies |-> [state |-> 0, motion |-> 0]]
=============================================================================
