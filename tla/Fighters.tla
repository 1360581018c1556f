------------------------------ MODULE Fighters ------------------------------
(***************************************************************************)
(* ball.sv, ball_second.sv and AI.sv: the bodies of the two human players  *)
(* and of the computer opponent.  At every vertical sync each picks one    *)
(* request (run, kick, dodge, ...) and a horizontal motion, and moves by   *)
(* the motion it picked one frame before.                                  *)
(*                                                                         *)
(* The eight request registers of a body are one-hot: every branch of the  *)
(* source sets one and clears the others.  They are one variable act here. *)
(***************************************************************************)
EXTENDS Moves, Facing, Gravity

CONSTANTS StartX,    \* [p1 |-> 0, p2 |-> 539, ai |-> 539]
          XMax,      \* 639, Ball_X_Max
          Size,      \* 80, what is kept free of the right edge
          Edge,      \* 10, what is kept free of the left edge
          Arm,       \* 40, how close side by side counts as touching
          Step,      \* 5, Ball_X_Step
          Nudge,     \* 1, Ball_X_back
          Knock,     \* 8, the step of a fighter who is knocked back
          Range      \* the AI's ranges: [fight |-> 60, kick |-> 70,
                     \*                   dodge |-> 80, jump |-> 90]

Body == {"p1", "p2", "ai"}
ASSUME BodiesAssumption == Bodies = Body
ASSUME ArenaAssumption ==
  /\ StartX \in [Body -> 0 .. XMax]
  /\ Range \in [{"fight", "kick", "dodge", "jump"} -> Nat]
  /\ {XMax, Size, Edge, Arm} \subseteq Nat /\ XMax < Width
  /\ {Step, Nudge, Knock} \subseteq 1 .. Width - 1

VARIABLES body,   \* body[b] = [x, y, mx, act]
          start   \* st: somebody pressed Enter

Command == {"kick", "fight", "dodge", "jump", "left", "right"}
Request == Command \cup {"stand", "back"}

BodyAtReset(b) == [x |-> StartX[b], y |-> Ground, mx |-> 0, act |-> "stand"]
FightersInit == body = [b \in Body |-> BodyAtReset(b)] /\ start = FALSE
FightersReset == body' = [b \in Body |-> BodyAtReset(b)] /\ start' = FALSE

Minus(n) == Width - n
Player(b) == IF b = "p1" THEN 1 ELSE 2

Distance(a, b) == IF a <= b THEN b - a ELSE a - b

\* near and near1: close in columns, close in rows.
Near(s, o) == Distance(s.x, o.x) <= Arm
Level(s, o) == Distance(s.y, o.y) <= HeadRoom

-----------------------------------------------------------------------------
\* What a body does.  s is the body, o the opponent's, looks the facing of
\* the opponent that its knockback and the AI's attacks go by.

\* The order in which the branches try the commands.
Order(b) == IF b = "ai"
            THEN <<"fight", "kick", "dodge", "jump", "left", "right">>
            ELSE <<"kick", "fight", "dodge", "jump", "left", "right">>

\* The moves that must not show when a command is taken.  A human can repeat
\* a dodge or a jump, the AI any move; nobody acts while his knockback shows.
Attacks == {"kick", "fight", "jump", "dodge"}
Veto(b, c) == {"back"} \cup (Attacks \ IF b = "ai" THEN {c}
                                       ELSE {c} \cap {"dodge", "jump"})

\* The AI wants what its distance to player 1 allows, the attacks only when
\* player 1 looks away from it: stand_left and stand_right in AI.sv are those
\* of player 1.
AIWantsOnlyLeft(s, o, looks) ==
  LET turned(d) == \/ o.x >= s.x /\ o.x - s.x <= d /\ looks.right
                   \/ o.x <= s.x /\ s.x - o.x <= d /\ looks.left
  IN  {c \in Attacks : turned(Range[c])} \cup {c \in {"left"} : o.x <= s.x}
AIWants(s, o, looks) ==
  LET turned(d) == \/ o.x >= s.x /\ o.x - s.x <= d /\ looks.right
                   \/ o.x <= s.x /\ s.x - o.x <= d /\ looks.left
  IN  {c \in Attacks : turned(Range[c])}
        \cup {c \in {"left"} : o.x <= s.x} \cup {c \in {"right"} : o.x >= s.x}

\* The command taken by body b, "none" if all are refused.
Taken(b, wanted) ==
  LET open == {i \in 1 .. 6 : /\ Order(b)[i] \in wanted
                              /\ Showing(Player(b)) \cap Veto(b, Order(b)[i]) = {}}
  IN  IF open = {} THEN "none"
      ELSE Order(b)[CHOOSE i \in open : \A j \in open : i <= j]

\* The walls: the right edge or an opponent within an arm's length push back.
RightBlocked(s, o) == \/ (s.x + Size) % Width >= XMax
                      \/ o.x > s.x /\ o.x - s.x <= Arm /\ Level(s, o)
LeftBlocked(s, o) == \/ s.x <= Edge
                     \/ o.x < s.x /\ s.x - o.x <= Arm /\ Level(s, o)

Pushed(s, o, free) == IF RightBlocked(s, o) THEN Minus(Nudge)
                      ELSE IF LeftBlocked(s, o) THEN Nudge ELSE free

Along(l, r, d) == IF l THEN Minus(d) ELSE IF r THEN d ELSE 0

Motion(b, s, o, looks, wanted, c) ==
  CASE c = "left" /\ b = "p2" -> Pushed(s, o, Minus(Step))
    [] c = "left" /\ b = "p1" -> IF LeftBlocked(s, o) THEN Nudge
                                 ELSE Pushed(s, o, Minus(Step))
    [] c = "left" /\ b = "ai" -> IF LeftBlocked(s, o) THEN Nudge
                                 ELSE Minus(Step)
    [] c = "right" /\ b # "ai" -> Pushed(s, o, Step)
    [] c = "right" /\ b = "ai" -> IF RightBlocked(s, o) THEN Minus(Nudge)
                                  ELSE Step
    [] c = "jump" -> Pushed(s, o,
                       IF b = "ai" THEN Along(looks.left, looks.right, Step)
                       ELSE Along("left" \in wanted, "right" \in wanted, Step))
    [] OTHER -> Pushed(s, o, 0)

\* The request and the motion picked at a frame.  over: p1win or p2win;
\* pushed: back1 or back2; enter: the Enter key, which only ball.sv looks at
\* and which leaves every register of the fighter as it is.
Picked(b, s, o, looks, wanted, over, pushed, enter) ==
  IF over THEN [act |-> "stand", mx |-> 0]
  ELSE IF pushed # 0
  THEN [act |-> IF pushed = 2 THEN "back" ELSE "dodge",
        mx |-> Pushed(s, o, Along(looks.left, looks.right,
                                  IF pushed = 2 THEN Knock ELSE Nudge))]
  ELSE IF Taken(b, wanted) # "none"
  THEN [act |-> Taken(b, wanted),
        mx |-> Motion(b, s, o, looks, wanted, Taken(b, wanted))]
  ELSE IF enter /\ b = "p1" THEN [act |-> s.act, mx |-> s.mx]
  ELSE [act |-> "stand", mx |-> 0]

\* The body after a frame: it moves by the old motions.
Moved(b, s, pick) == [x |-> (s.x + s.mx) % Width,
                      y |-> (s.y + grav[b].motion) % Width,
                      mx |-> pick.mx, act |-> pick.act]
=============================================================================
