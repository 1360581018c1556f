-------------------------------- MODULE Match --------------------------------
(***************************************************************************)
(* The game: the bodies (ball.sv, and ball_second.sv or AI.sv through      *)
(* mode_choose.sv), their animations, their facing, their flight and the   *)
(* score keeper, wired as lab8.sv and blitter.sv wire them.                *)
(*                                                                         *)
(* There are two clocks.  Tick is an edge of the 50 MHz Clk: facing,       *)
(* gravity and the score keeper step together on what the others show.     *)
(* Frame is the rising edge of VGA_VS: the bodies and the animations step  *)
(* together.  840000 edges of Clk lie between two frames, so a frame finds *)
(* the Clk side at rest; that it does come to rest is a property below.    *)
(***************************************************************************)
EXTENDS Fighters

CONSTANTS Full, Hard, Soft,  \* the score keeper's
          Reach,             \* 70, how far an attack carries
          Menu,              \* the sets of keys that may be down at a frame
          Choices,           \* the mode keys that may be first in keycode
          YMax,              \* 479, Ball_Y_Max
          Resettable         \* whether KEY[0] is pressed at all

VARIABLES mode,              \* dual, single of indicator.sv
          phase, attack, hpbar, back, won

clkVars == <<face, grav, phase, attack, hpbar, back, won>>
frameVars == <<body, start, metro, moves, mode>>
vars == <<clkVars, frameVars>>

Hp == INSTANCE HitPoints
ASSUME ScoreAssumption == Hp!FullAssumption /\ Hp!DamageAssumption

\* A key is a player and a command; Enter is looked at by ball.sv alone.
Key == (Players \X Command) \cup {<<1, "enter">>}
ASSUME MenuAssumption == /\ Menu \subseteq SUBSET Key
                         /\ Choices \subseteq {"none", "dual", "single"}
                         /\ Resettable \in BOOLEAN
\* Fighters start out of reach of one another, and far below Nobody.
ASSUME ApartAssumption ==
  /\ Reach \in Nat
  /\ \A b \in {"p2", "ai"} : Distance(StartX["p1"], StartX[b]) > Reach
  /\ Ground > HeadRoom

\* mode_choose.sv: who player 2 is.  Nobody, at the upper left corner, as long
\* as no mode is chosen.
Nobody == [x |-> 0, y |-> 0, mx |-> 0, act |-> "none"]
Rival == CASE mode = "dual" -> body["p2"]
           [] mode = "single" -> body["ai"]
           [] OTHER -> Nobody

Seen == <<body["p1"], Rival>>
Against(b) == IF b = "p1" THEN Rival ELSE body["p1"]
Asked == [p \in Players |-> Seen[p].act]

\* valid1 and valid2 (blitter.sv:17-18): in reach, level and facing.
ValidFor(p) == LET s == Seen[p]  o == Seen[3 - p]
               IN  /\ Distance(s.x, o.x) <= Reach
                   /\ Level(s, o)
                   /\ \/ o.x > s.x /\ face[p].right
                      \/ o.x < s.x /\ face[p].left
Valid == [p \in Players |-> ValidFor(p)]

Pulses == [p \in Players |-> Biting(p)]
Guards == [p \in Players |-> Dodging(p)]

Flights == [b \in Body |-> [jump |-> body[b].act = "jump",
                            near |-> Near(body[b], Against(b)),
                            y    |-> body[b].y,
                            oy   |-> Against(b).y]]

\* Power-up.  With no key pressed yet it is also what Reset leaves, but for
\* the animations, their counters, the mode and the facing outputs.
Init == /\ FightersInit /\ MovesInit /\ FaceInit /\ GravInit /\ Hp!Init
        /\ mode = "none"

\* Reset (KEY[0]).
Reset == /\ Resettable
         /\ FightersReset /\ FaceReset /\ GravReset /\ Hp!Reset
         /\ UNCHANGED <<metro, moves, mode>>

Tick == /\ FaceTick(Asked)
        /\ GravTick(Flights)
        /\ Hp!Tick(Pulses, Valid, Guards)
        /\ UNCHANGED frameVars

AtRest == /\ TurnedFace(Asked) = face
          /\ Flown(Flights) = grav
          /\ Hp!Quiet(Pulses, Valid)

OverForPlayer2 == won[2]
Over == won[1] \/ won[2]

\* The command keys of a body; the AI has none and looks for itself.
Wanted(b, keys) ==
  IF b = "ai" THEN AIWants(body[b], body["p1"], face[1])
  ELSE {c \in Command : <<Player(b), c>> \in keys}

PickedByOwnFace(b, keys) ==
  Picked(b, body[b], Against(b), face[Player(b)], Wanted(b, keys), Over,
         back[Player(b)], <<1, "enter">> \in keys)
PickedNow(b, keys) ==
  Picked(b, body[b], Against(b), face[3 - Player(b)], Wanted(b, keys), Over,
         back[Player(b)], <<1, "enter">> \in keys)

\* The AI's body moves only once somebody has pressed Enter.
BodiesFrame(keys) ==
  body' = [b \in Body |-> IF b = "ai" /\ ~ start THEN body[b]
                          ELSE Moved(b, body[b], PickedNow(b, keys))]

\* Enter counts when no other branch of ball.sv is taken.
StartFrame(keys) ==
  start' = (start \/ /\ <<1, "enter">> \in keys
                     /\ ~ Over /\ back[1] = 0
                     /\ Taken("p1", Wanted("p1", keys)) = "none")

\* indicator.sv looks at the first key only, and only before the start.
ModeFrame(choice) ==
  mode' = IF choice # "none" /\ ~ start THEN choice ELSE mode

Frame(keys, choice) ==
  /\ AtRest
  /\ BodiesFrame(keys)
  /\ StartFrame(keys)
  /\ ModeFrame(choice)
  /\ MovesFrame(Asked)
  /\ UNCHANGED clkVars

AnyFrame == \E keys \in Menu, choice \in Choices : Frame(keys, choice)

Next == Tick \/ AnyFrame \/ Reset

Spec == Init /\ [][Next]_vars

\* Both clocks run for ever.  A tick that changes something and a frame are
\* never possible together, so one condition is fair to either.
FairSpec == Spec /\ WF_vars(Tick \/ AnyFrame)
\* As one of them always can, fairness says that one always comes again.
RunningSpec == Spec /\ []<><<Tick \/ AnyFrame>>_vars
-----------------------------------------------------------------------------
TypeOK ==
  /\ body \in [Body -> [x : 0 .. Width - 1, y : 0 .. Width - 1,
                        mx : 0 .. Width - 1, act : Request]]
  /\ start \in BOOLEAN
  /\ mode \in {"none", "dual", "single"}
  /\ \A p \in Players, m \in Moving : moves[p][m] \in Stages(m)
  /\ face \in [Players -> [state : FaceState, left : BOOLEAN, right : BOOLEAN]]
  /\ grav \in [Body -> [state : 0 .. 3, motion : {0, Up, Down}]]
  /\ Hp!TypeOK

\* A knockback raised on Clk is not withdrawn before the frame that reads it:
\* when back1 or back2 goes back to 0 its victim has taken it, as a knockback
\* or, if he dodged, as a step behind his guard.  (The AI of a match nobody
\* has started yet reads nothing.)
KnockbackIsSeen ==
  [][\A p \in Players :
       (back[p] # 0 /\ back'[p] = 0 /\ (p = 1 \/ mode = "dual"))
         => (Asked[p] = (IF back[p] = 2 THEN "back" ELSE "dodge")) \/ Reset]_vars

\* A column of the screen.  A fighter pushed over the edge of the ten-bit
\* coordinate leaves it; the properties below are about fighters who are on it.
OnScreen(b) == body[b].x <= XMax

\* A knocked-back fighter flies away from the one who hit him.
KnockedAway ==
  [][\A b \in {"p1", "p2"} :
       (/\ OnScreen("p1") /\ OnScreen("p2") /\ mode = "dual"
        /\ back[Player(b)] = 2 /\ body'[b].mx \in {Knock, Minus(Knock)})
         => body'[b].mx = IF body[b].x < Against(b).x THEN Minus(Knock)
                                                      ELSE Knock]_vars

\* No fighter performs two moves at once, whatever command keys come when: the
\* request registers change every frame, the moves start on the beat, and what
\* shows vetoes the next request one frame late.  (It takes the Enter key, which
\* keeps a request standing, to make two moves overlap.)
OneMove == \A p \in Players : \A m, n \in Showing(p) \ {"back"} : m = n
OneMoveAtATime == TypeOK /\ OneMove

\* The frames it is about: nobody presses Enter while player 1 has a move
\* requested (ball.sv then leaves the request as it is, whatever shows).
TidyFrame == \E keys \in Menu, choice \in Choices :
               /\ <<1, "enter">> \in keys => body["p1"].act \notin Attacks
               /\ Frame(keys, choice)
TidySpec == Init /\ [][Tick \/ TidyFrame \/ Reset]_vars

\* A flight ends exactly on the ground.
LandsOnGround ==
  AtRest => \A b \in Body : grav[b].state = 0 =>
              body[b].y = Ground /\ grav[b].motion = 0

\* The computer opponent goes after player 1 wherever he runs or slides, until
\* it has him in its longest range, the match is over, or one of them has been
\* pushed off the screen.
AIClosesIn ==
  (start /\ mode = "single")
    ~> (\/ Distance(body["ai"].x, body["p1"].x) <= Range["jump"]
        \/ Over \/ ~ OnScreen("p1") \/ ~ OnScreen("ai"))

\* The Clk side comes to rest between two frames.
ClkSettles == []<>AtRest

\* After a knockout both fighters come to a stop, unless Reset.
Fallen == \E p \in Players : hpbar[p] = 0
VictoryHalts == Fallen ~> (~ Fallen \/ \A b \in {"p1", "p2"} :
                             body[b].mx = 0 /\ body[b].act = "stand")

-----------------------------------------------------------------------------
\* What comments and documents of the repository say, and the code does not do.

\* ball.sv:12-13: column 0 is the leftmost point and 639 the rightmost.
ColumnsOnScreen == \A b \in {"p1", "p2"} : body[b].x \in 0 .. XMax

\* ball.sv:14-15: row 0 is the topmost point and 479 the bottommost.
RowsOnScreen == \A b \in {"p1", "p2"} : body[b].y \in 0 .. YMax

\* README.md:3: the figures fight and are animated smoothly.  blitter.sv draws
\* a fighter when at most one move shows and his side is known.
Drawn(p) == /\ \A m, n \in Showing(p) : m = n
            /\ \/ face[p].left \/ face[p].right
               \/ Asked[p] \in {"left", "right"}
FightersAreDrawn == (start /\ AtRest /\ ~ Over) => \A p \in Players : Drawn(p)

\* README.md:3: the AI makes the two figures fight.
AIFights == (start /\ mode = "single")
              ~> (~ start \/ Biting(2) # {} \/ Over)
=============================================================================
