------------------------------- MODULE MCMatch -------------------------------
(***************************************************************************)
(* The match on a small screen.  Columns are scaled so that a fighter still*)
(* needs several frames to cross the arena, a knockback is faster than a   *)
(* run, and an arm is eight runs long, as in the source; rows so that a    *)
(* flight takes four frames up; moves so that a picture lasts three frames.*)
(***************************************************************************)
EXTENDS Match

SmallHard == [kick |-> 2, fight |-> 1, jump |-> 3]
SmallSoft == [kick |-> 1, fight |-> 1, jump |-> 2]
SmallStart == [p1 |-> 6, p2 |-> 28, ai |-> 28]
SmallRange == [fight |-> 17, kick |-> 20, dodge |-> 23, jump |-> 26]

\* The AI needs a longer arena: a shorter arm, and ranges to match.
AiStart == [p1 |-> 4, p2 |-> 24, ai |-> 24]
AiRange == [fight |-> 9, kick |-> 11, dodge |-> 13, jump |-> 15]

RealHard == [kick |-> 14, fight |-> 8, jump |-> 20]
RealSoft == [kick |-> 7, fight |-> 4, jump |-> 10]
RealStart == [p1 |-> 0, p2 |-> 539, ai |-> 539]
RealRange == [fight |-> 60, kick |-> 70, dodge |-> 80, jump |-> 90]

\* At most one key of each player is down.
OneEach(C1, C2) ==
  {K \in SUBSET ({1} \X C1 \cup {2} \X C2) :
     \A p \in Players : \A k, l \in K : k[1] = p /\ l[1] = p => k = l}

\* Player 1 walks up and kicks, player 2 kicks back, or dodges a kick.
DuelMenu == {K \in OneEach({"kick", "right"}, {"kick", "dodge"}) :
               <<2, "dodge">> \in K => <<1, "kick">> \in K}
\* Player 1 beats up a player 2 who has left the keyboard.
KnockoutMenu == OneEach({"kick", "right"}, {})
\* One player tries all his moves, one key after the other.
MovesMenu == OneEach({"kick", "fight", "jump", "dodge"}, {})
\* One player jumps about, next to or over the other.
JumpMenu == OneEach({"jump", "left", "right"}, {})
\* Player 1 against the AI: he runs to and fro all the time, and slides on
\* when he presses Enter while he runs.
ChaseMenu == {{<<1, c>>} : c \in {"left", "right", "enter"}}
\* He presses Enter and watches.
IdleMenu == OneEach({"enter"}, {})
\* Player 2 walks up to player 1, who stays in his corner and may dodge.
CornerMenu == {{<<2, "left">>}, {<<1, "dodge">>, <<2, "left">>}}
\* They walk towards each other and jump together.
TogetherMenu == {{<<1, "right">>, <<2, "left">>}, {<<1, "jump">>, <<2, "jump">>}}
\* Both kick, after an Enter.
TradeMenu == OneEach({"right", "kick", "enter"}, {"kick"})

\* What the players do, and which opponent they have chosen.
Dual(menu) == [keys |-> menu, choices |-> {"dual"}, reset |-> FALSE]
Pattern == [duel     |-> Dual(DuelMenu),
            moves    |-> Dual(MovesMenu),
            jumps    |-> Dual(JumpMenu),
            corner   |-> Dual(CornerMenu),
            together |-> Dual(TogetherMenu),
            trade    |-> Dual(TradeMenu),
            idle     |-> [Dual(IdleMenu) EXCEPT !.choices = {"single"}],
            knockout |-> [Dual(KnockoutMenu) EXCEPT !.reset = TRUE],
            chase    |-> [Dual(ChaseMenu) EXCEPT !.choices = {"single"}]]

AnyKeys == UNION {Pattern[h].keys : h \in DOMAIN Pattern}
AnyChoice == UNION {Pattern[h].choices : h \in DOMAIN Pattern}

\* A match is played in one habit from beginning to end.
CONSTANT Habits
VARIABLE habit

HabitFrame == \E keys \in Pattern[habit].keys, choice \in Pattern[habit].choices :
                Frame(keys, choice)

MCInit == Init /\ habit \in Habits
MCNext == /\ Tick \/ HabitFrame \/ (Pattern[habit].reset /\ Reset)
          /\ UNCHANGED habit
MCSpec == MCInit /\ [][MCNext]_<<vars, habit>>
\* Both clocks run for ever.  A tick or a frame that changes something is always
\* possible, so the weak fairness of Match's FairSpec says just that one of them
\* comes again and again; TLC need not find out what is enabled.
MCFairSpec == MCSpec /\ []<><<Tick \/ HabitFrame>>_<<vars, habit>>
=============================================================================
