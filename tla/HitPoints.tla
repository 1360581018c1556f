------------------------------ MODULE HitPoints ------------------------------
(***************************************************************************)
(* hp.sv, the score keeper of the game.  It runs on the 50 MHz Clk, looks  *)
(* at the two players' attack pulses, at whether each is in reach of the   *)
(* other and at whether each is dodging, takes the damage off the bars,    *)
(* tells the loser of an exchange to reel back, and latches the winner.    *)
(*                                                                         *)
(* The source keeps one state register with thirteen values: normal, and   *)
(* for each of the six attacks S_x (the attack counts now) and is_x (it    *)
(* has counted, wait for its pulse to end).  Here that register is the     *)
(* pair phase, attack.                                                     *)
(***************************************************************************)
EXTENDS Integers, Sequences

CONSTANTS Full,   \* 200, the length of a full bar
          Hard,   \* Hard[m]: what move m costs a player who does not dodge
          Soft    \* Soft[m]: what it costs one who does

Player == {1, 2}
Other(p) == 3 - p
Move == {"kick", "fight", "jump"}

Attack == [by : Player, move : Move]
NoAttack == [by |-> 0, move |-> "none"]

ASSUME FullAssumption == Full \in Nat \ {0}
ASSUME DamageAssumption == /\ Hard \in [Move -> Nat \ {0}]
                           /\ Soft \in [Move -> Nat \ {0}]
                           /\ \A m \in Move : Soft[m] <= Hard[m]

VARIABLES phase,   \* "normal", "S" (an attack counts now) or "is" (it has)
          attack,  \* the attack of an S_x or is_x state
          hpbar,   \* hpbar1, hpbar2
          back,    \* back1, back2: 0 none, 1 a dodged blow, 2 a full one
          won      \* p1, p2: the latched winners

vars == <<phase, attack, hpbar, back, won>>

\* Power-up values, which are also those Reset loads.
Init == /\ phase = "normal"
        /\ attack = NoAttack
        /\ hpbar = [p \in Player |-> Full]
        /\ back = [p \in Player |-> 0]
        /\ won = [p \in Player |-> FALSE]

Reset == /\ phase' = "normal"
         /\ attack' = NoAttack
         /\ hpbar' = [p \in Player |-> Full]
         /\ back' = [p \in Player |-> 0]
         /\ won' = [p \in Player |-> FALSE]

Empty(p) == hpbar[p] = 0

\* The frozen branches of the register process.  Player 2's bar is looked at
\* first.
Declare == /\ \E p \in Player : Empty(p)
           /\ won' = [won EXCEPT ![IF Empty(2) THEN 1 ELSE 2] = TRUE]
           /\ UNCHANGED <<phase, attack, hpbar, back>>

\* The order in which the normal state looks for an attack that may count.
Priority == << [by |-> 1, move |-> "kick"], [by |-> 1, move |-> "fight"],
               [by |-> 2, move |-> "kick"], [by |-> 2, move |-> "fight"],
               [by |-> 1, move |-> "jump"], [by |-> 2, move |-> "jump"] >>

\* striking[p] is the set of moves whose pulse player p drives, valid[p] that
\* p is in reach of the other player and faces him.
Lands(a, striking, valid) == a.move \in striking[a.by] /\ valid[a.by]

\* The normal state: knockbacks end, and the first attack that lands is taken.
Watch(striking, valid) ==
  /\ phase = "normal"
  /\ back' = [p \in Player |-> 0]
  /\ \/ \E i \in 1 .. Len(Priority) :
          /\ Lands(Priority[i], striking, valid)
          /\ \A j \in 1 .. i - 1 : ~ Lands(Priority[j], striking, valid)
          /\ phase' = "S"
          /\ attack' = Priority[i]
     \/ /\ \A i \in 1 .. Len(Priority) : ~ Lands(Priority[i], striking, valid)
        /\ UNCHANGED <<phase, attack>>
  /\ UNCHANGED <<hpbar, won>>

\* A state S_x: the victim pays and is knocked back.  A blow that takes the
\* rest of the bar knocks nobody back, and it takes it from a dodging victim
\* as well.
StrikeReelOnKO(dodging) ==
  /\ phase = "S"
  /\ phase' = "is"
  /\ LET v == Other(attack.by)
         cost == IF dodging[v] THEN Soft[attack.move] ELSE Hard[attack.move]
     IN  /\ hpbar' = [hpbar EXCEPT ![v] = IF @ <= Hard[attack.move] THEN 0
                                          ELSE @ - cost]
         /\ back' = [back EXCEPT ![v] = IF dodging[v] THEN 1 ELSE 2]
  /\ UNCHANGED <<attack, won>>
StrikeAgain(dodging) ==
  /\ phase = "S"
  /\ LET v == Other(attack.by)
         cost == IF dodging[v] THEN Soft[attack.move] ELSE Hard[attack.move]
     IN  IF hpbar[v] <= Hard[attack.move]
         THEN hpbar' = [hpbar EXCEPT ![v] = 0] /\ back' = back
         ELSE /\ hpbar' = [hpbar EXCEPT ![v] = @ - cost]
              /\ back' = [back EXCEPT ![v] = IF dodging[v] THEN 1 ELSE 2]
  /\ UNCHANGED <<phase, attack, won>>
Strike(dodging) ==
  /\ phase = "S"
  /\ phase' = "is"
  /\ LET v == Other(attack.by)
         cost == IF dodging[v] THEN Soft[attack.move] ELSE Hard[attack.move]
     IN  IF hpbar[v] <= Hard[attack.move]
         THEN hpbar' = [hpbar EXCEPT ![v] = 0] /\ back' = back
         ELSE /\ hpbar' = [hpbar EXCEPT ![v] = @ - cost]
              /\ back' = [back EXCEPT ![v] = IF dodging[v] THEN 1 ELSE 2]
  /\ UNCHANGED <<attack, won>>

\* A state is_x: wait for the pulse of the attack that counted to end.
FollowAtOnce(striking) ==
  /\ phase = "is"
  /\ phase' = "normal" /\ attack' = NoAttack
  /\ UNCHANGED <<hpbar, back, won>>
Follow(striking) ==
  /\ phase = "is"
  /\ IF attack.move \in striking[attack.by]
     THEN UNCHANGED <<phase, attack>>
     ELSE phase' = "normal" /\ attack' = NoAttack
  /\ UNCHANGED <<hpbar, back, won>>

\* One rising edge of Clk with Reset released.
TickRunsOn(striking, valid, dodging) ==
  Declare \/ Watch(striking, valid) \/ Strike(dodging) \/ Follow(striking)
Tick(striking, valid, dodging) ==
  \/ Declare
  \/ /\ \A p \in Player : ~ Empty(p)
     /\ Watch(striking, valid) \/ Strike(dodging) \/ Follow(striking)

\* An edge with these inputs would change nothing.
Quiet(striking, valid) ==
  IF \E p \in Player : Empty(p)
  THEN won[IF Empty(2) THEN 1 ELSE 2]
  ELSE \/ phase = "is" /\ attack.move \in striking[attack.by]
       \/ /\ phase = "normal"
          /\ \A p \in Player : back[p] = 0
          /\ \A i \in 1 .. Len(Priority) : ~ Lands(Priority[i], striking, valid)

\* In this module the inputs are whatever they like at every edge.
AnyTick == \E striking \in [Player -> SUBSET Move],
              valid, dodging \in [Player -> BOOLEAN] :
             Tick(striking, valid, dodging)

Next == AnyTick \/ Reset

Spec == Init /\ [][Next]_vars

\* Clk does not stop.
FairSpec == Spec /\ WF_vars(AnyTick)

-----------------------------------------------------------------------------
TypeOK == /\ phase \in {"normal", "S", "is"}
          /\ attack \in Attack \cup {NoAttack}
          /\ (phase = "normal") <=> (attack = NoAttack)
          /\ hpbar \in [Player -> 0 .. Full]
          /\ back \in [Player -> 0 .. 2]
          /\ won \in [Player -> BOOLEAN]

\* There is one winner at most, he is alive, and his opponent's bar is empty:
\* p1win and p2win never contradict the bars on the screen (hp.sv:37-38).
WinnerIsForced == \A p \in Player :
  won[p] => /\ ~ won[Other(p)]
            /\ hpbar[p] > 0
            /\ hpbar[Other(p)] = 0

\* When a bar is empty nobody is being knocked back.  back1 and back2 freeze
\* with the rest of hp.sv, so a knockback pending at that moment would last
\* for ever.
KnockoutIsStill ==
  (\E p \in Player : Empty(p)) => \A p \in Player : back[p] = 0

\* Only the victim of the attack that just counted is knocked back, so the two
\* players never reel together, and no blow counts while a player reels from
\* an earlier one.
OneReels ==
  /\ \A p \in Player : back[p] # 0 /\ phase = "is" => attack.by = Other(p)
  /\ back[1] = 0 \/ back[2] = 0
  /\ phase = "S" => \A p \in Player : back[p] = 0

\* The invariant that carries them all.
IInv == TypeOK /\ WinnerIsForced /\ KnockoutIsStill /\ OneReels
        /\ (\E p \in Player : hpbar[p] > 0)
        /\ ((\E p \in Player : Empty(p)) => phase = "is")

\* Until Reset a verdict is final, and after it no bar moves.
VerdictIsFinal ==
  [][\A p \in Player : won[p] => (won'[p] /\ hpbar' = hpbar) \/ Reset]_vars

\* hp.sv keeps the promise of a bout: a pulse, however long and whatever the
\* other player does meanwhile, costs the victim once; the first empty bar
\* decides; the verdict comes and stays.
Hardest == CHOOSE d \in {Hard[m] : m \in Move} :
             \A m \in Move : Hard[m] <= d

B == INSTANCE Bout WITH
       hp <- hpbar,
       exchange <- IF phase = "is" THEN "spent" ELSE "open",
       winner <- IF won[1] THEN 1 ELSE IF won[2] THEN 2 ELSE 0,
       MaxBlow <- Hardest

ImplementsBout == B!Spec
=============================================================================
