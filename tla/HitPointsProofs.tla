-------------------------- MODULE HitPointsProofs --------------------------
(***************************************************************************)
(* Proofs about hp.sv for every length of the bars and every damage table. *)
(* The invariant IInv is inductive; the properties of the score keeper and *)
(* its refinement of Bout follow from it.                                  *)
(***************************************************************************)
EXTENDS HitPoints, TLAPS

\* The six attacks the normal state looks for are attacks of the two players.
LEMMA PriorityType ==
  /\ Len(Priority) = 6
  /\ \A i \in 1 .. 6 : Priority[i] \in Attack
  BY DEF Priority, Attack, Player, Move

\* The bars, the knockbacks and the verdict before the first edge of Clk.
LEMMA InitIInv == Init => IInv
  BY FullAssumption DEF Init, IInv, TypeOK, WinnerIsForced, KnockoutIsStill,
     OneReels, Player, Other, Attack, NoAttack, Empty

\* A verdict is given to the living player of a knockout (hp.sv:37-38).
LEMMA DeclareIInv == IInv /\ Declare => IInv'
  BY DEF Declare, IInv, TypeOK, WinnerIsForced, KnockoutIsStill, OneReels,
     Player, Other, Empty

\* Taking up an attack ends every knockback (hp.sv:126-132).
LEMMA WatchIInv ==
  ASSUME IInv, NEW striking, NEW valid, \A p \in Player : ~ Empty(p),
         Watch(striking, valid)
  PROVE  IInv'
<1>1. \A p \in Player : hpbar[p] > 0 /\ ~ won[p]
  BY DEF IInv, TypeOK, WinnerIsForced, Empty, Player, Other
<1>2. CASE phase' = "S" /\ attack' \in Attack
  BY <1>1, <1>2 DEF Watch, IInv, TypeOK, WinnerIsForced, KnockoutIsStill,
     OneReels, Empty, Player, Other, Attack, NoAttack
<1>3. CASE UNCHANGED <<phase, attack>>
  BY <1>1, <1>3 DEF Watch, IInv, TypeOK, WinnerIsForced, KnockoutIsStill,
     OneReels, Empty, Player, Other
<1>4. (phase' = "S" /\ attack' \in Attack) \/ UNCHANGED <<phase, attack>>
  BY PriorityType DEF Watch
<1>5. QED  BY <1>2, <1>3, <1>4

\* What a counted attack does to the bars and the knockbacks (hp.sv:43-124).
LEMMA StrikeEffect ==
  ASSUME IInv, NEW dodging \in [Player -> BOOLEAN],
         \A p \in Player : ~ Empty(p), Strike(dodging),
         NEW v, v = Other(attack.by), NEW m, m = attack.move
  PROVE  /\ attack.by \in Player /\ v \in Player /\ m \in Move
         /\ Other(v) = attack.by /\ v # attack.by
         /\ hpbar' \in [Player -> 0 .. Full]
         /\ hpbar'[attack.by] = hpbar[attack.by]
         /\ back'[attack.by] = 0
         /\ back' \in [Player -> 0 .. 2]
         /\ hpbar'[v] = 0 => back'[v] = 0
         /\ \E d \in {Hard[m], Soft[m]} :
              hpbar' = [hpbar EXCEPT ![v] = IF @ <= d THEN 0 ELSE @ - d]
<1>1. /\ attack.by \in Player /\ v \in Player /\ m \in Move
      /\ Other(v) = attack.by /\ v # attack.by
  BY DEF Strike, IInv, TypeOK, Attack, NoAttack, Player, Other
<1>2. /\ Hard[m] \in Nat /\ Soft[m] \in Nat
      /\ Hard[m] > 0 /\ Soft[m] > 0 /\ Soft[m] <= Hard[m]
      /\ hpbar \in [Player -> 0 .. Full] /\ hpbar[v] \in Nat
      /\ hpbar[v] <= Full /\ Full \in Nat
      /\ back = [p \in Player |-> 0]
  BY <1>1, DamageAssumption, FullAssumption DEF IInv, TypeOK, OneReels, Strike
<1>3. CASE hpbar[v] <= Hard[m]
  <2>1. hpbar' = [hpbar EXCEPT ![v] = 0] /\ back' = back
    BY <1>3 DEF Strike
  <2>2. hpbar' = [hpbar EXCEPT ![v] = IF @ <= Hard[m] THEN 0 ELSE @ - Hard[m]]
    BY <1>1, <1>2, <1>3, <2>1
  <2>3. hpbar' \in [Player -> 0 .. Full] /\ hpbar'[attack.by] = hpbar[attack.by]
    BY <1>1, <1>2, <2>1
  <2>4. back' \in [Player -> 0 .. 2] /\ back'[attack.by] = 0 /\ back'[v] = 0
    BY <1>1, <1>2, <2>1
  <2>5. QED  BY <1>1, <2>2, <2>3, <2>4
<1>4. CASE ~ (hpbar[v] <= Hard[m])
  <2> DEFINE cost == IF dodging[v] THEN Soft[m] ELSE Hard[m]
  <2>1. /\ hpbar' = [hpbar EXCEPT ![v] = @ - cost]
        /\ back' = [back EXCEPT ![v] = IF dodging[v] THEN 1 ELSE 2]
    BY <1>4 DEF Strike
  <2>2. /\ cost \in {Hard[m], Soft[m]} /\ cost \in Nat
        /\ cost > 0 /\ hpbar[v] > cost
    BY <1>1, <1>2, <1>4
  <2> HIDE DEF cost
  <2>3. hpbar' = [hpbar EXCEPT ![v] = IF @ <= cost THEN 0 ELSE @ - cost]
    <3>1. ~ (hpbar[v] <= cost)
      BY <1>2, <2>2
    <3>2. QED  BY <3>1, <2>1
  <2>4. /\ hpbar' \in [Player -> 0 .. Full] /\ hpbar'[v] # 0
        /\ hpbar'[attack.by] = hpbar[attack.by]
    BY <1>1, <1>2, <2>1, <2>2
  <2>5. back' \in [Player -> 0 .. 2] /\ back'[attack.by] = 0
    BY <1>1, <1>2, <2>1
  <2>6. QED  BY <1>1, <2>2, <2>3, <2>4, <2>5
<1>5. QED  BY <1>3, <1>4

\* A counted attack keeps the invariant: it knocks back its victim alone, and
\* nobody when it empties the bar (hp.sv:43-124).
LEMMA StrikeIInv ==
  ASSUME IInv, NEW dodging \in [Player -> BOOLEAN],
         \A p \in Player : ~ Empty(p), Strike(dodging)
  PROVE  IInv'
<1> DEFINE v == Other(attack.by)
<1>1. /\ attack.by \in Player /\ v \in Player /\ v # attack.by
      /\ hpbar' \in [Player -> 0 .. Full]
      /\ hpbar'[attack.by] = hpbar[attack.by]
      /\ back'[attack.by] = 0 /\ back' \in [Player -> 0 .. 2]
      /\ hpbar'[v] = 0 => back'[v] = 0
  BY StrikeEffect
<1>2. phase' = "is" /\ attack' = attack /\ won' = won /\ phase = "S"
  BY DEF Strike
<1>3. \A p \in Player : hpbar[p] > 0 /\ ~ won[p]
  BY DEF IInv, TypeOK, WinnerIsForced, Empty, Player, Other
<1>4. Player = {attack.by, v}
  BY <1>1 DEF Player
<1>5. TypeOK'
  BY <1>1, <1>2 DEF IInv, TypeOK
<1>6. WinnerIsForced' /\ KnockoutIsStill'
  BY <1>1, <1>2, <1>3, <1>4 DEF WinnerIsForced, KnockoutIsStill, Empty
<1>7. OneReels'
  BY <1>1, <1>2, <1>4 DEF OneReels, Player, Other
<1>8. QED  BY <1>1, <1>2, <1>3, <1>5, <1>6, <1>7 DEF IInv, Empty

\* Waiting for a pulse to end touches neither bars nor knockbacks.
LEMMA FollowIInv ==
  ASSUME IInv, NEW striking, \A p \in Player : ~ Empty(p), Follow(striking)
  PROVE  IInv'
  BY DEF Follow, IInv, TypeOK, WinnerIsForced, KnockoutIsStill, OneReels,
     Empty, Player, Other

\* Reset loads the power-up values (hp.sv:27-36).
LEMMA ResetIInv == Reset => IInv'
  BY FullAssumption DEF Reset, IInv, TypeOK, WinnerIsForced, KnockoutIsStill,
     OneReels, Player, Other, Attack, NoAttack, Empty

\* IInv is inductive: one step per branch of the register process.
LEMMA NextIInv == IInv /\ [Next]_vars => IInv'
<1> SUFFICES ASSUME IInv, [Next]_vars PROVE IInv'
  OBVIOUS
<1>1. CASE Reset
  BY <1>1, ResetIInv
<1>2. ASSUME NEW striking \in [Player -> SUBSET Move],
             NEW valid \in [Player -> BOOLEAN],
             NEW dodging \in [Player -> BOOLEAN],
             Tick(striking, valid, dodging)
      PROVE  IInv'
  BY <1>2, DeclareIInv, WatchIInv, StrikeIInv, FollowIInv DEF Tick
<1>3. CASE UNCHANGED vars
  BY <1>3 DEF vars, IInv, TypeOK, WinnerIsForced, KnockoutIsStill, OneReels,
     Empty
<1>4. QED  BY <1>1, <1>2, <1>3 DEF Next, AnyTick

\* For every damage table hp.sv stays in the states its conditions assume.
THEOREM InvariantHolds == Spec => []IInv
  BY InitIInv, NextIInv, PTL DEF Spec

\* The registers keep to their ranges: no bar wraps below zero or passes Full.
THEOREM TypeCorrect == Spec => []TypeOK
<1>1. IInv => TypeOK  BY DEF IInv
<1>2. QED  BY <1>1, InvariantHolds, PTL

\* p1win and p2win agree with the bars and never with each other.
THEOREM WinnerIsForcedHolds == Spec => []WinnerIsForced
<1>1. IInv => WinnerIsForced  BY DEF IInv
<1>2. QED  BY <1>1, InvariantHolds, PTL

\* A knockout leaves no knockback pending.
THEOREM KnockoutIsStillHolds == Spec => []KnockoutIsStill
<1>1. IInv => KnockoutIsStill  BY DEF IInv
<1>2. QED  BY <1>1, InvariantHolds, PTL

\* The two players never reel together.
THEOREM OneReelsHolds == Spec => []OneReels
<1>1. IInv => OneReels  BY DEF IInv
<1>2. QED  BY <1>1, InvariantHolds, PTL

\* A verdict is withdrawn, and a bar moves after it, only by Reset.
THEOREM VerdictIsFinalHolds == Spec => VerdictIsFinal
<1>1. IInv /\ [Next]_vars
      => [\A p \in Player :
            won[p] => (won'[p] /\ hpbar' = hpbar) \/ Reset]_vars
  <2> SUFFICES ASSUME IInv, Next, NEW p \in Player, won[p], ~ Reset
               PROVE  won'[p] /\ hpbar' = hpbar
    BY DEF vars
  <2>1. Empty(Other(p)) /\ Other(p) \in Player
    BY DEF IInv, WinnerIsForced, Empty, Player, Other
  <2>2. Declare
    BY <2>1 DEF Next, AnyTick, Tick
  <2>3. QED  BY <2>2 DEF Declare, IInv, TypeOK
<1>2. QED  BY <1>1, InvariantHolds, PTL DEF Spec, VerdictIsFinal

-----------------------------------------------------------------------------
\* The refinement of Bout.

\* Hardest is the largest entry of the damage table, dodged blows included.
LEMMA HardestBounds ==
  Hardest \in Nat /\ \A m \in Move : Hard[m] <= Hardest
<1> DEFINE H == {Hard[m] : m \in Move}
<1>1. H = {Hard["kick"], Hard["fight"], Hard["jump"]} /\ H \subseteq Nat
  BY DamageAssumption DEF Move
<1>2. \E d \in H : \A m \in Move : Hard[m] <= d
  BY <1>1, DamageAssumption DEF Move
<1>3. Hardest \in H /\ \A m \in Move : Hard[m] <= Hardest
  BY <1>2 DEF Hardest
<1>4. QED  BY <1>1, <1>3

\* Power-up is the start of a bout.
LEMMA InitRefines == Init => B!Init
  BY DEF Init, B!Init, B!Player, Player

\* A latched winner is a declaration, a repeated one a stutter.
LEMMA DeclareRefines == IInv /\ Declare => [B!Next]_(B!boutVars)
<1> SUFFICES ASSUME IInv, Declare PROVE [B!Next]_(B!boutVars)
  OBVIOUS
<1> DEFINE p == IF Empty(2) THEN 1 ELSE 2
<1>1. /\ p \in Player /\ hpbar[Other(p)] = 0
      /\ won' = [won EXCEPT ![p] = TRUE] /\ ~ won[Other(p)]
      /\ UNCHANGED <<phase, attack, hpbar, back>>
  BY DEF Declare, IInv, WinnerIsForced, Empty, Player, Other
<1>2. CASE won[p]
  <2>1. won' = won
    BY <1>1, <1>2 DEF IInv, TypeOK
  <2>2. QED  BY <1>1, <2>1 DEF B!boutVars
<1>3. CASE ~ won[p]
  <2>1. ~ won[1] /\ ~ won[2]
    BY <1>1, <1>3 DEF Player, Other
  <2>2. won'[p] /\ ~ won'[Other(p)]
    BY <1>1, <2>1 DEF IInv, TypeOK, Player, Other
  <2>3. /\ (IF won[1] THEN 1 ELSE IF won[2] THEN 2 ELSE 0) = 0
        /\ (IF won[1] THEN 1 ELSE IF won[2] THEN 2 ELSE 0)' = p
    BY <1>1, <2>1, <2>2 DEF Player, Other
  <2>4. B!Declare(p)
    BY <1>1, <2>3 DEF B!Declare, B!Other, Other
  <2>5. QED  BY <1>1, <2>4 DEF B!Next, B!Player, Player
<1>4. QED  BY <1>2, <1>3

\* Seeing an attack is not yet a blow.
LEMMA WatchRefines ==
  ASSUME NEW striking, NEW valid, Watch(striking, valid)
  PROVE  UNCHANGED B!boutVars
<1>1. phase # "is" /\ phase' # "is" /\ UNCHANGED <<hpbar, won>>
  BY DEF Watch
<1>2. QED  BY <1>1 DEF B!boutVars

\* A counted attack is one blow, and it spends the exchange.
LEMMA StrikeRefines ==
  ASSUME IInv, NEW dodging \in [Player -> BOOLEAN],
         \A p \in Player : ~ Empty(p), Strike(dodging)
  PROVE  B!Next
<1> DEFINE v == Other(attack.by)
           m == attack.move
<1>1. /\ v \in Player /\ m \in Move
      /\ \E d \in {Hard[m], Soft[m]} :
           hpbar' = [hpbar EXCEPT ![v] = IF @ <= d THEN 0 ELSE @ - d]
  BY StrikeEffect
<1>2. PICK d \in {Hard[m], Soft[m]} :
        hpbar' = [hpbar EXCEPT ![v] = IF @ <= d THEN 0 ELSE @ - d]
  BY <1>1
<1>3. d \in 1 .. Hardest
  <2>1. /\ Hard[m] \in Nat /\ Hard[m] > 0 /\ Hard[m] <= Hardest
        /\ Soft[m] \in Nat /\ Soft[m] > 0 /\ Soft[m] <= Hard[m]
        /\ Hardest \in Nat
    BY <1>1, HardestBounds, DamageAssumption
  <2>2. QED  BY <2>1
<1>4. phase = "S" /\ phase' = "is" /\ won' = won
  BY DEF Strike
<1>5. \A p \in Player : hpbar[p] > 0
  BY DEF IInv, TypeOK, Empty
<1>6. B!Blow(v, d)
  BY <1>2, <1>4, <1>5 DEF B!Blow, B!Undecided, B!Player, Player
<1>7. QED  BY <1>1, <1>3, <1>6 DEF B!Next, B!Player, Player

\* The end of the pulse reopens the exchange.
LEMMA FollowRefines ==
  ASSUME IInv, NEW striking, \A p \in Player : ~ Empty(p), Follow(striking)
  PROVE  [B!Next]_(B!boutVars)
<1>1. \A p \in Player : hpbar[p] > 0
  BY DEF IInv, TypeOK, Empty
<1>2. phase = "is" /\ phase' \in {"is", "normal"} /\ UNCHANGED <<hpbar, won>>
  BY DEF Follow
<1>3. CASE phase' = "is"
  BY <1>2, <1>3 DEF B!boutVars
<1>4. CASE phase' = "normal"
  <2>1. B!Reopen
    BY <1>1, <1>2, <1>4 DEF B!Reopen, B!Undecided, B!Player, Player
  <2>2. QED  BY <2>1 DEF B!Next
<1>5. QED  BY <1>2, <1>3, <1>4

\* Every edge of Clk and Reset is a step of the bout or a stutter.
LEMMA NextRefines == IInv /\ [Next]_vars => [B!Next]_(B!boutVars)
<1> SUFFICES ASSUME IInv, [Next]_vars PROVE [B!Next]_(B!boutVars)
  OBVIOUS
<1>1. CASE Reset
  <2>1. B!NewBout
    BY <1>1 DEF Reset, B!NewBout, B!Player, Player
  <2>2. QED  BY <2>1 DEF B!Next
<1>2. ASSUME NEW striking \in [Player -> SUBSET Move],
             NEW valid \in [Player -> BOOLEAN],
             NEW dodging \in [Player -> BOOLEAN],
             Tick(striking, valid, dodging)
      PROVE  [B!Next]_(B!boutVars)
  BY <1>2, DeclareRefines, WatchRefines, StrikeRefines, FollowRefines DEF Tick
<1>3. CASE UNCHANGED vars
  BY <1>3 DEF vars, B!boutVars
<1>4. QED  BY <1>1, <1>2, <1>3 DEF Next, AnyTick

\* hp.sv implements the safety part of Bout for every bar and damage table.
THEOREM ImplementsTheBout == Spec => B!SafeSpec
<1>1. Init => B!Init
  BY InitRefines
<1>2. IInv /\ [Next]_vars => [B!Next]_(B!boutVars)
  BY NextRefines
<1>3. QED  BY <1>1, <1>2, InvariantHolds, PTL DEF Spec, B!SafeSpec
=============================================================================
