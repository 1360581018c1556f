---------------------------- MODULE MatchProofs ----------------------------
(***************************************************************************)
(* Proof that the fighters of lab8.sv make one move at a time, for every   *)
(* arena, every length of the beat and of the rests, every set of keys and *)
(* either opponent: what the request registers, the animations and the     *)
(* knockbacks of hp.sv, on two clocks, keep of one another.                *)
(***************************************************************************)
EXTENDS Match, Sequences, TLAPS

\* The attacks and guards that show of player p; a knockback does not count.
Shown(p) == Showing(p) \ {"back"}

\* The two bodies player 2 may have, or the one of player 1.
BodiesOf(p) == {b \in Body : Player(b) = p}

\* A body asks for a move while another one shows only in the frame after the
\* beat: what started on the beat is seen, and vetoes the request, one frame
\* later, long before the next beat.
LateOnlyAfterBeat ==
  \A b \in Body :
    body[b].act \in Attacks /\ ~ (Shown(Player(b)) \subseteq {body[b].act})
      => metro.beat = Beat - 1

\* The score keeper sends a player behind his guard (back = 1) only while his
\* guard shows; nothing else shows then, and what he still asks for besides he
\* has asked for after the beat.
GuardShows ==
  \A b \in Body :
    back[Player(b)] = 1 =>
      /\ Shown(Player(b)) \subseteq {"dodge"}
      /\ body[b].act \in Attacks \ {"dodge"} => Shown(Player(b)) = {"dodge"}

\* The computer opponent stands still until somebody has pressed Enter.
AIWaits == start \/ body["ai"].act = "stand"

MetroType == metro.beat \in 0 .. Beat - 1

IInv == /\ OneMoveAtATime
        /\ Hp!IInv
        /\ MetroType
        /\ LateOnlyAfterBeat
        /\ GuardShows
        /\ AIWaits

-----------------------------------------------------------------------------
\* The score keeper within the match.

Keeper == INSTANCE HitPointsProofs

LEMMA KeeperAssumption == Keeper!FullAssumption /\ Keeper!DamageAssumption
  BY ScoreAssumption DEF Keeper!FullAssumption, Keeper!DamageAssumption,
     Keeper!Move, Hp!FullAssumption, Hp!DamageAssumption, Hp!Move

LEMMA KeeperIInv == Hp!IInv <=> Keeper!IInv
  BY DEF Hp!IInv, Keeper!IInv, Hp!TypeOK, Keeper!TypeOK, Hp!WinnerIsForced,
     Keeper!WinnerIsForced, Hp!KnockoutIsStill, Keeper!KnockoutIsStill,
     Hp!OneReels, Keeper!OneReels, Hp!Empty, Keeper!Empty, Hp!Other,
     Keeper!Other, Hp!Player, Keeper!Player, Hp!Attack, Keeper!Attack,
     Hp!NoAttack, Keeper!NoAttack, Hp!Move, Keeper!Move

LEMMA KeeperIInvNext == Hp!IInv' <=> Keeper!IInv'
  BY DEF Hp!IInv, Keeper!IInv, Hp!TypeOK, Keeper!TypeOK, Hp!WinnerIsForced,
     Keeper!WinnerIsForced, Hp!KnockoutIsStill, Keeper!KnockoutIsStill,
     Hp!OneReels, Keeper!OneReels, Hp!Empty, Keeper!Empty, Hp!Other,
     Keeper!Other, Hp!Player, Keeper!Player, Hp!Attack, Keeper!Attack,
     Hp!NoAttack, Keeper!NoAttack, Hp!Move, Keeper!Move

\* What the animations and the geometry tell the score keeper.
LEMMA Inputs ==
  /\ Pulses \in [Keeper!Player -> SUBSET Keeper!Move]
  /\ Valid \in [Keeper!Player -> BOOLEAN]
  /\ Guards \in [Keeper!Player -> BOOLEAN]
<1>1. Keeper!Player = Players
  BY DEF Keeper!Player, Players
<1>2. \A p \in Players : Biting(p) \in SUBSET Keeper!Move
  BY DEF Biting, Keeper!Move
<1>3. \A p \in Players : ValidFor(p) \in BOOLEAN
  BY DEF ValidFor
<1>4. \A p \in Players : Dodging(p) \in BOOLEAN
  BY DEF Dodging
<1>5. QED  BY <1>1, <1>2, <1>3, <1>4 DEF Pulses, Valid, Guards

\* The score keeper keeps its invariant on every edge of Clk.
LEMMA KeeperTick ==
  ASSUME Hp!IInv, Hp!Tick(Pulses, Valid, Guards) PROVE Hp!IInv'
<1>1. Keeper!Tick(Pulses, Valid, Guards)
  BY DEF Hp!Tick, Keeper!Tick, Hp!Declare, Keeper!Declare, Hp!Watch,
     Keeper!Watch, Hp!Strike, Keeper!Strike, Hp!Follow, Keeper!Follow,
     Hp!Empty, Keeper!Empty, Hp!Player, Keeper!Player, Hp!Other,
     Keeper!Other, Hp!Lands, Keeper!Lands, Hp!Priority, Keeper!Priority,
     Hp!NoAttack, Keeper!NoAttack
<1>2. Keeper!Next
  BY <1>1, Inputs DEF Keeper!Next, Keeper!AnyTick
<1>3. QED
  BY <1>2, KeeperAssumption, KeeperIInv, KeeperIInvNext, Keeper!NextIInv

LEMMA KeeperReset == ASSUME Hp!Reset PROVE Hp!IInv'
<1>1. Keeper!Reset
  BY DEF Hp!Reset, Keeper!Reset, Hp!NoAttack, Keeper!NoAttack, Hp!Player,
     Keeper!Player
<1>2. QED
  BY <1>1, KeeperAssumption, KeeperIInvNext, Keeper!ResetIInv

LEMMA KeeperInit == ASSUME Hp!Init PROVE Hp!IInv
<1>1. Keeper!Init
  BY DEF Hp!Init, Keeper!Init, Hp!NoAttack, Keeper!NoAttack, Hp!Player,
     Keeper!Player
<1>2. QED
  BY <1>1, KeeperAssumption, KeeperIInv, Keeper!InitIInv

LEMMA KeeperStays ==
  ASSUME Hp!IInv, UNCHANGED <<phase, attack, hpbar, back, won>> PROVE Hp!IInv'
  BY DEF Hp!IInv, Hp!TypeOK, Hp!WinnerIsForced, Hp!KnockoutIsStill,
     Hp!OneReels, Hp!Empty

\* After a knockout nobody is knocked back.
LEMMA NoneReelsAfter ==
  ASSUME Hp!IInv, Over, NEW p \in Players PROVE back[p] = 0
  BY DEF Hp!IInv, Over, Hp!WinnerIsForced, Hp!KnockoutIsStill, Hp!Empty,
     Hp!Player, Hp!Other, Players

\* A player is sent behind his guard by an edge of Clk only when his dodge is
\* in its last picture.
LEMMA GuardRaised ==
  ASSUME Hp!IInv, Hp!Tick(Pulses, Valid, Guards), NEW p \in Players,
         back'[p] = 1
  PROVE  back[p] = 1 \/ moves[p]["dodge"] = 2
<1>1. back \in [Players -> 0 .. 2]
  BY DEF Hp!IInv, Hp!TypeOK, Hp!Player, Players
<1>2. CASE Hp!Strike(Guards)
  <2>1. attack.by \in Players /\ Hp!Other(attack.by) \in Players
    BY <1>2 DEF Hp!Strike, Hp!IInv, Hp!TypeOK, Hp!Attack, Hp!Player, Hp!Other,
       Players, Hp!NoAttack
  <2>. DEFINE v == Hp!Other(attack.by)
  <2>2. \/ back' = back
        \/ back' = [back EXCEPT ![v] = 1] /\ Dodging(v)
        \/ back' = [back EXCEPT ![v] = 2]
    <3>1. Guards[v] <=> Dodging(v)
      BY <2>1 DEF Guards
    <3>2. QED  BY <1>2, <3>1 DEF Hp!Strike
  <2>. HIDE DEF v
  <2>3. p # v => back'[p] = back[p]
    BY <1>1, <2>1, <2>2
  <2>4. p = v => back'[p] = back[p] \/ Dodging(p) \/ back'[p] = 2
    BY <1>1, <2>1, <2>2
  <2>5. QED  BY <2>3, <2>4 DEF Dodging, Pictures
<1>3. CASE Hp!Watch(Pulses, Valid)
  BY <1>3 DEF Hp!Watch, Hp!Player, Players
<1>4. QED  BY <1>2, <1>3 DEF Hp!Tick, Hp!Declare, Hp!Follow

-----------------------------------------------------------------------------
\* The animations.

LEMMA Pictured ==
  /\ \A m \in Moving : Pictures[m] \in Nat /\ Pictures[m] >= 2
  /\ \A m \in Moving \ {"back"} : Stages(m) = 0 .. Pictures[m] + 1
  /\ \A m \in Moving : 0 \in Stages(m) /\ Stages(m) \subseteq Nat
  /\ Attacks = Moving \ {"back"}
  BY DEF Moving, Pictures, Stages, Attacks

\* A frame moves the beat on by one.
LEMMA NextBeat ==
  ASSUME MetroType, metro' = [beat |-> (metro.beat + 1) % Beat,
                              rest |-> (metro.rest + 1) % Rest,
                              reel |-> (metro.reel + 1) % Reel]
  PROVE  MetroType' /\ (metro'.beat = Beat - 1 <=> OnBeat)
<1>1. metro'.beat = (metro.beat + 1) % Beat
  OBVIOUS
<1>2. /\ metro.beat \in Nat /\ metro.beat < Beat /\ Beat \in Nat /\ Beat >= 3
  BY PeriodAssumption DEF MetroType
<1>3. CASE metro.beat = Beat - 1
  <2>1. metro'.beat = 0
    BY <1>1, <1>2, <1>3
  <2>2. QED  BY <1>2, <1>3, <2>1 DEF MetroType, OnBeat
<1>4. CASE metro.beat # Beat - 1
  <2>1. metro'.beat = metro.beat + 1
    BY <1>1, <1>2, <1>4
  <2>2. QED  BY <1>2, <1>4, <2>1 DEF MetroType, OnBeat
<1>5. QED  BY <1>3, <1>4

\* What shows after a frame showed before it, or was asked for on the beat.
LEMMA NextShown ==
  ASSUME \A p \in Players, m \in Moving : moves[p][m] \in Stages(m),
         NEW request, MovesFrame(request)
  PROVE  /\ \A p \in Players, m \in Moving : moves'[p][m] \in Stages(m)
         /\ \A p \in Players : \A m \in Shown(p)' :
              m \in Shown(p) \/ (OnBeat /\ request[p] = m)
<1>1. ASSUME NEW p \in Players, NEW m \in Moving
      PROVE  moves'[p][m] = IF Leaves(m, moves[p][m], request[p] = m)
                            THEN After(m, moves[p][m]) ELSE moves[p][m]
  BY DEF MovesFrame
<1>2. ASSUME NEW p \in Players, NEW m \in Moving
      PROVE  moves'[p][m] \in Stages(m)
  BY <1>1, <1>2, Pictured DEF After
<1>3. ASSUME NEW p \in Players, NEW m \in Shown(p)'
      PROVE  m \in Shown(p) \/ (OnBeat /\ request[p] = m)
  <2>1. m \in Moving /\ m # "back" /\ moves'[p][m] \in 1 .. Pictures[m]
    BY <1>3 DEF Shown, Showing
  <2>2. /\ Pictures[m] \in Nat /\ Stages(m) = 0 .. Pictures[m] + 1
        /\ moves[p][m] \in 0 .. Pictures[m] + 1
    BY <2>1, Pictured
  <2>3. CASE moves[p][m] \in 1 .. Pictures[m]
    BY <2>1, <2>3 DEF Shown, Showing
  <2>4. CASE moves[p][m] = 0
    <3>1. Leaves(m, 0, request[p] = m)
      BY <1>1, <2>1, <2>2, <2>4
    <3>2. QED  BY <2>1, <2>2, <3>1 DEF Leaves
  <2>5. CASE moves[p][m] = Pictures[m] + 1
    <3>1. After(m, moves[p][m]) = 0
      BY <2>2, <2>5 DEF After
    <3>2. QED  BY <1>1, <2>1, <2>2, <2>5, <3>1
  <2>6. QED  BY <2>2, <2>3, <2>4, <2>5
<1>4. QED  BY <1>2, <1>3

-----------------------------------------------------------------------------
\* The requests.

\* A command that is taken is not vetoed by what shows.
LEMMA TakenIsFree ==
  ASSUME NEW b \in Body, NEW wanted, Taken(b, wanted) # "none"
  PROVE  /\ Taken(b, wanted) \in Command
         /\ Showing(Player(b)) \cap Veto(b, Taken(b, wanted)) = {}
<1>. DEFINE open == {i \in 1 .. 6 :
                       /\ Order(b)[i] \in wanted
                       /\ Showing(Player(b)) \cap Veto(b, Order(b)[i]) = {}}
<1>1. open # {} /\ Taken(b, wanted)
                     = Order(b)[CHOOSE i \in open : \A j \in open : i <= j]
  BY DEF Taken
<1>2. \E i \in open : \A j \in open : i <= j
  <2>1. open \subseteq 1 .. 6
    OBVIOUS
  <2>. HIDE DEF open
  <2>2. CASE 1 \in open
    BY <2>1, <2>2
  <2>3. CASE 1 \notin open /\ 2 \in open
    BY <2>1, <2>3
  <2>4. CASE 1 \notin open /\ 2 \notin open /\ 3 \in open
    BY <2>1, <2>4
  <2>5. CASE 1 \notin open /\ 2 \notin open /\ 3 \notin open /\ 4 \in open
    BY <2>1, <2>5
  <2>6. CASE open \subseteq 5 .. 6
    <3>1. CASE 5 \in open
      BY <2>6, <3>1
    <3>2. CASE 5 \notin open
      <4>1. PICK i \in open : TRUE
        BY <1>1
      <4>2. \A j \in open : j = 6
        BY <2>6, <3>2
      <4>3. QED  BY <4>1, <4>2
    <3>3. QED  BY <3>1, <3>2
  <2>7. QED  BY <2>1, <2>2, <2>3, <2>4, <2>5, <2>6
<1>3. PICK i \in open : Taken(b, wanted) = Order(b)[i]
  <2>. HIDE DEF open
  <2>1. (CHOOSE i \in open : \A j \in open : i <= j) \in open
    BY <1>2
  <2>2. QED  BY <1>1, <2>1
<1>4. /\ i \in 1 .. 6
      /\ Showing(Player(b)) \cap Veto(b, Order(b)[i]) = {}
  OBVIOUS
<1>5. Order(b)[i] \in Command
  <2>1. \/ i = 1 \/ i = 2 \/ i = 3 \/ i = 4 \/ i = 5 \/ i = 6
    BY <1>4
  <2>2. QED  BY <2>1 DEF Order, Command
<1>. HIDE DEF open
<1>6. QED  BY <1>3, <1>4, <1>5

\* The attack a body asks for after a frame is the only one that showed, is a
\* step behind a guard, or is the old one under the Enter key.
LEMMA PickedAct ==
  ASSUME NEW b \in Body, NEW s, NEW o, NEW looks, NEW wanted, NEW over,
         NEW pushed, NEW enter, NEW act, over \in BOOLEAN, enter \in BOOLEAN,
         act = Picked(b, s, o, looks, wanted, over, pushed, enter).act
  PROVE  /\ act \in Request \cup {s.act}
         /\ \/ act \notin Attacks
            \/ act = "dodge" /\ pushed # 0 /\ pushed # 2 /\ ~ over
            \/ Shown(Player(b)) \subseteq {act} /\ pushed = 0
            \/ enter /\ b = "p1" /\ act = s.act /\ pushed = 0
         /\ ~ over /\ pushed = 1 => act = "dodge"
<1>1. CASE over
  BY <1>1 DEF Picked, Request, Attacks
<1>2. CASE ~ over /\ pushed # 0
  BY <1>2 DEF Picked, Request, Command, Attacks
<1>3. CASE ~ over /\ pushed = 0 /\ Taken(b, wanted) # "none"
  <2>1. act = Taken(b, wanted)
    BY <1>3 DEF Picked
  <2>2. act \in Command /\ Showing(Player(b)) \cap Veto(b, act) = {}
    BY <1>3, <2>1, TakenIsFree
  <2>3. Attacks \ {act} \subseteq Veto(b, act)
    BY DEF Veto
  <2>4. Shown(Player(b)) \subseteq {act}
    BY <2>2, <2>3, Pictured DEF Shown, Showing
  <2>5. QED  BY <1>3, <2>2, <2>4 DEF Request
<1>4. CASE ~ over /\ pushed = 0 /\ Taken(b, wanted) = "none"
  BY <1>4 DEF Picked, Request, Attacks
<1>5. QED  BY <1>1, <1>2, <1>3, <1>4
-----------------------------------------------------------------------------
\* The bodies.

Fighter == [x : 0 .. Width - 1, y : 0 .. Width - 1,
            mx : 0 .. Width - 1, act : Request]

\* Every step of the arena is a step of the ten-bit coordinates.
LEMMA Steps ==
  /\ Width \in Nat /\ Width > 0
  /\ \A d \in {Step, Nudge, Knock} : d \in 0 .. Width - 1
                                     /\ Minus(d) \in 0 .. Width - 1
  /\ 0 \in 0 .. Width - 1
  BY HeightAssumption, ArenaAssumption DEF Minus

LEMMA PushedType ==
  ASSUME NEW s, NEW o, NEW free \in 0 .. Width - 1
  PROVE  Pushed(s, o, free) \in 0 .. Width - 1
  BY Steps DEF Pushed

LEMMA AlongType ==
  ASSUME NEW l, NEW r, NEW d \in {Step, Nudge, Knock}
  PROVE  Along(l, r, d) \in 0 .. Width - 1
  BY Steps DEF Along

\* No motion picked leaves the ten bits of its register.
LEMMA MotionType ==
  ASSUME NEW b \in Body, NEW s, NEW o, NEW looks, NEW wanted, NEW c \in Command
  PROVE  Motion(b, s, o, looks, wanted, c) \in 0 .. Width - 1
<1>1. CASE c = "left"
  <2>1. CASE b = "p2"
    BY <1>1, <2>1, Steps, PushedType DEF Motion
  <2>2. CASE b = "p1"
    BY <1>1, <2>2, Steps, PushedType DEF Motion
  <2>3. CASE b = "ai"
    BY <1>1, <2>3, Steps, PushedType DEF Motion
  <2>4. QED  BY <2>1, <2>2, <2>3 DEF Body
<1>2. CASE c = "right"
  <2>1. CASE b = "ai"
    BY <1>2, <2>1, Steps, PushedType DEF Motion
  <2>2. CASE b # "ai"
    BY <1>2, <2>2, Steps, PushedType DEF Motion
  <2>3. QED  BY <2>1, <2>2
<1>3. CASE c = "jump"
  BY <1>3, Steps, PushedType, AlongType DEF Motion
<1>4. CASE c \in {"kick", "fight", "dodge"}
  BY <1>4, Steps, PushedType DEF Motion
<1>5. QED  BY <1>1, <1>2, <1>3, <1>4 DEF Command

LEMMA PickedMotion ==
  ASSUME NEW b \in Body, NEW s, NEW o, NEW looks, NEW wanted, NEW over,
         NEW pushed, NEW enter, s.mx \in 0 .. Width - 1
  PROVE  Picked(b, s, o, looks, wanted, over, pushed, enter).mx
           \in 0 .. Width - 1
<1>. DEFINE mx == Picked(b, s, o, looks, wanted, over, pushed, enter).mx
<1>1. CASE over
  BY <1>1, Steps DEF Picked
<1>2. CASE ~ over /\ pushed # 0
  <2>1. mx = Pushed(s, o, Along(looks.left, looks.right,
                                IF pushed = 2 THEN Knock ELSE Nudge))
    BY <1>2 DEF Picked
  <2>2. QED  BY <2>1, AlongType, PushedType
<1>3. CASE ~ over /\ pushed = 0 /\ Taken(b, wanted) # "none"
  <2>1. mx = Motion(b, s, o, looks, wanted, Taken(b, wanted))
    BY <1>3 DEF Picked
  <2>2. QED  BY <1>3, <2>1, TakenIsFree, MotionType
<1>4. CASE ~ over /\ pushed = 0 /\ Taken(b, wanted) = "none"
  <2>1. mx \in {s.mx, 0}
    BY <1>4 DEF Picked
  <2>2. QED  BY <2>1, Steps
<1>5. QED  BY <1>1, <1>2, <1>3, <1>4

LEMMA MovedType ==
  ASSUME NEW b \in Body, NEW s \in Fighter, NEW pick,
         pick.act \in Request, pick.mx \in 0 .. Width - 1,
         grav[b].motion \in {0, Up, Down}
  PROVE  Moved(b, s, pick) \in Fighter
<1>1. ASSUME NEW i \in Int, NEW j \in Int PROVE (i + j) % Width \in 0 .. Width - 1
  BY Steps
<1>2. /\ s.x \in Int /\ s.mx \in Int /\ s.y \in Int
  BY DEF Fighter
<1>3. grav[b].motion \in Int
  BY HeightAssumption DEF Up, Down
<1>4. /\ (s.x + s.mx) % Width \in 0 .. Width - 1
      /\ (s.y + grav[b].motion) % Width \in 0 .. Width - 1
  BY <1>1, <1>2, <1>3
<1>5. QED  BY <1>4 DEF Moved, Fighter

-----------------------------------------------------------------------------
\* A frame.

\* What a body asks for after a frame in which nobody held a request with Enter.
LEMMA FrameActs ==
  ASSUME IInv, NEW keys,
         <<1, "enter">> \in keys => body["p1"].act \notin Attacks,
         BodiesFrame(keys), NEW b \in Body
  PROVE  /\ body'[b] \in Fighter
         /\ body'[b].act \notin Attacks \/ back[Player(b)] = 1
              \/ Shown(Player(b)) \subseteq {body'[b].act}
         /\ back[Player(b)] = 1 => body'[b].act \notin Attacks \ {"dodge"}
         /\ b = "ai" /\ ~ start => body'[b] = body[b]
<1>. DEFINE p == Player(b)
            pick == PickedNow(b, keys)
<1>1. /\ body[b] \in Fighter /\ p \in Players /\ back[p] \in 0 .. 2
      /\ grav[b].motion \in {0, Up, Down}
  <2>1. back \in [Players -> 0 .. 2]
    BY DEF IInv, Hp!IInv, Hp!TypeOK, Hp!Player, Players
  <2>2. p \in Players
    BY DEF Player, Players
  <2>3. body \in [Body -> Fighter]
    BY DEF IInv, OneMoveAtATime, TypeOK, Fighter
  <2>4. grav[b] \in [state : 0 .. 3, motion : {0, Up, Down}]
    BY DEF IInv, OneMoveAtATime, TypeOK
  <2>5. QED  BY <2>1, <2>2, <2>3, <2>4
<1>2. body'[b] = IF b = "ai" /\ ~ start THEN body[b] ELSE Moved(b, body[b], pick)
  BY DEF BodiesFrame
<1>3. CASE b = "ai" /\ ~ start
  <2>1. body[b].act = "stand"
    BY <1>3 DEF IInv, AIWaits
  <2>2. QED  BY <1>1, <1>2, <1>3, <2>1 DEF Attacks
<1>4. CASE ~ (b = "ai" /\ ~ start)
  <2>1. /\ body'[b] = Moved(b, body[b], pick) /\ body'[b].act = pick.act
    BY <1>2, <1>4 DEF Moved
  <2>2. /\ pick.act \in Request \cup {body[b].act}
        /\ \/ pick.act \notin Attacks
           \/ pick.act = "dodge" /\ back[p] # 0 /\ back[p] # 2 /\ ~ Over
           \/ Shown(p) \subseteq {pick.act} /\ back[p] = 0
           \/ /\ <<1, "enter">> \in keys /\ b = "p1" /\ pick.act = body[b].act
              /\ back[p] = 0
        /\ ~ Over /\ back[p] = 1 => pick.act = "dodge"
    <3>. DEFINE enter == <<1, "enter">> \in keys
    <3>1. Over \in BOOLEAN /\ enter \in BOOLEAN
      BY DEF Over, IInv, Hp!IInv, Hp!TypeOK, Hp!Player
    <3>2. pick = Picked(b, body[b], Against(b), face[3 - p], Wanted(b, keys), Over,
                        back[p], enter)
      BY DEF PickedNow
    <3>. DEFINE act == pick.act
    <3>. HIDE DEF enter, pick, p, act
    <3>3. act = Picked(b, body[b], Against(b), face[3 - p], Wanted(b, keys),
                       Over, back[p], enter).act
      BY <3>2 DEF act
    <3>4. act \in Request \cup {body[b].act}
      BY <3>1, <3>3, PickedAct
    <3>5. \/ act \notin Attacks
          \/ act = "dodge" /\ back[p] # 0 /\ back[p] # 2 /\ ~ Over
          \/ Shown(Player(b)) \subseteq {act} /\ back[p] = 0
          \/ enter /\ b = "p1" /\ act = body[b].act /\ back[p] = 0
      BY <3>1, <3>3, PickedAct
    <3>6. ~ Over /\ back[p] = 1 => act = "dodge"
      BY <3>1, <3>3, PickedAct
    <3>7. QED  BY <3>4, <3>5, <3>6 DEF enter, p, act
  <2>3. pick.mx \in 0 .. Width - 1
    BY <1>1, PickedMotion DEF PickedNow, Fighter
  <2>4. pick.act \in Request
    BY <1>1, <2>2 DEF Fighter
  <2>5. body'[b] \in Fighter
    BY <1>1, <2>1, <2>3, <2>4, MovedType
  <2>6. pick.act \notin Attacks \/ back[p] = 1 \/ Shown(p) \subseteq {pick.act}
    BY <1>1, <2>2
  <2>7. back[p] = 1 => pick.act \notin Attacks \ {"dodge"}
    BY <1>1, <2>2, NoneReelsAfter DEF IInv
  <2>8. QED  BY <1>4, <2>1, <2>5, <2>6, <2>7
<1>5. QED  BY <1>3, <1>4

\* What is asked of a player's animations is what one of his bodies asks.
LEMMA AskedOf ==
  ASSUME NEW p \in Players
  PROVE  \/ Asked[p] = "none"
         \/ \E b \in Body : Player(b) = p /\ Asked[p] = body[b].act
<1>1. CASE p = 1
  BY <1>1 DEF Asked, Seen, Player, Body, Players
<1>2. CASE p = 2
  BY <1>2 DEF Asked, Seen, Rival, Nobody, Player, Body, Players
<1>3. QED  BY <1>1, <1>2 DEF Players

LEMMA FrameIInv ==
  ASSUME IInv, NEW keys, NEW choice \in Choices,
         <<1, "enter">> \in keys => body["p1"].act \notin Attacks,
         Frame(keys, choice)
  PROVE  IInv'
<1>1. /\ BodiesFrame(keys) /\ StartFrame(keys) /\ ModeFrame(choice)
      /\ MovesFrame(Asked)
      /\ UNCHANGED <<face, grav, phase, attack, hpbar, back, won>>
  BY DEF Frame, clkVars
<1>2. ASSUME NEW b \in Body
      PROVE  /\ body'[b] \in Fighter
             /\ body'[b].act \notin Attacks \/ back[Player(b)] = 1
                  \/ Shown(Player(b)) \subseteq {body'[b].act}
             /\ back[Player(b)] = 1 => body'[b].act \notin Attacks \ {"dodge"}
             /\ b = "ai" /\ ~ start => body'[b] = body[b]
  BY <1>1, FrameActs
<1>3. \A b \in Body : Player(b) \in Players
  BY DEF Player, Players
<1>4. MetroType' /\ (metro'.beat = Beat - 1 <=> OnBeat)
  BY <1>1, NextBeat DEF IInv, MovesFrame
<1>5. /\ \A p \in Players, m \in Moving : moves'[p][m] \in Stages(m)
      /\ \A p \in Players : \A m \in Shown(p)' :
           m \in Shown(p) \/ (OnBeat /\ Asked[p] = m)
  BY <1>1, NextShown DEF IInv, OneMoveAtATime, TypeOK
<1>6. \A p \in Players : Shown(p) \subseteq Attacks /\ Shown(p)' \subseteq Attacks
  BY Pictured DEF Shown, Showing
<1>7. \A p \in Players : \A m, n \in Shown(p) : m = n
  BY DEF IInv, OneMoveAtATime, OneMove, Shown
\* On the beat whatever shows is what the bodies ask for.
<1>8. ASSUME OnBeat, NEW b \in Body, body[b].act \in Attacks
      PROVE  Shown(Player(b)) \subseteq {body[b].act}
  <2>1. metro.beat # Beat - 1
    BY <1>8, PeriodAssumption DEF OnBeat
  <2>2. QED  BY <1>8, <2>1 DEF IInv, LateOnlyAfterBeat
<1>9. ASSUME NEW p \in Players, NEW m \in Shown(p)', NEW n \in Shown(p)'
      PROVE  m = n
  <2>1. CASE m \in Shown(p) /\ n \in Shown(p)
    BY <1>7, <2>1
  <2>2. CASE m \notin Shown(p) \/ n \notin Shown(p)
    <3>1. PICK a \in {m, n} : OnBeat /\ Asked[p] = a /\ a \in Attacks
      BY <1>5, <1>6, <1>9, <2>2
    <3>2. Shown(p) \subseteq {a}
      <4>1. a # "none"
        BY <3>1 DEF Attacks
      <4>2. PICK b \in Body : Player(b) = p /\ body[b].act = a
        BY <3>1, <4>1, AskedOf
      <4>3. QED  BY <1>8, <3>1, <4>2
    <3>3. m = a /\ n = a
      BY <1>5, <1>9, <3>1, <3>2
    <3>4. QED  BY <3>3
  <2>3. QED  BY <2>1, <2>2
<1>10. TypeOK'
  <2>1. body' \in [Body -> Fighter]
    <3>1. body' = [b \in Body |-> body'[b]]
      BY <1>1 DEF BodiesFrame
    <3>2. QED  BY <1>2, <3>1
  <2>2. start' \in BOOLEAN
    BY <1>1 DEF StartFrame
  <2>3. mode' \in {"none", "dual", "single"}
    BY <1>1, MenuAssumption DEF ModeFrame, IInv, OneMoveAtATime, TypeOK
  <2>4. Hp!TypeOK'
    BY <1>1 DEF IInv, OneMoveAtATime, TypeOK, Hp!TypeOK
  <2>5. /\ face' \in [Players -> [state : FaceState, left : BOOLEAN,
                                 right : BOOLEAN]]
        /\ grav' \in [Body -> [state : 0 .. 3, motion : {0, Up, Down}]]
    BY <1>1 DEF IInv, OneMoveAtATime, TypeOK
  <2>6. QED  BY <1>5, <2>1, <2>2, <2>3, <2>4, <2>5 DEF TypeOK, Fighter
<1>11. OneMove'
  BY <1>9 DEF OneMove, Shown
<1>12. Hp!IInv'
  BY <1>1, KeeperStays DEF IInv
<1>13. ASSUME NEW b \in Body, back[Player(b)] = 1
       PROVE  Shown(Player(b))' \subseteq {"dodge"}
  <2>. DEFINE p == Player(b)
  <2>1. ASSUME NEW m \in Shown(p)', m # "dodge" PROVE FALSE
    <3>1. Shown(p) \subseteq {"dodge"}
      BY <1>13 DEF IInv, GuardShows
    <3>2. OnBeat /\ Asked[p] = m /\ m \in Attacks
      BY <1>3, <1>5, <1>6, <2>1, <3>1
    <3>3. m # "none"
      BY <3>2 DEF Attacks
    <3>4. PICK c \in Body : Player(c) = p /\ body[c].act = m
      BY <1>3, <3>2, <3>3, AskedOf
    <3>5. Shown(p) = {"dodge"}
      BY <1>13, <2>1, <3>2, <3>4 DEF IInv, GuardShows
    <3>6. Shown(p) \subseteq {m}
      BY <1>8, <3>2, <3>4
    <3>7. QED  BY <2>1, <3>5, <3>6
  <2>2. QED  BY <2>1
<1>14. LateOnlyAfterBeat'
  <2>1. ASSUME NEW b \in Body, body'[b].act \in Attacks, ~ OnBeat
        PROVE  Shown(Player(b))' \subseteq {body'[b].act}
    <3>1. Shown(Player(b))' \subseteq Shown(Player(b))
      BY <1>3, <1>5, <2>1
    <3>2. CASE back[Player(b)] = 1
      BY <1>2, <1>13, <2>1, <3>2
    <3>3. CASE back[Player(b)] # 1
      BY <1>2, <2>1, <3>1, <3>3
    <3>4. QED  BY <3>2, <3>3
  <2>2. QED  BY <1>4, <2>1 DEF LateOnlyAfterBeat
<1>15. GuardShows'
  <2>1. ASSUME NEW b \in Body, back'[Player(b)] = 1
        PROVE  /\ Shown(Player(b))' \subseteq {"dodge"}
               /\ body'[b].act \notin Attacks \ {"dodge"}
    BY <1>1, <1>2, <1>13, <2>1
  <2>2. QED  BY <2>1 DEF GuardShows
<1>16. AIWaits'
  <2>1. CASE ~ start
    BY <1>2, <2>1 DEF IInv, AIWaits, Body
  <2>2. CASE start
    BY <1>1, <2>2 DEF StartFrame, AIWaits
  <2>3. QED  BY <2>1, <2>2
<1>17. QED
  BY <1>4, <1>10, <1>11, <1>12, <1>14, <1>15, <1>16 DEF IInv, OneMoveAtATime
-----------------------------------------------------------------------------
\* An edge of Clk, Reset, power-up.

LEMMA TickType ==
  ASSUME TypeOK, FaceTick(Asked), GravTick(Flights)
  PROVE  /\ face' \in [Players -> [state : FaceState, left : BOOLEAN,
                                   right : BOOLEAN]]
         /\ grav' \in [Body -> [state : 0 .. 3, motion : {0, Up, Down}]]
<1>1. ASSUME NEW p \in Players
      PROVE  /\ NextFace(face[p].state, Asked[p]) \in FaceState
             /\ LooksLeft(p, face[p]) \in BOOLEAN
             /\ LooksRight(p, face[p]) \in BOOLEAN
  <2>1. face[p] \in [state : FaceState, left : BOOLEAN, right : BOOLEAN]
    BY DEF TypeOK
  <2>2. NextFace(face[p].state, Asked[p]) \in FaceState
    BY <2>1 DEF NextFace, FaceState
  <2>3. LooksLeft(p, face[p]) \in BOOLEAN /\ LooksRight(p, face[p]) \in BOOLEAN
    BY <2>1 DEF LooksLeft, LooksRight, FaceState
  <2>4. QED  BY <2>2, <2>3
<1>2. ASSUME NEW b \in Body
      PROVE  /\ NextFlight(grav[b].state, Flights[b].jump, Flights[b].y) \in 0 .. 3
             /\ NextFall(grav[b].state, Flights[b].near, Flights[b].y,
                         Flights[b].oy) \in {0, Up, Down}
  <2>1. grav[b].state \in 0 .. 3
    BY DEF TypeOK
  <2>2. QED  BY <2>1 DEF NextFlight, NextFall
<1>3. face' = [p \in Players |-> [state |-> NextFace(face[p].state, Asked[p]),
                                  left  |-> LooksLeft(p, face[p]),
                                  right |-> LooksRight(p, face[p])]]
  BY DEF FaceTick, TurnedFace, Sides, Players
<1>4. grav' = [b \in Body |->
                 [state  |-> NextFlight(grav[b].state, Flights[b].jump,
                                        Flights[b].y),
                  motion |-> NextFall(grav[b].state, Flights[b].near,
                                      Flights[b].y, Flights[b].oy)]]
  BY BodiesAssumption DEF GravTick, Flown
<1>5. QED  BY <1>1, <1>2, <1>3, <1>4

LEMMA TickIInv == ASSUME IInv, Tick PROVE IInv'
<1>1. /\ FaceTick(Asked) /\ GravTick(Flights) /\ Hp!Tick(Pulses, Valid, Guards)
      /\ UNCHANGED <<body, start, metro, moves, mode>>
  BY DEF Tick, frameVars
<1>2. Hp!IInv'
  BY <1>1, KeeperTick DEF IInv
<1>3. TypeOK'
  <2>1. Hp!TypeOK'
    BY <1>2 DEF Hp!IInv
  <2>2. QED  BY <1>1, <2>1, TickType DEF IInv, OneMoveAtATime, TypeOK
<1>4. /\ \A p \in Players : Showing(p)' = Showing(p) /\ Shown(p)' = Shown(p)
  BY <1>1 DEF Shown, Showing
<1>5. OneMove' /\ MetroType' /\ LateOnlyAfterBeat' /\ AIWaits'
  <2>1. \A b \in Body : Player(b) \in Players
    BY DEF Player, Players
  <2>2. OneMove'
    BY <1>4 DEF OneMove, IInv, OneMoveAtATime
  <2>3. LateOnlyAfterBeat'
    BY <1>1, <1>4, <2>1 DEF LateOnlyAfterBeat, IInv
  <2>4. QED  BY <1>1, <2>2, <2>3 DEF MetroType, AIWaits, IInv
<1>6. GuardShows'
  <2>1. SUFFICES ASSUME NEW b \in Body, back'[Player(b)] = 1
                 PROVE  /\ Shown(Player(b)) \subseteq {"dodge"}
                        /\ body[b].act \in Attacks \ {"dodge"}
                             => Shown(Player(b)) = {"dodge"}
    <3>1. \A b \in Body : Player(b) \in Players
      BY DEF Player, Players
    <3>2. QED  BY <1>1, <1>4, <3>1 DEF GuardShows
  <2>. DEFINE p == Player(b)
  <2>2. p \in Players
    BY DEF Player, Players
  <2>3. CASE back[p] = 1
    BY <2>3 DEF IInv, GuardShows
  <2>4. CASE moves[p]["dodge"] = 2
    <3>1. "dodge" \in Shown(p)
      BY <2>4 DEF Shown, Showing, Moving, Pictures
    <3>2. \A m, n \in Shown(p) : m = n
      BY <2>2 DEF Shown, IInv, OneMoveAtATime, OneMove
    <3>3. QED  BY <3>1, <3>2
  <2>5. QED  BY <1>1, <2>1, <2>2, <2>3, <2>4, GuardRaised DEF IInv
<1>7. QED  BY <1>2, <1>3, <1>5, <1>6 DEF IInv, OneMoveAtATime

\* The bodies at power-up and after Reset.
LEMMA AtResetType ==
  ASSUME NEW b \in Body
  PROVE  BodyAtReset(b) \in Fighter /\ BodyAtReset(b).act = "stand"
<1>1. StartX[b] \in 0 .. Width - 1 /\ Ground \in 0 .. Width - 1
  BY ArenaAssumption, HeightAssumption
<1>2. QED  BY <1>1, Steps DEF BodyAtReset, Fighter, Request

LEMMA ResetIInv == ASSUME IInv, Reset PROVE IInv'
<1>1. /\ FightersReset /\ FaceReset /\ GravReset /\ Hp!Reset
      /\ UNCHANGED <<metro, moves, mode>>
  BY DEF Reset
<1>2. Hp!IInv'
  BY <1>1, KeeperReset
<1>3. /\ body' = [b \in Body |-> BodyAtReset(b)] /\ start' = FALSE
      /\ \A b \in Body : body'[b] \in Fighter /\ body'[b].act = "stand"
  BY <1>1, AtResetType DEF FightersReset
<1>4. \A b \in Body : back'[Player(b)] = 0
  BY <1>1 DEF Hp!Reset, Hp!Player, Player
<1>5. /\ face' \in [Players -> [state : FaceState, left : BOOLEAN,
                               right : BOOLEAN]]
      /\ grav' \in [Body -> [state : 0 .. 3, motion : {0, Up, Down}]]
  <2>1. face \in [Players -> [state : FaceState, left : BOOLEAN, right : BOOLEAN]]
    BY DEF IInv, OneMoveAtATime, TypeOK
  <2>2. face' = [p \in Players |-> [face[p] EXCEPT !.state = "reset"]]
    BY <1>1 DEF FaceReset, Sides, Players
  <2>3. \A p \in Players : [face[p] EXCEPT !.state = "reset"]
                             \in [state : FaceState, left : BOOLEAN, right : BOOLEAN]
    BY <2>1 DEF FaceState
  <2>4. QED  BY <1>1, <2>2, <2>3, BodiesAssumption DEF GravReset
<1>6. TypeOK'
  <2>1. Hp!TypeOK'
    BY <1>2 DEF Hp!IInv
  <2>2. body' \in [Body -> Fighter]
    BY <1>3
  <2>3. QED  BY <1>1, <1>3, <1>5, <2>1, <2>2 DEF IInv, OneMoveAtATime, TypeOK, Fighter
<1>7. OneMove' /\ MetroType'
  BY <1>1 DEF IInv, OneMoveAtATime, OneMove, Showing, MetroType
<1>8. LateOnlyAfterBeat' /\ GuardShows' /\ AIWaits'
  <2>1. "stand" \notin Attacks /\ "ai" \in Body
    BY DEF Attacks, Body
  <2>2. QED  BY <1>3, <1>4, <2>1 DEF LateOnlyAfterBeat, GuardShows, AIWaits
<1>9. QED  BY <1>2, <1>6, <1>7, <1>8 DEF IInv, OneMoveAtATime

LEMMA InitIInv == Init => IInv
<1> SUFFICES ASSUME Init PROVE IInv
  OBVIOUS
<1>1. FightersInit /\ MovesInit /\ FaceInit /\ GravInit /\ Hp!Init /\ mode = "none"
  BY DEF Init
<1>2. Hp!IInv
  BY <1>1, KeeperInit
<1>3. /\ body = [b \in Body |-> BodyAtReset(b)] /\ start = FALSE
      /\ \A b \in Body : body[b] \in Fighter /\ body[b].act = "stand"
  BY <1>1, AtResetType DEF FightersInit
<1>4. \A b \in Body : back[Player(b)] = 0
  BY <1>1 DEF Hp!Init, Hp!Player, Player
<1>5. \A p \in Players, m \in Moving : moves[p][m] = 0
  BY <1>1 DEF MovesInit
<1>6. TypeOK
  <2>1. Hp!TypeOK
    BY <1>2 DEF Hp!IInv
  <2>2. body \in [Body -> Fighter]
    BY <1>3
  <2>3. face \in [Players -> [state : FaceState, left : BOOLEAN, right : BOOLEAN]]
    BY <1>1 DEF FaceInit, Sides, Players, FaceState
  <2>4. grav \in [Body -> [state : 0 .. 3, motion : {0, Up, Down}]]
    BY <1>1, BodiesAssumption DEF GravInit
  <2>5. QED
    BY <1>1, <1>3, <1>5, <2>1, <2>2, <2>3, <2>4, Pictured DEF TypeOK, Fighter
<1>7. OneMove /\ MetroType
  BY <1>1, <1>5, PeriodAssumption DEF OneMove, Showing, MetroType, MovesInit
<1>8. LateOnlyAfterBeat /\ GuardShows /\ AIWaits
  <2>1. "stand" \notin Attacks /\ "ai" \in Body
    BY DEF Attacks, Body
  <2>2. QED  BY <1>3, <1>4, <2>1 DEF LateOnlyAfterBeat, GuardShows, AIWaits
<1>9. QED  BY <1>2, <1>6, <1>7, <1>8 DEF IInv, OneMoveAtATime

LEMMA StaysIInv == ASSUME IInv, UNCHANGED vars PROVE IInv'
<1>1. UNCHANGED <<face, grav, phase, attack, hpbar, back, won,
                  body, start, metro, moves, mode>>
  BY DEF vars, clkVars, frameVars
<1>2. Hp!IInv'
  BY <1>1, KeeperStays DEF IInv
<1>3. TypeOK'
  <2>1. Hp!TypeOK'
    BY <1>2 DEF Hp!IInv
  <2>2. QED  BY <1>1, <2>1 DEF IInv, OneMoveAtATime, TypeOK
<1>4. OneMove' /\ MetroType' /\ LateOnlyAfterBeat' /\ GuardShows' /\ AIWaits'
  BY <1>1 DEF IInv, OneMoveAtATime, OneMove, Shown, Showing, MetroType,
     LateOnlyAfterBeat, GuardShows, AIWaits
<1>5. QED  BY <1>2, <1>3, <1>4 DEF IInv, OneMoveAtATime

\* For every arena and whatever keys come when, as long as nobody presses Enter
\* while player 1 has a move requested: a fighter makes one move at a time
\* (ball.sv, ball_second.sv and AI.sv against kick.sv, fight.sv, jump.sv and
\* dodge.sv), and every register keeps to its range.
THEOREM OneMoveHolds == TidySpec => []OneMoveAtATime
<1>1. IInv /\ [Tick \/ TidyFrame \/ Reset]_vars => IInv'
  BY TickIInv, FrameIInv, ResetIInv, StaysIInv DEF TidyFrame
<1>2. IInv => OneMoveAtATime
  BY DEF IInv
<1>3. QED  BY InitIInv, <1>1, <1>2, PTL DEF TidySpec

-----------------------------------------------------------------------------
\* A knockback is not withdrawn unread.

\* The request a body makes when hp.sv sends its player back.
Sent(n) == IF n = 2 THEN "back" ELSE "dodge"

\* An attack about to count still shows; and once the pulse of one that has
\* counted is over, a frame has passed and its victim has been sent back.
PulseHolds == phase = "S" => attack.move \in Pulses[attack.by]
VictimIsSent ==
  \A b \in {"p1", "p2"} :
    (/\ back[Player(b)] # 0
     /\ phase = "normal" \/ attack.move \notin Pulses[attack.by])
      => body[b].act = Sent(back[Player(b)])

SentIInv == Hp!IInv /\ PulseHolds /\ VictimIsSent

LEMMA FrameSent ==
  ASSUME SentIInv, NEW keys, NEW choice, Frame(keys, choice) PROVE SentIInv'
<1>1. /\ BodiesFrame(keys) /\ AtRest
      /\ UNCHANGED <<phase, attack, hpbar, back, won>>
  BY DEF Frame, clkVars
<1>2. Hp!IInv'
  BY <1>1, KeeperStays DEF SentIInv
<1>3. back \in [Players -> 0 .. 2]
  BY DEF SentIInv, Hp!IInv, Hp!TypeOK, Hp!Player, Players
<1>4. PulseHolds'
  <2>1. phase # "S"
    BY <1>1 DEF AtRest, Hp!Quiet, SentIInv, Hp!IInv, Hp!Player, Hp!Empty
  <2>2. QED  BY <1>1, <2>1 DEF PulseHolds
<1>5. ASSUME NEW b \in {"p1", "p2"}, back[Player(b)] # 0
      PROVE  body'[b].act = Sent(back[Player(b)])
  <2>1. Player(b) \in Players /\ b \in Body /\ b # "ai"
    BY DEF Player, Players, Body
  <2>2. ~ Over
    BY <1>5, <2>1, NoneReelsAfter DEF SentIInv
  <2>3. body'[b] = Moved(b, body[b], PickedNow(b, keys))
    BY <1>1, <2>1 DEF BodiesFrame
  <2>4. body'[b].act = PickedNow(b, keys).act
    BY <2>3 DEF Moved
  <2>5. QED  BY <1>5, <2>2, <2>4 DEF PickedNow, Picked, Sent
<1>6. VictimIsSent'
  BY <1>1, <1>5 DEF VictimIsSent
<1>7. QED  BY <1>2, <1>4, <1>6 DEF SentIInv

LEMMA TickSent == ASSUME SentIInv, Tick PROVE SentIInv'
<1>1. Hp!Tick(Pulses, Valid, Guards) /\ UNCHANGED <<body, start, metro, moves, mode>>
  BY DEF Tick, frameVars
<1>2. Hp!IInv'
  BY <1>1, KeeperTick DEF SentIInv
<1>3. Pulses' = Pulses
  BY <1>1 DEF Pulses, Biting
<1>4. \A b \in {"p1", "p2"} : Player(b) \in Players
  BY DEF Player, Players
<1>5. CASE Hp!Declare
  BY <1>1, <1>2, <1>3, <1>5 DEF Hp!Declare, SentIInv, PulseHolds, VictimIsSent
<1>6. CASE Hp!Watch(Pulses, Valid)
  <2>1. \A p \in Players : back'[p] = 0
    BY <1>6 DEF Hp!Watch, Hp!Player, Players
  <2>2. PulseHolds'
    BY <1>3, <1>6 DEF Hp!Watch, Hp!Lands, PulseHolds
  <2>3. QED  BY <1>2, <1>4, <2>1, <2>2 DEF SentIInv, VictimIsSent
<1>7. CASE Hp!Strike(Guards)
  <2>1. phase = "S" /\ phase' = "is" /\ attack' = attack
    BY <1>7 DEF Hp!Strike
  <2>2. QED
    BY <1>2, <1>3, <2>1 DEF SentIInv, PulseHolds, VictimIsSent
<1>8. CASE Hp!Follow(Pulses)
  <2>1. /\ phase = "is" /\ phase' # "S" /\ back' = back
        /\ \/ attack.move \in Pulses[attack.by] /\ phase' = phase /\ attack' = attack
           \/ attack.move \notin Pulses[attack.by]
    BY <1>8 DEF Hp!Follow
  <2>2. QED
    BY <1>1, <1>2, <1>3, <2>1 DEF SentIInv, PulseHolds, VictimIsSent
<1>9. QED  BY <1>1, <1>5, <1>6, <1>7, <1>8 DEF Hp!Tick

LEMMA SentHolds == Spec => []SentIInv
<1>1. Init => SentIInv
  <2>1. ASSUME Init PROVE Hp!IInv /\ phase = "normal" /\ \A p \in Players : back[p] = 0
    BY <2>1, KeeperInit DEF Init, Hp!Init, Hp!Player, Players
  <2>2. QED
    BY <2>1 DEF SentIInv, PulseHolds, VictimIsSent, Player, Players
<1>2. SentIInv /\ [Next]_vars => SentIInv'
  <2>. SUFFICES ASSUME SentIInv, [Next]_vars PROVE SentIInv'
    OBVIOUS
  <2>1. CASE Reset
    <3>1. Hp!Reset
      BY <2>1 DEF Reset
    <3>2. phase' = "normal" /\ \A p \in Players : back'[p] = 0
      BY <3>1 DEF Hp!Reset, Hp!Player, Players
    <3>3. QED
      BY <3>1, <3>2, KeeperReset DEF SentIInv, PulseHolds, VictimIsSent,
         Player, Players
  <2>2. CASE UNCHANGED vars
    <3>1. UNCHANGED <<phase, attack, hpbar, back, won, body, moves>>
      BY <2>2 DEF vars, clkVars, frameVars
    <3>2. Pulses' = Pulses
      BY <3>1 DEF Pulses, Biting
    <3>3. QED
      BY <3>1, <3>2, KeeperStays DEF SentIInv, PulseHolds, VictimIsSent
  <2>3. QED  BY <2>1, <2>2, TickSent, FrameSent DEF Next, AnyFrame
<1>3. QED  BY <1>1, <1>2, PTL DEF Spec

\* For every arena, every menu of keys, Enter included, and every pulse length:
\* when back1 or back2 falls, its victim's body (ball.sv, ball_second.sv) has
\* read it.
THEOREM KnockbackSeen == Spec => KnockbackIsSeen
<1>1. ASSUME SentIInv, Next, ~ Reset, NEW p \in Players,
             back[p] # 0, back'[p] = 0, p = 1 \/ mode = "dual"
      PROVE  Asked[p] = Sent(back[p])
  <2>1. Hp!Watch(Pulses, Valid)
    <3>1. Hp!Tick(Pulses, Valid, Guards)
      BY <1>1 DEF Next, AnyFrame, Frame, Tick, clkVars
    <3>2. ~ Hp!Declare /\ ~ Hp!Follow(Pulses)
      BY <1>1 DEF Hp!Declare, Hp!Follow
    <3>3. ~ Hp!Strike(Guards)
      BY <1>1 DEF Hp!Strike, SentIInv, Hp!IInv, Hp!OneReels, Hp!Player, Players
    <3>4. QED  BY <3>1, <3>2, <3>3 DEF Hp!Tick
  <2>2. phase = "normal"
    BY <2>1 DEF Hp!Watch
  <2>3. \A b \in {"p1", "p2"} : Player(b) = p => body[b].act = Sent(back[p])
    BY <1>1, <2>2 DEF SentIInv, VictimIsSent
  <2>4. Asked[p] = body[IF p = 1 THEN "p1" ELSE "p2"].act
    BY <1>1 DEF Asked, Seen, Rival, Players
  <2>5. QED  BY <2>3, <2>4 DEF Player, Players
<1>2. SentIInv /\ [Next]_vars
        => [\A p \in Players :
              (back[p] # 0 /\ back'[p] = 0 /\ (p = 1 \/ mode = "dual"))
                => (Asked[p] = (IF back[p] = 2 THEN "back" ELSE "dodge"))
                     \/ Reset]_vars
  BY <1>1 DEF Sent
<1>3. QED  BY <1>2, SentHolds, PTL DEF Spec, KnockbackIsSeen
-----------------------------------------------------------------------------
\* The registers keep to their ranges, whatever keys come, Enter included.

ClkInv == TypeOK /\ SentIInv

LEMMA FrameTypes ==
  ASSUME TypeOK, Hp!IInv, NEW keys, NEW choice \in Choices, Frame(keys, choice)
  PROVE  TypeOK'
<1>1. /\ BodiesFrame(keys) /\ StartFrame(keys) /\ ModeFrame(choice)
      /\ MovesFrame(Asked)
      /\ UNCHANGED <<face, grav, phase, attack, hpbar, back, won>>
  BY DEF Frame, clkVars
<1>2. ASSUME NEW b \in Body PROVE body'[b] \in Fighter
  <2>. DEFINE pick == PickedNow(b, keys)
              enter == <<1, "enter">> \in keys
  <2>1. body[b] \in Fighter
    BY DEF TypeOK, Fighter
  <2>2. grav[b].motion \in {0, Up, Down}
    <3>1. grav[b] \in [state : 0 .. 3, motion : {0, Up, Down}]
      BY DEF TypeOK
    <3>. QED  BY <3>1
  <2>3. Over \in BOOLEAN /\ enter \in BOOLEAN
    BY DEF Over, Hp!IInv, Hp!TypeOK, Hp!Player
  <2>4. pick = Picked(b, body[b], Against(b), face[3 - Player(b)], Wanted(b, keys),
                      Over, back[Player(b)], enter)
    BY DEF PickedNow
  <2>5. pick.mx \in 0 .. Width - 1
    BY <2>1, <2>4, PickedMotion DEF Fighter
  <2>6. pick.act \in Request
    <3>. DEFINE act == pick.act
    <3>. HIDE DEF enter
    <3>1. act = Picked(b, body[b], Against(b), face[3 - Player(b)],
                       Wanted(b, keys), Over, back[Player(b)], enter).act
      BY <2>4
    <3>. HIDE DEF act
    <3>2. act \in Request \cup {body[b].act}
      BY <2>3, <3>1, PickedAct
    <3>. QED  BY <2>1, <3>2 DEF act, Fighter
  <2>7. body'[b] = body[b] \/ body'[b] = Moved(b, body[b], pick)
    BY <1>1 DEF BodiesFrame
  <2>. QED
    BY <2>1, <2>2, <2>5, <2>6, <2>7, MovedType
<1>3. body' \in [Body -> Fighter]
  BY <1>1, <1>2 DEF BodiesFrame
<1>4. \A p \in Players, m \in Moving : moves'[p][m] \in Stages(m)
  BY <1>1, NextShown DEF TypeOK
<1>5. start' \in BOOLEAN /\ mode' \in {"none", "dual", "single"}
  BY <1>1, MenuAssumption DEF StartFrame, ModeFrame, TypeOK
<1>6. Hp!TypeOK'
  BY <1>1 DEF TypeOK, Hp!TypeOK
<1>. QED
  BY <1>1, <1>3, <1>4, <1>5, <1>6 DEF TypeOK, Fighter

LEMMA ResetTypes == ASSUME TypeOK, Reset PROVE TypeOK'
<1>1. /\ FightersReset /\ FaceReset /\ GravReset /\ Hp!Reset
      /\ UNCHANGED <<metro, moves, mode>>
  BY DEF Reset
<1>2. body' \in [Body -> Fighter] /\ start' \in BOOLEAN
  BY <1>1, AtResetType DEF FightersReset
<1>3. face' \in [Players -> [state : FaceState, left : BOOLEAN, right : BOOLEAN]]
  <2>1. \A p \in Players : [face[p] EXCEPT !.state = "reset"]
                             \in [state : FaceState, left : BOOLEAN, right : BOOLEAN]
    BY DEF TypeOK, FaceState
  <2>. QED
    BY <1>1, <2>1 DEF FaceReset, Sides, Players
<1>4. grav' \in [Body -> [state : 0 .. 3, motion : {0, Up, Down}]]
  BY <1>1, BodiesAssumption DEF GravReset
<1>5. Hp!TypeOK'
  BY <1>1, KeeperReset DEF Hp!IInv
<1>. QED
  BY <1>1, <1>2, <1>3, <1>4, <1>5 DEF TypeOK, Fighter

LEMMA InitTypes == Init => TypeOK
  BY InitIInv DEF IInv, OneMoveAtATime

LEMMA ClkHolds == Spec => []ClkInv
<1>1. TypeOK /\ SentIInv /\ [Next]_vars => TypeOK'
  <2>. SUFFICES ASSUME TypeOK, SentIInv, [Next]_vars PROVE TypeOK'
    OBVIOUS
  <2>1. CASE Tick
    <3>1. /\ FaceTick(Asked) /\ GravTick(Flights) /\ Hp!Tick(Pulses, Valid, Guards)
          /\ UNCHANGED <<body, start, metro, moves, mode>>
      BY <2>1 DEF Tick, frameVars
    <3>2. Hp!TypeOK'
      BY <3>1, KeeperTick DEF SentIInv, Hp!IInv
    <3>. QED
      BY <3>1, <3>2, TickType DEF TypeOK
  <2>2. CASE AnyFrame
    BY <2>2, FrameTypes DEF AnyFrame, SentIInv
  <2>3. CASE Reset
    BY <2>3, ResetTypes
  <2>4. CASE UNCHANGED vars
    <3>1. UNCHANGED <<face, grav, phase, attack, hpbar, back, won,
                      body, start, metro, moves, mode>>
      BY <2>4 DEF vars, clkVars, frameVars
    <3>2. Hp!TypeOK'
      BY <3>1 DEF TypeOK, Hp!TypeOK
    <3>. QED
      BY <3>1, <3>2 DEF TypeOK
  <2>. QED
    BY <2>1, <2>2, <2>3, <2>4 DEF Next
<1>. QED
  BY <1>1, InitTypes, SentHolds, PTL DEF Spec, ClkInv
-----------------------------------------------------------------------------
\* The Clk side comes to rest between two frames, within eight edges.

\* How many edges a machine is from rest while its inputs stay: its state
\* settles in turns(s), and its outputs follow one edge later.
TurnsLeft(s, r) ==
  IF NextFace(s, r) = s THEN 0
  ELSE IF NextFace(NextFace(s, r), r) = NextFace(s, r) THEN 1 ELSE 2
LooksAlong(p) == /\ face[p].left = LooksLeft(p, face[p])
                 /\ face[p].right = LooksRight(p, face[p])
FaceUnrest(p) == IF TurnsLeft(face[p].state, Asked[p]) = 0
                 THEN IF LooksAlong(p) THEN 0 ELSE 1
                 ELSE TurnsLeft(face[p].state, Asked[p]) + 1

FlightsLeft(s, in) ==
  LET then(t) == NextFlight(t, in.jump, in.y)
  IN  IF then(s) = s THEN 0
      ELSE IF then(then(s)) = then(s) THEN 1
      ELSE IF then(then(then(s))) = then(then(s)) THEN 2 ELSE 3
Falls(b) == grav[b].motion = NextFall(grav[b].state, Flights[b].near,
                                      Flights[b].y, Flights[b].oy)
FlightUnrest(b) == IF FlightsLeft(grav[b].state, Flights[b]) = 0
                   THEN IF Falls(b) THEN 0 ELSE 1
                   ELSE FlightsLeft(grav[b].state, Flights[b]) + 1

\* The score keeper sees where the fighters look, so it settles last: a pulse
\* that has ended makes it look again, what it finds counts, may empty a bar,
\* and an empty bar makes a winner.
SomeLands == \E i \in 1 .. 6 : Hp!Lands(Hp!Priority[i], Pulses, Valid)
KeeperUnrest ==
  IF \E p \in Players : Hp!Empty(p) THEN IF Over THEN 0 ELSE 1
  ELSE CASE phase = "S" -> 2
         [] phase = "normal" -> IF SomeLands THEN 3
                                ELSE IF \A p \in Players : back[p] = 0 THEN 0 ELSE 1
         [] OTHER -> IF attack.move \in Pulses[attack.by] THEN 0 ELSE 4

Turning(n) == /\ \A p \in Players : FaceUnrest(p) <= n
              /\ \A b \in Body : FlightUnrest(b) <= n
\* The Clk side is at most n edges from rest.
Within(n) == IF n > 4 THEN Turning(n - 4) ELSE Turning(0) /\ KeeperUnrest <= n

\* A facing machine and its outputs.
LEMMA TurnsAre ==
  ASSUME NEW s \in FaceState, NEW r
  PROVE  /\ NextFace(s, r) \in FaceState
         /\ TurnsLeft(s, r) \in 0 .. 2
         /\ TurnsLeft(s, r) = 0 <=> NextFace(s, r) = s
         /\ TurnsLeft(s, r) # 0 =>
              TurnsLeft(NextFace(s, r), r) = TurnsLeft(s, r) - 1
<1>1. NextFace(s, r) \in FaceState
  BY DEF NextFace, FaceState
<1>. DEFINE then(t) == NextFace(t, r)
<1>2. \A t \in FaceState : then(then(then(t))) = then(then(t))
  <2>1. CASE r = "left"
    <3>1. /\ then("reset") = "state1" /\ then("state1") = "state2"
          /\ then("state2") = "state2" /\ then("state3") = "state1"
          /\ then("state4") = "state4" /\ then("state5") = "state1"
      BY <2>1 DEF NextFace, Halting
    <3>. HIDE DEF then
    <3>. QED
      BY <3>1 DEF FaceState
  <2>2. CASE r = "right"
    <3>1. /\ then("reset") = "state1" /\ then("state1") = "state3"
          /\ then("state2") = "state1" /\ then("state3") = "state3"
          /\ then("state4") = "state1" /\ then("state5") = "state5"
      BY <2>2 DEF NextFace, Halting
    <3>. HIDE DEF then
    <3>. QED
      BY <3>1 DEF FaceState
  <2>3. CASE r \in Halting /\ r # "left" /\ r # "right"
    <3>1. /\ then("reset") = "reset" /\ then("state1") = "state1"
          /\ then("state2") = "state4" /\ then("state3") = "state5"
          /\ then("state4") = "state4" /\ then("state5") = "state5"
      BY <2>3 DEF NextFace
    <3>. HIDE DEF then
    <3>. QED
      BY <3>1 DEF FaceState
  <2>4. CASE r \notin Halting /\ r # "left" /\ r # "right"
    <3>1. /\ then("reset") = "reset" /\ then("state1") = "state1"
          /\ then("state2") = "state2" /\ then("state3") = "state3"
          /\ then("state4") = "state4" /\ then("state5") = "state5"
      BY <2>4 DEF NextFace
    <3>. HIDE DEF then
    <3>. QED
      BY <3>1 DEF FaceState
  <2>. QED
    BY <2>1, <2>2, <2>3, <2>4
<1>. QED
  BY <1>1, <1>2 DEF TurnsLeft

LEMMA FaceSettles ==
  ASSUME TypeOK, FaceTick(Asked), UNCHANGED Asked, NEW p \in Players
  PROVE  /\ FaceUnrest(p) \in 0 .. 3
         /\ FaceUnrest(p)' \in 0 .. 3
         /\ FaceUnrest(p)' <= (IF FaceUnrest(p) = 0 THEN 0 ELSE FaceUnrest(p) - 1)
         /\ FaceUnrest(p) = 0 => face'[p] = face[p]
<1>. DEFINE s == face[p].state
            r == Asked[p]
<1>1. face[p] \in [state : FaceState, left : BOOLEAN, right : BOOLEAN]
  BY DEF TypeOK
<1>2. face'[p] = [state |-> NextFace(s, r), left |-> LooksLeft(p, face[p]),
                  right |-> LooksRight(p, face[p])]
  BY DEF FaceTick, TurnedFace, Sides, Players
<1>3. /\ s \in FaceState /\ face'[p].state = NextFace(s, r) /\ Asked'[p] = r
      /\ face'[p].left = LooksLeft(p, face[p])
      /\ face'[p].right = LooksRight(p, face[p])
  BY <1>1, <1>2
<1>4. CASE TurnsLeft(s, r) = 0
  <2>1. NextFace(s, r) = s
    BY <1>3, <1>4, TurnsAre
  <2>2. LooksAlong(p)'
    BY <1>3, <2>1 DEF LooksAlong, LooksLeft, LooksRight
  <2>3. FaceUnrest(p)' = 0
    BY <1>3, <1>4, <2>1, <2>2 DEF FaceUnrest
  <2>4. LooksAlong(p) => face'[p] = face[p]
    BY <1>1, <1>2, <2>1 DEF LooksAlong
  <2>. QED
    BY <1>4, <2>3, <2>4 DEF FaceUnrest
<1>5. CASE TurnsLeft(s, r) # 0
  <2>1. TurnsLeft(s, r) \in 1 .. 2
    BY <1>3, <1>5, TurnsAre
  <2>2. TurnsLeft(face'[p].state, Asked'[p]) = TurnsLeft(s, r) - 1
    BY <1>3, <1>5, TurnsAre
  <2>3. FaceUnrest(p) = TurnsLeft(s, r) + 1
    BY <1>5 DEF FaceUnrest
  <2>4. FaceUnrest(p)' <= TurnsLeft(s, r) /\ FaceUnrest(p)' \in 0 .. 3
    BY <2>1, <2>2 DEF FaceUnrest
  <2>. QED
    BY <2>1, <2>3, <2>4
<1>. QED
  BY <1>4, <1>5

\* A flight: it turns before it lands, and starts where it lands.
LEMMA FlightsAre ==
  ASSUME NEW s \in 0 .. 3, NEW in, in.y \in Int
  PROVE  /\ NextFlight(s, in.jump, in.y) \in 0 .. 3
         /\ FlightsLeft(s, in) \in 0 .. 3
         /\ FlightsLeft(s, in) = 0 <=> NextFlight(s, in.jump, in.y) = s
         /\ FlightsLeft(s, in) # 0 =>
              FlightsLeft(NextFlight(s, in.jump, in.y), in) = FlightsLeft(s, in) - 1
<1>. DEFINE then(t) == NextFlight(t, in.jump, in.y)
<1>1. /\ then(0) \in {0, 1} /\ then(1) \in {1, 2} /\ then(2) \in {2, 3} /\ then(3) = 0
      /\ ~ (then(1) = 2 /\ then(2) = 3) /\ ~ (then(0) = 1 /\ then(1) = 2)
  BY HeightAssumption DEF NextFlight
<1>2. \A t : FlightsLeft(t, in) =
        IF then(t) = t THEN 0 ELSE IF then(then(t)) = then(t) THEN 1
        ELSE IF then(then(then(t))) = then(then(t)) THEN 2 ELSE 3
  BY DEF FlightsLeft
<1>3. /\ s = 0 \/ s = 1 \/ s = 2 \/ s = 3
      /\ then(s) = NextFlight(s, in.jump, in.y)
  OBVIOUS
<1>. HIDE DEF then
<1>4. /\ FlightsLeft(1, in) = (IF then(1) = 1 THEN 0 ELSE 1)
      /\ FlightsLeft(0, in) = (IF then(0) = 0 THEN 0 ELSE 1)
      /\ FlightsLeft(3, in) = (IF then(0) = 0 THEN 1 ELSE 2)
      /\ FlightsLeft(2, in) = (IF then(2) = 2 THEN 0 ELSE IF then(0) = 0 THEN 2 ELSE 3)
  BY <1>1, <1>2
<1>. QED
  BY <1>1, <1>3, <1>4

LEMMA FlightSettles ==
  ASSUME TypeOK, GravTick(Flights), UNCHANGED Flights, NEW b \in Body
  PROVE  /\ FlightUnrest(b) \in 0 .. 4
         /\ FlightUnrest(b)' \in 0 .. 4
         /\ FlightUnrest(b)' <= (IF FlightUnrest(b) = 0 THEN 0 ELSE FlightUnrest(b) - 1)
         /\ FlightUnrest(b) = 0 => grav'[b] = grav[b]
<1>. DEFINE s == grav[b].state
            in == Flights[b]
<1>1. grav[b] \in [state : 0 .. 3, motion : {0, Up, Down}]
  BY DEF TypeOK
<1>2. grav'[b] = [state |-> NextFlight(s, in.jump, in.y),
                  motion |-> NextFall(s, in.near, in.y, in.oy)]
  BY BodiesAssumption DEF GravTick, Flown
<1>3. /\ s \in 0 .. 3 /\ grav'[b].state = NextFlight(s, in.jump, in.y)
      /\ Flights'[b] = in
      /\ grav'[b].motion = NextFall(s, in.near, in.y, in.oy)
  BY <1>1, <1>2
<1>4. in.y \in Int
  <2>1. body[b] \in Fighter /\ in.y = body[b].y
    BY DEF TypeOK, Fighter, Flights
  <2>. QED
    BY <2>1, Steps DEF Fighter
<1>5. CASE FlightsLeft(s, in) = 0
  <2>1. NextFlight(s, in.jump, in.y) = s
    BY <1>3, <1>4, <1>5, FlightsAre
  <2>2. Falls(b)'
    BY <1>3, <2>1 DEF Falls
  <2>3. FlightUnrest(b)' = 0
    BY <1>3, <1>5, <2>1, <2>2 DEF FlightUnrest
  <2>4. Falls(b) => grav'[b] = grav[b]
    BY <1>1, <1>2, <2>1 DEF Falls
  <2>. QED
    BY <1>5, <2>3, <2>4 DEF FlightUnrest
<1>6. CASE FlightsLeft(s, in) # 0
  <2>1. FlightsLeft(s, in) \in 1 .. 3
    BY <1>3, <1>4, <1>6, FlightsAre
  <2>2. FlightsLeft(grav'[b].state, Flights'[b]) = FlightsLeft(s, in) - 1
    BY <1>3, <1>4, <1>6, FlightsAre
  <2>3. FlightUnrest(b) = FlightsLeft(s, in) + 1
    BY <1>6 DEF FlightUnrest
  <2>4. FlightUnrest(b)' <= FlightsLeft(s, in) /\ FlightUnrest(b)' \in 0 .. 4
    BY <2>1, <2>2 DEF FlightUnrest
  <2>. QED
    BY <2>1, <2>3, <2>4
<1>. QED
  BY <1>5, <1>6

\* What a face and a flight show of a fighter stays while they settle.
LEMMA InputsStay ==
  ASSUME Tick PROVE UNCHANGED <<Asked, Flights, Pulses, Guards>>
<1>1. UNCHANGED <<body, mode, moves>>
  BY DEF Tick, frameVars
<1>2. UNCHANGED <<Seen, Rival>>
  BY <1>1 DEF Seen, Rival
<1>3. \A b : Against(b)' = Against(b)
  BY <1>1, <1>2 DEF Against
<1>4. UNCHANGED Asked
  BY <1>2 DEF Asked
<1>5. UNCHANGED Flights
  BY <1>1, <1>3 DEF Flights, Near
<1>6. UNCHANGED <<Pulses, Guards>>
  BY <1>1 DEF Pulses, Guards, Biting, Dodging
<1>. QED
  BY <1>4, <1>5, <1>6

\* An edge of Clk brings every face and every flight one edge closer to rest.
LEMMA TurningTick ==
  ASSUME ClkInv, Tick, NEW n \in 0 .. 4, Turning(n)
  PROVE  /\ n # 0 => Turning(n - 1)'
         /\ n = 0 => Turning(0)' /\ UNCHANGED <<face, grav>>
<1>. TypeOK /\ FaceTick(Asked) /\ GravTick(Flights)
  BY DEF ClkInv, Tick
<1>0. UNCHANGED Asked /\ UNCHANGED Flights
  BY InputsStay
<1>1. ASSUME NEW p \in Players
      PROVE  /\ FaceUnrest(p)' <= (IF n = 0 THEN 0 ELSE n - 1)
             /\ n = 0 => face'[p] = face[p]
  <2>1. FaceUnrest(p) <= n
    BY DEF Turning
  <2>2. /\ FaceUnrest(p) \in 0 .. 3 /\ FaceUnrest(p)' \in 0 .. 3
        /\ FaceUnrest(p)' <= (IF FaceUnrest(p) = 0 THEN 0 ELSE FaceUnrest(p) - 1)
        /\ FaceUnrest(p) = 0 => face'[p] = face[p]
    BY <1>0, FaceSettles
  <2>. QED
    BY <2>1, <2>2
<1>2. ASSUME NEW b \in Body
      PROVE  /\ FlightUnrest(b)' <= (IF n = 0 THEN 0 ELSE n - 1)
             /\ n = 0 => grav'[b] = grav[b]
  <2>1. FlightUnrest(b) <= n
    BY DEF Turning
  <2>2. /\ FlightUnrest(b) \in 0 .. 4 /\ FlightUnrest(b)' \in 0 .. 4
        /\ FlightUnrest(b)' <= (IF FlightUnrest(b) = 0 THEN 0 ELSE FlightUnrest(b) - 1)
        /\ FlightUnrest(b) = 0 => grav'[b] = grav[b]
    BY <1>0, FlightSettles
  <2>. QED
    BY <2>1, <2>2
<1>3. face' \in [Players -> [state : FaceState, left : BOOLEAN, right : BOOLEAN]]
      /\ grav' \in [Body -> [state : 0 .. 3, motion : {0, Up, Down}]]
  BY TickType
<1>4. n = 0 => face' = face /\ grav' = grav
  BY <1>1, <1>2, <1>3 DEF TypeOK
<1>. QED
  BY <1>1, <1>2, <1>4 DEF Turning

\* Every state is within four edges of the faces' and the flights' rest.
LEMMA TurningAlways == ASSUME TypeOK PROVE Turning(4)
<1>1. ASSUME NEW p \in Players PROVE FaceUnrest(p) <= 4
  <2>1. face[p].state \in FaceState
    BY DEF TypeOK
  <2>2. TurnsLeft(face[p].state, Asked[p]) \in 0 .. 2
    BY <2>1, TurnsAre
  <2>. QED
    BY <2>2 DEF FaceUnrest
<1>2. ASSUME NEW b \in Body PROVE FlightUnrest(b) <= 4
  <2>1. grav[b] \in [state : 0 .. 3, motion : {0, Up, Down}] /\ body[b] \in Fighter
    BY DEF TypeOK, Fighter
  <2>2. grav[b].state \in 0 .. 3 /\ Flights[b].y \in Int
    BY <2>1, Steps DEF Fighter, Flights
  <2>3. FlightsLeft(grav[b].state, Flights[b]) \in 0 .. 3
    BY <2>2, FlightsAre
  <2>. QED
    BY <2>3 DEF FlightUnrest
<1>. QED
  BY <1>1, <1>2 DEF Turning

\* The score keeper, once the faces are at rest.
LEMMA KeeperIsQuiet ==
  ASSUME ClkInv
  PROVE  /\ KeeperUnrest \in 0 .. 4
         /\ KeeperUnrest = 0 <=> Hp!Quiet(Pulses, Valid)
<1>. DEFINE empty == \E p \in Players : Hp!Empty(p)
<1>1. phase \in {"normal", "S", "is"} /\ Hp!Player = Players
  <2>1. phase \in {"normal", "S", "is"}
    BY DEF ClkInv, TypeOK, Hp!TypeOK
  <2>2. Hp!Player = Players
    BY DEF Hp!Player, Players
  <2>. QED
    BY <2>1, <2>2
<1>2. Len(Hp!Priority) = 6
  BY DEF Hp!Priority
<1>3. CASE empty
  <2>1. KeeperUnrest = IF Over THEN 0 ELSE 1
    BY <1>3 DEF KeeperUnrest
  <2>2. Over <=> won[IF Hp!Empty(2) THEN 1 ELSE 2]
    <3>1. /\ won[1] => hpbar[2] = 0
          /\ won[2] => hpbar[2] > 0
      BY DEF ClkInv, SentIInv, Hp!IInv, Hp!WinnerIsForced, Hp!Player, Hp!Other
    <3>2. hpbar[2] \in Nat
      BY DEF ClkInv, TypeOK, Hp!TypeOK, Hp!Player
    <3>. QED
      BY <3>1, <3>2 DEF Over, Hp!Empty
  <2>3. Hp!Quiet(Pulses, Valid) <=> won[IF Hp!Empty(2) THEN 1 ELSE 2]
    BY <1>1, <1>3 DEF Hp!Quiet
  <2>. QED
    BY <2>1, <2>2, <2>3
<1>4. CASE ~ empty
  <2>1. \A p \in Players : ~ Hp!Empty(p)
    BY <1>4
  <2>2. Hp!Quiet(Pulses, Valid) <=>
          \/ phase = "is" /\ attack.move \in Pulses[attack.by]
          \/ /\ phase = "normal" /\ \A p \in Players : back[p] = 0
             /\ ~ SomeLands
    BY <1>1, <1>2, <1>4 DEF Hp!Quiet, SomeLands
  <2>3. CASE phase = "S"
    BY <1>4, <2>1, <2>2, <2>3 DEF KeeperUnrest
  <2>4. CASE phase = "normal"
    <3>1. KeeperUnrest = IF SomeLands THEN 3
                         ELSE IF \A p \in Players : back[p] = 0 THEN 0 ELSE 1
      BY <1>4, <2>1, <2>4 DEF KeeperUnrest
    <3>. QED
      BY <2>2, <2>4, <3>1
  <2>5. CASE phase = "is"
    <3>1. KeeperUnrest = IF attack.move \in Pulses[attack.by] THEN 0 ELSE 4
      BY <1>4, <2>1, <2>5 DEF KeeperUnrest
    <3>. QED
      BY <2>2, <2>5, <3>1
  <2>. QED
    BY <1>1, <2>3, <2>4, <2>5
<1>. QED
  BY <1>3, <1>4

LEMMA KeeperSettles ==
  ASSUME ClkInv, Hp!Tick(Pulses, Valid, Guards), UNCHANGED <<Pulses, Valid>>
  PROVE  /\ KeeperUnrest = 0 => UNCHANGED <<phase, attack, hpbar, back, won>>
         /\ KeeperUnrest # 0 => KeeperUnrest' <= KeeperUnrest - 1
<1>. DEFINE empty == \E p \in Players : Hp!Empty(p)
<1>1. /\ phase \in {"normal", "S", "is"} /\ Hp!Player = Players
      /\ back \in [Players -> 0 .. 2] /\ won \in [Players -> BOOLEAN]
  <2>1. Hp!TypeOK
    BY DEF ClkInv, TypeOK
  <2>2. Hp!Player = Players
    BY DEF Hp!Player, Players
  <2>. QED
    BY <2>1, <2>2 DEF Hp!TypeOK
<1>2. Len(Hp!Priority) = 6 /\ 1 \in Players /\ 2 \in Players
  BY DEF Hp!Priority, Players
<1>3. SomeLands' = SomeLands
  BY DEF SomeLands, Hp!Lands, Hp!Priority
<1>4. CASE empty
  <2>1. Hp!Declare
    BY <1>1, <1>4 DEF Hp!Tick
  <2>. DEFINE w == IF Hp!Empty(2) THEN 1 ELSE 2
  <2>2. /\ won' = [won EXCEPT ![w] = TRUE] /\ w \in Players
        /\ UNCHANGED <<phase, attack, hpbar, back>>
    BY <1>2, <2>1 DEF Hp!Declare
  <2>3. empty' /\ Over'
    <3>1. won'[w] /\ (w = 1 \/ w = 2)
      BY <1>1, <2>2
    <3>. QED
      BY <1>4, <2>2, <3>1 DEF Over, Hp!Empty
  <2>4. KeeperUnrest' = 0
    BY <2>3 DEF KeeperUnrest
  <2>5. KeeperUnrest = IF Over THEN 0 ELSE 1
    BY <1>4 DEF KeeperUnrest
  <2>6. Over => won[w]
    <3>1. Over => Hp!Quiet(Pulses, Valid)
      BY <2>5, KeeperIsQuiet
    <3>. QED
      BY <1>1, <1>4, <3>1 DEF Hp!Quiet
  <2>7. Over => won' = won
    BY <1>1, <2>2, <2>6
  <2>. QED
    BY <2>2, <2>4, <2>5, <2>7
<1>5. CASE ~ empty
  <2>1. /\ \A p \in Players : ~ Hp!Empty(p)
        /\ Hp!Watch(Pulses, Valid) \/ Hp!Strike(Guards) \/ Hp!Follow(Pulses)
    BY <1>1, <1>5 DEF Hp!Tick, Hp!Declare
  <2>2. ASSUME hpbar' = hpbar
        PROVE  ~ empty' /\ \A p \in Players : ~ Hp!Empty(p)'
    BY <1>5, <2>1, <2>2 DEF Hp!Empty
  <2>3. CASE phase = "S"
    <3>1. phase' = "is" /\ attack' = attack
      BY <2>1, <2>3 DEF Hp!Watch, Hp!Strike, Hp!Follow
    <3>2. attack'.move \in Pulses'[attack'.by]
      BY <2>3, <3>1 DEF ClkInv, SentIInv, PulseHolds
    <3>3. KeeperUnrest = 2
      BY <1>5, <2>1, <2>3 DEF KeeperUnrest
    <3>4. KeeperUnrest' \in {0, 1}
      <4>1. CASE empty'
        BY <4>1 DEF KeeperUnrest
      <4>2. CASE ~ empty'
        <5>1. \A p \in Players : ~ Hp!Empty(p)'
          BY <4>2
        <5>. QED
          BY <3>1, <3>2, <4>2, <5>1 DEF KeeperUnrest
      <4>. QED
        BY <4>1, <4>2
    <3>. QED
      BY <3>3, <3>4
  <2>4. CASE phase = "normal"
    <3>1. Hp!Watch(Pulses, Valid)
      BY <2>1, <2>4 DEF Hp!Strike, Hp!Follow
    <3>2. /\ back' = [p \in Players |-> 0] /\ hpbar' = hpbar /\ won' = won
          /\ \/ phase' = "S" /\ SomeLands
             \/ phase' = phase /\ attack' = attack /\ ~ SomeLands
      BY <1>1, <1>2, <3>1 DEF Hp!Watch, SomeLands
    <3>3. ~ empty' /\ \A p \in Players : ~ Hp!Empty(p)'
      BY <2>2, <3>2
    <3>4. KeeperUnrest = IF SomeLands THEN 3
                         ELSE IF \A p \in Players : back[p] = 0 THEN 0 ELSE 1
      BY <1>5, <2>1, <2>4 DEF KeeperUnrest
    <3>5. CASE SomeLands
      <4>1. phase' = "S"
        BY <3>2, <3>5
      <4>2. KeeperUnrest' = 2
        BY <3>3, <4>1 DEF KeeperUnrest
      <4>. QED
        BY <3>4, <3>5, <4>2
    <3>6. CASE ~ SomeLands
      <4>1. phase' = "normal" /\ phase' = phase /\ attack' = attack
        BY <2>4, <3>2, <3>6
      <4>2. \A p \in Players : back'[p] = 0
        BY <3>2
      <4>3. KeeperUnrest' = 0
        BY <1>3, <3>3, <3>6, <4>1, <4>2 DEF KeeperUnrest
      <4>4. (\A p \in Players : back[p] = 0) => back' = back
        BY <1>1, <3>2
      <4>. QED
        BY <3>2, <3>4, <3>6, <4>1, <4>3, <4>4
    <3>. QED
      BY <3>5, <3>6
  <2>5. CASE phase = "is"
    <3>1. Hp!Follow(Pulses)
      BY <2>1, <2>5 DEF Hp!Watch, Hp!Strike
    <3>2. /\ UNCHANGED <<hpbar, back, won>>
          /\ IF attack.move \in Pulses[attack.by] THEN UNCHANGED <<phase, attack>>
             ELSE phase' = "normal"
      BY <3>1 DEF Hp!Follow
    <3>3. KeeperUnrest = IF attack.move \in Pulses[attack.by] THEN 0 ELSE 4
      BY <1>5, <2>1, <2>5 DEF KeeperUnrest
    <3>4. ASSUME attack.move \notin Pulses[attack.by]
          PROVE  KeeperUnrest' <= 3
      <4>1. phase' = "normal"
        BY <3>2, <3>4
      <4>2. ~ empty' /\ \A p \in Players : ~ Hp!Empty(p)'
        BY <2>2, <3>2
      <4>. QED
        BY <4>1, <4>2 DEF KeeperUnrest
    <3>. QED
      BY <3>2, <3>3, <3>4
  <2>. QED
    BY <1>1, <2>3, <2>4, <2>5
<1>. QED
  BY <1>4, <1>5

LEMMA RestIsWithin == ASSUME ClkInv PROVE Within(0) => AtRest
<1>. SUFFICES ASSUME Within(0) PROVE AtRest
  OBVIOUS
<1>1. Turning(0) /\ KeeperUnrest <= 0
  BY DEF Within
<1>2. KeeperUnrest = 0
  BY <1>1, KeeperIsQuiet
<1>3. TurnedFace(Asked) = face
  <2>1. ASSUME NEW p \in Players
        PROVE  face[p] = [state |-> NextFace(face[p].state, Asked[p]),
                          left |-> LooksLeft(p, face[p]),
                          right |-> LooksRight(p, face[p])]
    <3>1. face[p] \in [state : FaceState, left : BOOLEAN, right : BOOLEAN]
      BY DEF ClkInv, TypeOK
    <3>2. TurnsLeft(face[p].state, Asked[p]) \in 0 .. 2 /\ FaceUnrest(p) <= 0
      BY <1>1, <3>1, TurnsAre DEF Turning
    <3>3. TurnsLeft(face[p].state, Asked[p]) = 0 /\ LooksAlong(p)
      BY <3>2 DEF FaceUnrest
    <3>4. NextFace(face[p].state, Asked[p]) = face[p].state
      BY <3>1, <3>3, TurnsAre
    <3>. QED
      BY <3>1, <3>3, <3>4 DEF LooksAlong
  <2>2. face = [p \in Players |-> face[p]]
    BY DEF ClkInv, TypeOK
  <2>. QED
    BY <2>1, <2>2 DEF TurnedFace, Players, Sides
<1>4. Flown(Flights) = grav
  <2>1. ASSUME NEW b \in Body
        PROVE  grav[b] = [state |-> NextFlight(grav[b].state, Flights[b].jump, Flights[b].y),
                          motion |-> NextFall(grav[b].state, Flights[b].near,
                                              Flights[b].y, Flights[b].oy)]
    <3>1. /\ grav[b] \in [state : 0 .. 3, motion : {0, Up, Down}]
          /\ body[b] \in Fighter
      BY DEF ClkInv, TypeOK, Fighter
    <3>2. grav[b].state \in 0 .. 3 /\ Flights[b].y \in Int
      BY <3>1, Steps DEF Fighter, Flights
    <3>3. FlightsLeft(grav[b].state, Flights[b]) \in 0 .. 3 /\ FlightUnrest(b) <= 0
      BY <1>1, <3>2, FlightsAre DEF Turning
    <3>4. FlightsLeft(grav[b].state, Flights[b]) = 0 /\ Falls(b)
      BY <3>3 DEF FlightUnrest
    <3>5. NextFlight(grav[b].state, Flights[b].jump, Flights[b].y) = grav[b].state
      BY <3>2, <3>4, FlightsAre
    <3>. QED
      BY <3>1, <3>4, <3>5 DEF Falls
  <2>2. grav = [b \in Body |-> grav[b]]
    BY DEF ClkInv, TypeOK
  <2>. QED
    BY <2>1, <2>2, BodiesAssumption DEF Flown
<1>. QED
  BY <1>2, <1>3, <1>4, KeeperIsQuiet DEF AtRest

\* At rest an edge of Clk changes nothing, and every edge is one closer to it.
LEMMA RestStays == ASSUME ClkInv, AtRest, Tick PROVE UNCHANGED vars
<1>1. UNCHANGED <<face, grav>> /\ Hp!Tick(Pulses, Valid, Guards) /\ UNCHANGED frameVars
  BY DEF Tick, AtRest, FaceTick, GravTick
<1>2. UNCHANGED <<Pulses, Valid>>
  <2>1. UNCHANGED <<body, mode>>
    BY <1>1 DEF frameVars
  <2>2. UNCHANGED <<Seen, Rival>>
    BY <2>1 DEF Seen, Rival
  <2>. QED
    BY <1>1, <2>2, InputsStay DEF Valid, ValidFor, Level
<1>3. KeeperUnrest = 0
  BY KeeperIsQuiet DEF AtRest
<1>4. UNCHANGED <<phase, attack, hpbar, back, won>>
  BY <1>1, <1>2, <1>3, KeeperSettles
<1>. QED
  BY <1>1, <1>4 DEF vars, clkVars

LEMMA WithinTick ==
  ASSUME ClkInv, Tick, NEW n \in 1 .. 8, Within(n) PROVE Within(n - 1)'
<1>1. CASE n > 5
  <2>1. Turning(n - 4) /\ n - 4 \in 0 .. 4 /\ n - 4 # 0
    BY <1>1 DEF Within
  <2>2. Turning((n - 4) - 1)'
    BY <2>1, TurningTick
  <2>3. (n - 4) - 1 = (n - 1) - 4 /\ n - 1 > 4
    BY <1>1
  <2>. QED
    BY <2>2, <2>3 DEF Within
<1>2. CASE n = 5
  <2>1. Turning(1)
    BY <1>2 DEF Within
  <2>2. 1 \in 0 .. 4 /\ 1 # 0 /\ 1 - 1 = 0
    OBVIOUS
  <2>3. Turning(0)'
    BY <2>1, <2>2, TurningTick
  <2>4. KeeperUnrest' <= 4
    BY DEF KeeperUnrest
  <2>. QED
    BY <1>2, <2>3, <2>4 DEF Within
<1>3. CASE n < 5
  <2>1. Turning(0) /\ KeeperUnrest <= n
    BY <1>3 DEF Within
  <2>2. 0 \in 0 .. 4
    OBVIOUS
  <2>3. Turning(0)' /\ UNCHANGED <<face, grav>>
    BY <2>1, <2>2, TurningTick
  <2>4. UNCHANGED <<Pulses, Valid>>
    <3>1. UNCHANGED <<body, mode>>
      BY DEF Tick, frameVars
    <3>2. UNCHANGED <<Seen, Rival>>
      BY <3>1 DEF Seen, Rival
    <3>. QED
      BY <2>3, <3>2, InputsStay DEF Valid, ValidFor, Level
  <2>5. /\ KeeperUnrest = 0 => UNCHANGED <<phase, attack, hpbar, back, won>>
        /\ KeeperUnrest # 0 => KeeperUnrest' <= KeeperUnrest - 1
    BY <2>4, KeeperSettles DEF Tick
  <2>6. KeeperUnrest \in 0 .. 4
    BY KeeperIsQuiet
  <2>7. KeeperUnrest = 0 => KeeperUnrest' = 0
    <3>1. ASSUME UNCHANGED <<phase, attack, hpbar, back, won>>
          PROVE  KeeperUnrest' = KeeperUnrest
      BY <2>4, <3>1 DEF KeeperUnrest, SomeLands, Hp!Empty, Hp!Lands, Hp!Priority, Over
    <3>. QED
      BY <2>5, <3>1
  <2>8. KeeperUnrest' <= n - 1
    <3>1. CASE KeeperUnrest = 0
      <4>1. 0 <= n - 1
        BY <1>3
      <4>. QED
        BY <2>7, <3>1, <4>1
    <3>2. CASE KeeperUnrest # 0
      <4>. DEFINE k == KeeperUnrest
                  l == KeeperUnrest'
      <4>1. l <= k - 1 /\ k <= n /\ k \in 0 .. 4
        BY <2>1, <2>5, <2>6, <3>2
      <4>2. l \in Int
        BY DEF KeeperUnrest
      <4>. HIDE DEF k, l
      <4>3. l <= n - 1
        BY <4>1, <4>2
      <4>. QED
        BY <4>3 DEF l
    <3>. QED
      BY <3>1, <3>2
  <2>. QED
    BY <1>3, <2>3, <2>8 DEF Within
<1>. QED
  BY <1>1, <1>2, <1>3

\* What Reset leaves: nobody is in reach, so whatever animations still bite, the
\* next edge brings the rest.
Fresh == /\ \A p \in Players : face[p].state = "reset"
         /\ body = [b \in Body |-> BodyAtReset(b)]
         /\ grav = [b \in Body |-> [state |-> 0, motion |-> 0]]
         /\ Hp!Init

LEMMA ResetIsFresh == ASSUME TypeOK, Reset PROVE Fresh'
<1>1. /\ face' = [p \in Sides |-> [face[p] EXCEPT !.state = "reset"]]
      /\ body' = [b \in Body |-> BodyAtReset(b)]
      /\ grav' = [b \in Bodies |-> [state |-> 0, motion |-> 0]]
      /\ Hp!Reset
  BY DEF Reset, FaceReset, FightersReset, GravReset
<1>2. \A p \in Players : face[p] \in [state : FaceState, left : BOOLEAN, right : BOOLEAN]
  BY DEF TypeOK
<1>3. \A p \in Players : face'[p].state = "reset"
  BY <1>1, <1>2 DEF Sides, Players
<1>4. Hp!Init'
  BY <1>1 DEF Hp!Reset, Hp!Init
<1>. QED
  BY <1>1, <1>3, <1>4, BodiesAssumption DEF Fresh, BodyAtReset

\* Out of reach nobody's blow is valid, whoever player 2 is and whichever way
\* they look.
LEMMA NoneInReach ==
  ASSUME body = [b \in Body |-> BodyAtReset(b)], NEW p \in Players
  PROVE  ~ (/\ Distance(Seen[p].x, Seen[3 - p].x) <= Reach
            /\ Level(Seen[p], Seen[3 - p]))
<1>. DEFINE s == Seen[p]
            o == Seen[3 - p]
<1>1. /\ body["p1"] = BodyAtReset("p1") /\ body["p2"] = BodyAtReset("p2")
      /\ body["ai"] = BodyAtReset("ai")
  BY DEF Body
<1>2. /\ StartX["p1"] \in Int /\ StartX["p2"] \in Int /\ StartX["ai"] \in Int
      /\ Ground \in Nat /\ HeadRoom \in Nat /\ Ground > HeadRoom
      /\ Distance(StartX["p1"], StartX["p2"]) > Reach
      /\ Distance(StartX["p1"], StartX["ai"]) > Reach
      /\ Reach \in Nat
  BY ArenaAssumption, HeightAssumption, ApartAssumption DEF Body
<1>3. \A a, b \in Int : Distance(a, b) = Distance(b, a)
  BY DEF Distance
<1>4. \/ s = body["p1"] /\ o = Rival
      \/ s = Rival /\ o = body["p1"]
  BY DEF Seen, Players
<1>5. CASE Rival = Nobody
  <2>1. ~ Level(s, o)
    <3>1. \/ s.y = Ground /\ o.y = 0
          \/ s.y = 0 /\ o.y = Ground
      BY <1>1, <1>4, <1>5 DEF Nobody, BodyAtReset
    <3>. QED
      BY <1>2, <3>1 DEF Level, Distance
  <2>. QED
    BY <2>1
<1>6. ASSUME NEW b \in {"p2", "ai"}, Rival = body[b]
      PROVE  ~ (Distance(s.x, o.x) <= Reach)
  <2>1. /\ StartX[b] \in Int
        /\ Distance(StartX["p1"], StartX[b]) > Reach
        /\ Distance(StartX["p1"], StartX[b]) = Distance(StartX[b], StartX["p1"])
    BY <1>2, <1>3
  <2>2. \/ s.x = StartX["p1"] /\ o.x = StartX[b]
        \/ s.x = StartX[b] /\ o.x = StartX["p1"]
    BY <1>1, <1>4, <1>6 DEF BodyAtReset
  <2>3. Distance(s.x, o.x) > Reach
    BY <2>1, <2>2
  <2>4. Distance(s.x, o.x) \in Int
    BY <1>2, <2>1, <2>2 DEF Distance
  <2>. HIDE DEF s, o
  <2>. QED
    BY <1>2, <2>3, <2>4
<1>. QED
  BY <1>5, <1>6 DEF Rival

LEMMA FreshTick == ASSUME TypeOK, Fresh, Tick PROVE AtRest'
<1>1. /\ FaceTick(Asked) /\ GravTick(Flights) /\ Hp!Tick(Pulses, Valid, Guards)
      /\ UNCHANGED <<body, mode, Asked, Flights>>
  BY InputsStay DEF Tick, frameVars
<1>2. \A p \in Players : Asked[p] \in {"stand", "none"}
  <2>1. /\ body["p1"].act = "stand" /\ body["p2"].act = "stand"
        /\ body["ai"].act = "stand"
    BY DEF Fresh, BodyAtReset, Body
  <2>. QED
    BY <2>1 DEF Asked, Seen, Rival, Nobody, Players
<1>3. ASSUME NEW p \in Players
      PROVE  /\ face'[p] = [state |-> "reset", left |-> p = 2, right |-> p = 1]
             /\ face'[p].state = "reset"
  <2>1. face'[p] = [state |-> NextFace(face[p].state, Asked[p]),
                    left |-> LooksLeft(p, face[p]), right |-> LooksRight(p, face[p])]
    BY <1>1 DEF FaceTick, TurnedFace, Sides, Players
  <2>2. face[p].state = "reset" /\ Asked[p] \notin {"left", "right"}
    BY <1>2 DEF Fresh
  <2>3. NextFace(face[p].state, Asked[p]) = "reset"
    BY <2>2 DEF NextFace
  <2>4. LooksLeft(p, face[p]) = (p = 2) /\ LooksRight(p, face[p]) = (p = 1)
    BY <2>2 DEF LooksLeft, LooksRight
  <2>5. face'[p].state = "reset"
    BY <2>1, <2>3
  <2>. QED
    BY <2>1, <2>3, <2>4, <2>5, Zenon
<1>4. (TurnedFace(Asked) = face)'
  <2>1. face' = [p \in Players |-> face'[p]]
    BY <1>1, TickType
  <2>2. ASSUME NEW p \in Players
        PROVE  face'[p] = [state |-> NextFace(face'[p].state, Asked'[p]),
                           left |-> LooksLeft(p, face'[p]),
                           right |-> LooksRight(p, face'[p])]
    <3>1. Asked'[p] \notin {"left", "right"}
      BY <1>1, <1>2
    <3>2. face'[p].state = "reset"
      BY <1>3
    <3>3. NextFace(face'[p].state, Asked'[p]) = "reset"
      BY <3>1, <3>2 DEF NextFace
    <3>4. LooksLeft(p, face'[p]) = (p = 2) /\ LooksRight(p, face'[p]) = (p = 1)
      BY <3>2 DEF LooksLeft, LooksRight
    <3>. QED
      BY <1>3, <3>3, <3>4, Zenon
  <2>. QED
    BY <2>1, <2>2 DEF TurnedFace, Sides, Players
<1>5. grav' = grav /\ (Flown(Flights) = grav)'
  <2>1. ASSUME NEW b \in Body
        PROVE  /\ NextFlight(0, Flights[b].jump, Flights[b].y) = 0
               /\ NextFall(0, Flights[b].near, Flights[b].y, Flights[b].oy) = 0
    <3>1. Flights[b].jump = FALSE
      BY DEF Fresh, BodyAtReset, Flights
    <3>. QED
      BY <3>1 DEF NextFlight, NextFall
  <2>2. Flown(Flights) = grav
    BY <2>1, BodiesAssumption DEF Flown, Fresh
  <2>. QED
    BY <1>1, <2>2 DEF GravTick, Flown
<1>6. \A p \in Players : ~ ValidFor(p) /\ ~ ValidFor(p)'
  <2>1. body' = [b \in Body |-> BodyAtReset(b)] /\ body = [b \in Body |-> BodyAtReset(b)]
    BY <1>1 DEF Fresh
  <2>2. \A p \in Players : ~ ValidFor(p)
    BY <2>1, NoneInReach DEF ValidFor
  <2>3. Seen' = Seen
    BY <1>1 DEF Seen, Rival
  <2>4. \A p \in Players : ~ ValidFor(p)'
    BY <2>1, <2>3, NoneInReach DEF ValidFor, Level
  <2>. QED
    BY <2>2, <2>4
<1>7. Hp!Quiet(Pulses, Valid)'
  <2>1. /\ phase = "normal" /\ \A p \in Players : hpbar[p] = Full
        /\ Full \in Nat \ {0}
    BY ScoreAssumption DEF Fresh, Hp!Init, Hp!FullAssumption, Hp!Player, Players
  <2>2. \A p \in Players : ~ Hp!Empty(p)
    BY <2>1 DEF Hp!Empty
  <2>3. /\ Hp!Player = Players /\ Len(Hp!Priority) = 6
        /\ \A i \in 1 .. 6 : Hp!Priority[i].by \in Players
    BY DEF Hp!Player, Hp!Priority, Players
  <2>4. \A i \in 1 .. 6 : /\ ~ Hp!Lands(Hp!Priority[i], Pulses, Valid)
                          /\ ~ Hp!Lands(Hp!Priority[i], Pulses, Valid)'
    BY <1>6, <2>3 DEF Hp!Lands, Hp!Priority, Valid
  <2>5. Hp!Watch(Pulses, Valid)
    BY <1>1, <2>1, <2>2, <2>3 DEF Hp!Tick, Hp!Declare, Hp!Strike, Hp!Follow
  <2>6. /\ phase' = "normal" /\ hpbar' = hpbar /\ \A p \in Players : back'[p] = 0
    BY <2>1, <2>3, <2>4, <2>5 DEF Hp!Watch
  <2>7. \A p \in Players : ~ Hp!Empty(p)'
    BY <2>2, <2>6 DEF Hp!Empty
  <2>. QED
    BY <2>3, <2>4, <2>6, <2>7 DEF Hp!Quiet
<1>. QED
  BY <1>4, <1>5, <1>7 DEF AtRest

LEMMA FreshIsPrimed ==
  ASSUME Fresh, UNCHANGED vars PROVE Fresh'
  BY DEF Fresh, Hp!Init, vars, clkVars, frameVars

LEMMA WithinIsPrimed ==
  ASSUME ClkInv, UNCHANGED vars, NEW n \in 0 .. 8, Within(n) PROVE Within(n)'
<1>1. /\ UNCHANGED <<body, mode, face, grav>>
      /\ UNCHANGED <<phase, attack, hpbar, back, won>>
      /\ UNCHANGED frameVars
  BY DEF vars, clkVars, frameVars
<1>2. UNCHANGED <<Asked, Flights, Pulses, Valid>>
  <2>1. UNCHANGED <<Seen, Rival>>
    BY <1>1 DEF Seen, Rival
  <2>2. \A b : Against(b)' = Against(b)
    BY <1>1, <2>1 DEF Against
  <2>3. UNCHANGED <<Asked, Flights>>
    BY <1>1, <2>1, <2>2 DEF Asked, Flights, Near
  <2>4. UNCHANGED Pulses
    BY <1>1 DEF Pulses, Biting, frameVars
  <2>5. UNCHANGED Valid
    BY <1>1, <2>1 DEF Valid, ValidFor, Level
  <2>. QED
    BY <2>3, <2>4, <2>5
<1>3. KeeperUnrest' = KeeperUnrest
  BY <1>1, <1>2
     DEF KeeperUnrest, SomeLands, Hp!Empty, Hp!Lands, Hp!Priority, Over
<1>4. \A p \in Players : FaceUnrest(p)' = FaceUnrest(p)
  BY <1>1, <1>2 DEF FaceUnrest, LooksAlong
<1>5. \A b \in Body : FlightUnrest(b)' = FlightUnrest(b)
  BY <1>1, <1>2 DEF FlightUnrest, Falls
<1>6. \A m : Turning(m) => Turning(m)'
  BY <1>4, <1>5 DEF Turning
<1>. QED
  BY <1>3, <1>6 DEF Within

\* One step of the game, seen from n edges before the rest.  Ticks come closer,
\* a frame finds the rest already there, Reset brings the fresh state.
LEMMA Nearer ==
  ASSUME ClkInv, [Next]_vars, NEW n \in 1 .. 8, Within(n)
  PROVE  /\ Within(n)' \/ Within(n - 1)' \/ Fresh' \/ AtRest
         /\ <<Tick \/ AnyFrame>>_vars => Within(n - 1)' \/ AtRest
<1>1. Tick => Within(n - 1)'
  BY WithinTick
<1>2. AnyFrame => AtRest
  BY DEF AnyFrame, Frame
<1>3. Reset => Fresh'
  BY ResetIsFresh DEF ClkInv
<1>4. UNCHANGED vars => Within(n)'
  BY WithinIsPrimed
<1>. QED
  BY <1>1, <1>2, <1>3, <1>4 DEF Next

LEMMA FreshNearer ==
  ASSUME ClkInv, [Next]_vars, Fresh
  PROVE  /\ Fresh' \/ AtRest' \/ AtRest
         /\ <<Tick \/ AnyFrame>>_vars => AtRest' \/ AtRest
<1>1. Tick => AtRest'
  BY FreshTick DEF ClkInv
<1>2. AnyFrame => AtRest
  BY DEF AnyFrame, Frame
<1>3. Reset => Fresh'
  BY ResetIsFresh DEF ClkInv
<1>4. UNCHANGED vars => Fresh'
  BY FreshIsPrimed
<1>. QED
  BY <1>1, <1>2, <1>3, <1>4 DEF Next

\* The bound: between two frames the Clk side is never more than eight edges
\* from rest, whatever the fighters did, and every edge brings it one closer;
\* 840000 edges lie between two frames.
THEOREM RestInEight ==
  Spec => /\ [](Within(8) /\ (Within(0) => AtRest))
          /\ [][Tick => \A n \in 1 .. 8 : Within(n) => Within(n - 1)']_vars
<1>1. ClkInv => Within(8)
  BY TurningAlways DEF ClkInv, Within
<1>2. ClkInv => (Within(0) => AtRest)
  BY RestIsWithin
<1>3. ClkInv => [Tick => \A n \in 1 .. 8 : Within(n) => Within(n - 1)']_vars
  BY WithinTick
<1>. QED
  BY <1>1, <1>2, <1>3, ClkHolds, PTL

\* The Clk side comes to rest between two frames.
THEOREM ClkComesToRest == RunningSpec => ClkSettles
<1>1. ClkInv => Within(8) /\ (Within(0) => AtRest)
  BY TurningAlways, RestIsWithin DEF ClkInv, Within
<1>. DEFINE Closer(n, m) ==
              /\ Within(n)' \/ Within(m)' \/ Fresh' \/ AtRest
              /\ <<Tick \/ AnyFrame>>_vars => Within(m)' \/ AtRest
<1>2. ASSUME ClkInv, [Next]_vars
      PROVE  \A n \in 1 .. 8 : Within(n) => Closer(n, n - 1)
  BY <1>2, Nearer
<1>3. 8 - 1 = 7 /\ 7 - 1 = 6 /\ 6 - 1 = 5 /\ 5 - 1 = 4 /\ 4 - 1 = 3 /\ 3 - 1 = 2
      /\ 2 - 1 = 1 /\ 1 - 1 = 0
  OBVIOUS
<1>4. ClkInv /\ [Next]_vars =>
        /\ Within(8) => Closer(8, 7)
        /\ Within(7) => Closer(7, 6)
        /\ Within(6) => Closer(6, 5)
        /\ Within(5) => Closer(5, 4)
        /\ Within(4) => Closer(4, 3)
        /\ Within(3) => Closer(3, 2)
        /\ Within(2) => Closer(2, 1)
        /\ Within(1) => Closer(1, 0)
  <2>. HIDE DEF Closer
  <2>. QED
    BY <1>2, <1>3
<1>5. ClkInv /\ [Next]_vars /\ Fresh =>
        /\ Fresh' \/ AtRest' \/ AtRest
        /\ <<Tick \/ AnyFrame>>_vars => AtRest' \/ AtRest
  BY FreshNearer
<1>. QED
  BY <1>1, <1>4, <1>5, ClkHolds, PTL DEF RunningSpec, Spec, ClkSettles

LEMMA RestIsPrimed == ASSUME AtRest, UNCHANGED vars PROVE AtRest'
<1>1. /\ UNCHANGED <<body, mode, face, grav>>
      /\ UNCHANGED <<phase, attack, hpbar, back, won>>
      /\ UNCHANGED frameVars
  BY DEF vars, clkVars, frameVars
<1>2. UNCHANGED <<Seen, Rival>>
  BY <1>1 DEF Seen, Rival
<1>3. \A b : Against(b)' = Against(b)
  BY <1>1, <1>2 DEF Against
<1>4. UNCHANGED <<Asked, Flights>>
  BY <1>1, <1>2, <1>3 DEF Asked, Flights, Near
<1>5. UNCHANGED Pulses
  BY <1>1 DEF Pulses, Biting, frameVars
<1>6. UNCHANGED Valid
  BY <1>1, <1>2 DEF Valid, ValidFor, Level
<1>7. (TurnedFace(Asked) = face)' /\ (Flown(Flights) = grav)'
  BY <1>1, <1>4 DEF AtRest, TurnedFace, Flown
<1>8. Hp!Quiet(Pulses, Valid)'
  BY <1>1, <1>5, <1>6 DEF AtRest, Hp!Quiet, Hp!Empty, Hp!Lands, Hp!Priority
<1>. QED
  BY <1>7, <1>8 DEF AtRest

Stopped == \A b \in {"p1", "p2"} : body[b].mx = 0 /\ body[b].act = "stand"

\* A frame finds the winner declared and stops both fighters.
LEMMA FallenFrame == ASSUME ClkInv, Fallen, AnyFrame PROVE Stopped'
<1>1. PICK keys \in Menu, choice \in Choices : Frame(keys, choice)
  BY DEF AnyFrame
<1>2. AtRest /\ BodiesFrame(keys)
  BY <1>1 DEF Frame
<1>3. Over
  <2>1. /\ Hp!Player = Players /\ \E p \in Hp!Player : Hp!Empty(p)
    BY DEF Fallen, Hp!Player, Hp!Empty, Players
  <2>2. won[1] \/ won[2]
    BY <1>2, <2>1 DEF AtRest, Hp!Quiet
  <2>. QED
    BY <2>2 DEF Over
<1>4. ASSUME NEW b \in {"p1", "p2"}
      PROVE  body'[b].mx = 0 /\ body'[b].act = "stand"
  <2>1. b \in Body /\ b # "ai"
    BY DEF Body
  <2>2. body'[b] = Moved(b, body[b], PickedNow(b, keys))
    BY <1>2, <2>1 DEF BodiesFrame
  <2>3. PickedNow(b, keys) = [act |-> "stand", mx |-> 0]
    BY <1>3, Zenon DEF PickedNow, Picked
  <2>. QED
    BY <2>2, <2>3 DEF Moved
<1>. QED
  BY <1>4 DEF Stopped

\* From the rest of a fallen match only a frame or Reset leads away, and
\* neither clock can do anything but the frame.
LEMMA FallenRest ==
  ASSUME ClkInv, Fallen, AtRest, [Next]_vars
  PROVE  /\ AtRest' \/ Stopped' \/ ~ Fallen'
         /\ <<Tick \/ AnyFrame>>_vars => Stopped'
<1>1. Tick => UNCHANGED vars
  BY RestStays
<1>2. AnyFrame => Stopped'
  BY FallenFrame
<1>3. Reset => ~ Fallen'
  BY ScoreAssumption
     DEF Reset, Hp!Reset, Hp!FullAssumption, Hp!Player, Fallen, Players
<1>4. UNCHANGED vars => AtRest'
  BY RestIsPrimed
<1>. QED
  BY <1>1, <1>2, <1>3, <1>4 DEF Next

\* After a knockout both fighters come to a stop, unless Reset.
THEOREM VictoryComesToAHalt == RunningSpec => VictoryHalts
<1>1. ClkInv /\ Fallen /\ AtRest /\ [Next]_vars =>
        /\ AtRest' \/ Stopped' \/ ~ Fallen'
        /\ <<Tick \/ AnyFrame>>_vars => Stopped'
  BY FallenRest
<1>2. RunningSpec => (Fallen ~> (~ Fallen \/ Stopped))
  BY <1>1, ClkComesToRest, ClkHolds, PTL DEF RunningSpec, Spec, ClkSettles
<1>. QED
  BY <1>2 DEF VictoryHalts, Stopped
-----------------------------------------------------------------------------
\* A flight ends exactly on the ground.

\* The opponent does not fly at the same time: he stands, or nobody has been
\* chosen yet.  (Two in the air at once may turn each other's flight.)
FliesAlone(b) == grav[b].state # 0 => Against(b).y = Ground \/ Against(b) = Nobody

\* The rows a fighter passes, one Rise from one to the next.
Row == {Ground - k * Rise : k \in Int}

\* Where a fighter is in each state of his flight.  A jump close to an opponent
\* begins with a step into the ground.
FlightInv(b) ==
  /\ grav[b].state = 0 => body[b].y = Ground /\ grav[b].motion = 0
  /\ grav[b].state = 1 => body[b].y \in Row \cap (Apex - Rise + 1 .. Ground + Rise)
  /\ grav[b].state = 2 => body[b].y \in Row \cap (Apex - Rise + 1 .. Ground)
  /\ grav[b].state = 3 => body[b].y = Ground

LEMMA Rows ==
  /\ Ground \in Row /\ Row \subseteq Int
  /\ \A y \in Row : y - Rise \in Row /\ y + Rise \in Row
  /\ \A y \in Row : y < Ground => y + Rise <= Ground
<1>1. Ground \in Nat /\ Rise \in Nat /\ Rise > 0
  BY HeightAssumption
<1>2. Ground \in Row
  <2>1. Ground = Ground - 0 * Rise /\ 0 \in Int
    BY <1>1
  <2>. QED
    BY <2>1 DEF Row
<1>3. ASSUME NEW y \in Row
      PROVE  /\ y \in Int /\ y - Rise \in Row /\ y + Rise \in Row
             /\ y < Ground => y + Rise <= Ground
  <2>1. PICK k \in Int : y = Ground - k * Rise
    BY DEF Row
  <2>2. k * Rise \in Int
    BY <1>1
  <2>3. (k + 1) * Rise = k * Rise + Rise /\ (k - 1) * Rise = k * Rise - Rise
    BY <1>1
  <2>4. y - Rise = Ground - (k + 1) * Rise /\ y + Rise = Ground - (k - 1) * Rise
    BY <1>1, <2>1, <2>2, <2>3
  <2>5. y - Rise \in Row /\ y + Rise \in Row
    BY <2>4 DEF Row
  <2>6. ASSUME y < Ground PROVE y + Rise <= Ground
    <3>1. k * Rise > 0
      BY <1>1, <2>1, <2>2, <2>6
    <3>2. k >= 1
      BY <1>1, <3>1
    <3>3. k * Rise >= Rise
      BY <1>1, <3>2
    <3>. QED
      BY <1>1, <2>1, <2>2, <3>3
  <2>. QED
    BY <1>1, <2>1, <2>2, <2>5, <2>6
<1>. QED
  BY <1>2, <1>3

LEMMA FlightTick ==
  ASSUME TypeOK, Tick, NEW b \in Body, FlightInv(b) PROVE FlightInv(b)'
<1>. DEFINE s == grav[b].state
            y == body[b].y
<1>1. /\ s \in 0 .. 3 /\ y \in Int /\ body' = body
      /\ Rise \in Nat /\ Ground \in Nat /\ Apex \in Nat /\ Rise > 0
      /\ Apex < Ground
  BY HeightAssumption DEF TypeOK, Tick, frameVars
<1>2. /\ grav'[b].state = NextFlight(s, Flights[b].jump, y)
      /\ grav'[b].motion = NextFall(s, Flights[b].near, y, Flights[b].oy)
  BY BodiesAssumption DEF Tick, GravTick, Flown, Flights
<1>. HIDE DEF s, y
<1>3. /\ s = 0 => y = Ground
      /\ s = 1 => y \in Row \cap (Apex - Rise + 1 .. Ground + Rise)
      /\ s = 2 => y \in Row \cap (Apex - Rise + 1 .. Ground)
      /\ s = 3 => y = Ground
  BY DEF FlightInv, s, y
<1>4. CASE s = 0
  <2>1. grav'[b].state \in {0, 1} /\ grav'[b].motion = 0
    BY <1>2, <1>4 DEF NextFlight, NextFall
  <2>2. Ground \in Row \cap (Apex - Rise + 1 .. Ground + Rise)
    BY <1>1, Rows
  <2>. QED
    BY <1>1, <1>3, <1>4, <2>1, <2>2 DEF FlightInv, y
<1>5. CASE s = 1
  <2>1. grav'[b].state = (IF y <= Apex THEN 2 ELSE 1)
    BY <1>2, <1>5 DEF NextFlight
  <2>2. y <= Apex => y \in Row \cap (Apex - Rise + 1 .. Ground)
    BY <1>1, <1>3, <1>5
  <2>. QED
    BY <1>1, <1>3, <1>5, <2>1, <2>2 DEF FlightInv, y
<1>6. CASE s = 2
  <2>1. grav'[b].state = (IF y >= Ground THEN 3 ELSE 2)
    BY <1>2, <1>6 DEF NextFlight
  <2>2. y >= Ground => y = Ground
    BY <1>1, <1>3, <1>6
  <2>. QED
    BY <1>1, <1>3, <1>6, <2>1, <2>2 DEF FlightInv, y
<1>7. CASE s = 3
  <2>1. grav'[b].state = 0 /\ grav'[b].motion = 0
    BY <1>2, <1>7 DEF NextFlight, NextFall
  <2>. QED
    BY <1>1, <1>3, <1>7, <2>1 DEF FlightInv, y
<1>. QED
  BY <1>1, <1>4, <1>5, <1>6, <1>7

LEMMA FlightFrame ==
  ASSUME TypeOK, AnyFrame, NEW b \in Body, FliesAlone(b), FlightInv(b)
  PROVE  FlightInv(b)'
<1>. DEFINE s == grav[b].state
            m == grav[b].motion
            y == body[b].y
            oy == Against(b).y
<1>1. PICK keys \in Menu, choice \in Choices : Frame(keys, choice)
  BY DEF AnyFrame
<1>2. Flown(Flights) = grav /\ grav' = grav /\ BodiesFrame(keys)
  BY <1>1 DEF Frame, AtRest, clkVars
<1>3. /\ s \in 0 .. 3 /\ y \in 0 .. Width - 1
      /\ {Rise, Ground, Apex, HeadRoom, Width} \subseteq Nat
      /\ Rise > 0 /\ Rise + HeadRoom <= Apex /\ Apex < Ground
      /\ Ground + Rise < Width
  BY HeightAssumption, ClimbAssumption DEF TypeOK
<1>4. /\ s = NextFlight(s, Flights[b].jump, y)
      /\ m = NextFall(s, Flights[b].near, y, oy)
  <2>. DEFINE f == NextFlight(s, Flights[b].jump, Flights[b].y)
              g == NextFall(s, Flights[b].near, Flights[b].y, Flights[b].oy)
  <2>1. grav[b] = [state |-> f, motion |-> g]
    BY <1>2, BodiesAssumption DEF Flown
  <2>2. Flights[b].y = y /\ Flights[b].oy = oy
    BY DEF Flights
  <2>3. s = f /\ m = g
    <3>. HIDE DEF f, g
    <3>. QED
      BY <2>1
  <2>. HIDE DEF s, m, y, oy
  <2>. QED
    BY <2>2, <2>3
<1>5. body'[b].y = y \/ body'[b].y = (y + m) % Width
  BY <1>2 DEF BodiesFrame, Moved
<1>6. s # 0 => oy = Ground \/ oy = 0
  BY DEF FliesAlone, Nobody
<1>7. /\ s = 0 => y = Ground /\ m = 0
      /\ s = 1 => y \in Row \cap (Apex - Rise + 1 .. Ground + Rise)
      /\ s = 2 => y \in Row \cap (Apex - Rise + 1 .. Ground)
  BY DEF FlightInv
<1>8. grav'[b].state = s /\ grav'[b].motion = m
  BY <1>2
<1>. HIDE DEF s, m, y, oy
<1>9. CASE body'[b].y = y
  <2>1. s # 3
    BY <1>4 DEF NextFlight
  <2>. QED
    BY <1>7, <1>8, <1>9, <2>1 DEF FlightInv
<1>10. CASE body'[b].y = (y + m) % Width
  <2>1. CASE s = 0
    <3>1. (y + m) % Width = y
      BY <1>3, <1>7, <2>1
    <3>. QED
      BY <1>7, <1>8, <1>10, <2>1, <3>1 DEF FlightInv
  <2>2. CASE s = 1
    <3>1. y > Apex
      BY <1>3, <1>4, <2>2 DEF NextFlight
    <3>2. CASE m = Up
      <4>1. (y + m) % Width = y - Rise
        BY <1>3, <3>1, <3>2 DEF Up
      <4>2. y - Rise \in Row \cap (Apex - Rise + 1 .. Ground + Rise)
        BY <1>3, <1>7, <2>2, <3>1, Rows
      <4>. QED
        BY <1>8, <1>10, <2>2, <4>1, <4>2 DEF FlightInv
    <3>3. CASE m = Down /\ oy >= y
      <4>1. y <= Ground
        BY <1>3, <1>6, <2>2, <3>1, <3>3
      <4>2. (y + m) % Width = y + Rise
        BY <1>3, <3>3, <4>1 DEF Down
      <4>3. y + Rise \in Row \cap (Apex - Rise + 1 .. Ground + Rise)
        BY <1>3, <1>7, <2>2, <3>1, <4>1, Rows
      <4>. QED
        BY <1>8, <1>10, <2>2, <4>2, <4>3 DEF FlightInv
    <3>. QED
      BY <1>4, <2>2, <3>2, <3>3 DEF NextFall
  <2>3. CASE s = 2
    <3>1. y < Ground
      BY <1>3, <1>4, <2>3 DEF NextFlight
    <3>2. y > Apex - Rise
      BY <1>3, <1>7, <2>3
    <3>3. ~ (oy <= y /\ y - oy <= HeadRoom)
      BY <1>3, <1>6, <2>3, <3>1, <3>2
    <3>4. m = Rise
      BY <1>4, <2>3, <3>3 DEF NextFall, Down
    <3>5. y + Rise \in Row \cap (Apex - Rise + 1 .. Ground)
      BY <1>3, <1>7, <2>3, <3>1, <3>2, Rows
    <3>6. (y + m) % Width = y + Rise
      BY <1>3, <3>1, <3>4
    <3>. QED
      BY <1>8, <1>10, <2>3, <3>5, <3>6 DEF FlightInv
  <2>4. s # 3
    BY <1>4 DEF NextFlight
  <2>. QED
    BY <1>3, <2>1, <2>2, <2>3, <2>4
<1>. QED
  BY <1>5, <1>9, <1>10

LEMMA FlightStep ==
  ASSUME TypeOK, [Next]_vars, NEW b \in Body, FliesAlone(b), FlightInv(b)
  PROVE  FlightInv(b)'
<1>1. CASE Reset
  <2>1. body'[b].y = Ground /\ grav'[b].state = 0 /\ grav'[b].motion = 0
    BY <1>1, BodiesAssumption DEF Reset, FightersReset, GravReset, BodyAtReset
  <2>. QED
    BY <2>1 DEF FlightInv
<1>2. CASE UNCHANGED vars
  BY <1>2 DEF vars, clkVars, frameVars, FlightInv
<1>. QED
  BY <1>1, <1>2, FlightTick, FlightFrame DEF Next

LEMMA FlightStarts == ASSUME Init, NEW b \in Body PROVE FlightInv(b)
<1>1. body[b].y = Ground /\ grav[b].state = 0 /\ grav[b].motion = 0
  BY BodiesAssumption DEF Init, FightersInit, GravInit, BodyAtReset
<1>. QED
  BY <1>1 DEF FlightInv

\* A flight ends exactly on the ground (gravity.sv): a fighter whose opponent
\* never flies at the same time is on row Ground, and not moving, whenever his
\* jump is over, for every height of the ground and the apex and every step,
\* wherever he meets the opponent's body.
THEOREM EachFlightLands ==
  ASSUME NEW CONSTANT b \in Body
  PROVE  Spec /\ []FliesAlone(b)
           => [](AtRest => (grav[b].state = 0 =>
                              body[b].y = Ground /\ grav[b].motion = 0))
<1>1. Init => FlightInv(b)
  BY FlightStarts
<1>2. ClkInv /\ FliesAlone(b) /\ FlightInv(b) /\ [Next]_vars => FlightInv(b)'
  BY FlightStep DEF ClkInv
<1>3. FlightInv(b) => (AtRest => (grav[b].state = 0 =>
                         body[b].y = Ground /\ grav[b].motion = 0))
  BY DEF FlightInv
<1>. QED
  BY <1>1, <1>2, <1>3, ClkHolds, PTL DEF Spec

\* The same of all bodies at once, as the run states it.
THEOREM FlightsLand ==
  Spec /\ [](\A b \in Body : FliesAlone(b)) => []LandsOnGround
<1>. DEFINE AllInv == \A b \in Body : FlightInv(b)
            AllAlone == \A b \in Body : FliesAlone(b)
<1>1. Init => AllInv
  BY FlightStarts
<1>2. ClkInv /\ AllAlone /\ AllInv /\ [Next]_vars => AllInv'
  BY FlightStep DEF ClkInv
<1>3. AllInv => LandsOnGround
  BY DEF FlightInv, LandsOnGround
<1>. QED
  BY <1>1, <1>2, <1>3, ClkHolds, PTL DEF Spec
=============================================================================
