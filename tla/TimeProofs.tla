----------------------------- MODULE TimeProofs -----------------------------
(***************************************************************************)
(* What goes with the clock, for every number of alarms and every width of *)
(* the words.  The list of alarms stays linked in both directions, and the *)
(* walk of alt_tick stays in it, whatever alarms are started and stopped   *)
(* by the program and by callbacks; the wall clock and the busy wait keep  *)
(* time; the log prints what is on and loses nothing of its handlers'.     *)
(***************************************************************************)
EXTENDS MCTime, SequenceTheorems, TLAPS

\* An alarm that is off points to itself both ways, if it ever was on.
OffIsLoop == \A a \in Alarm : next[a] = a => previous[a] = a
\* Where the alarms stand in the list, counted from its end: each that is on
\* has a rank of its own, the first the highest, and the next is that of the
\* entry it points to.
Order(rank) ==
  /\ \A a, b \in Alarm : On(a) /\ On(b) /\ a # b => rank[a] # rank[b]
  /\ \A a \in Alarm : On(a) /\ next[a] # Root => rank[next[a]] < rank[a]
  /\ \A a, b \in Alarm : On(a) /\ On(b) /\ rank[b] < rank[a] =>
                         next[a] # Root /\ rank[b] <= rank[next[a]]
  /\ \A b \in Alarm : On(b) => next[Root] # Root /\ rank[b] <= rank[next[Root]]
\* The walk has read the entry that follows the one it is at.
ReadAhead == Visiting => On(at) /\ then = next[at]
\* What is due now, and what has still to forget that the counter wrapped, lies
\* before the walk.
Pending(rank) ==
  \A a \in Alarm : On(a) =>
    /\ Remaining(a) >= 0
    /\ Remaining(a) = 0 \/ (rollover[a] /\ nticks = 0) =>
         Visiting /\ rank[a] <= rank[at]
ListInv == TypeOK /\ Linked /\ OffIsLoop

-----------------------------------------------------------------------------
LEMMA Nodes == /\ Root \in Node /\ Root \notin Alarm /\ Null \notin Node
               /\ Alarm \subseteq Node /\ \A n \in Node : n = Root \/ n \in Alarm
BY AlarmsAssumption DEF Node

\* The entry that the head or an alarm that is on points to.
LEMMA NextIs == ASSUME ListInv, NEW n \in Node, n = Root \/ On(n)
                PROVE  /\ next[n] \in Node /\ previous[n] \in Node
                       /\ previous[next[n]] = n /\ next[previous[n]] = n
                       /\ next[n] = Root \/ On(next[n])
                       /\ previous[n] = Root \/ On(previous[n])
<1>1. /\ next[n] \in Node /\ previous[n] \in Node
      /\ previous[next[n]] = n /\ next[previous[n]] = n
      /\ next[n] = Root \/ On(next[n])
  BY DEF ListInv, Linked
<1>2. previous[n] = Root \/ On(previous[n])
  <2>1. CASE previous[n] = Root
    BY <2>1
  <2>2. CASE previous[n] # Root
    <3>1. previous[n] \in Alarm /\ n # Null
      BY <1>1, <2>2, Nodes
    <3>2. next[previous[n]] = n
      BY <1>1
    <3>3. previous[n] # n
      <4>1. CASE previous[n] = n
        <5>1. next[n] = n
          BY <1>1, <4>1
        <5>2. n = Root
          BY <5>1 DEF On
        <5>. QED
          BY <2>2, <4>1, <5>2
      <4>. QED
        BY <4>1
    <3>. QED
      BY <3>1, <3>2, <3>3 DEF On
  <2>. QED
    BY <2>1, <2>2
<1>. QED
  BY <1>1, <1>2

\* alt_llist_insert of an alarm that is off (alt_llist.h:82-92).
LEMMA Inserting ==
  ASSUME ListInv, NEW a \in Alarm, ~ On(a), Insert(a)
  PROVE  /\ next' \in [Node -> Node \cup {Null}]
         /\ previous' \in [Node -> Node \cup {Null}]
         /\ next'[a] = next[Root] /\ next'[Root] = a
         /\ \A n \in Node \ {a, Root} : next'[n] = next[n]
         /\ \A n \in Alarm \ {a} : On(n)' <=> On(n)
         /\ On(a)' /\ Linked' /\ OffIsLoop'
<1>. DEFINE h == next[Root]
<1>1. /\ h \in Node /\ previous[h] = Root /\ (h = Root \/ On(h)) /\ a # Root
      /\ a \in Node /\ Root \in Node
  BY Nodes, NextIs
<1>2. h # a
  BY <1>1
<1>. HIDE DEF h
<1>3. /\ next \in [Node -> Node \cup {Null}] /\ previous \in [Node -> Node \cup {Null}]
      /\ next[Root] = h
  BY DEF ListInv, TypeOK, h
<1>4. /\ next' \in [Node -> Node \cup {Null}]
      /\ next'[a] = h /\ next'[Root] = a
      /\ \A n \in Node \ {a, Root} : next'[n] = next[n]
  BY <1>1, <1>3 DEF Insert
<1>5. /\ previous' \in [Node -> Node \cup {Null}]
      /\ previous'[h] = a /\ previous'[a] = Root
      /\ \A n \in Node \ {a, h} : previous'[n] = previous[n]
  <2>. DEFINE p == [previous EXCEPT ![a] = Root]
  <2>1. /\ p \in [Node -> Node \cup {Null}] /\ p[a] = Root
        /\ \A n \in Node \ {a} : p[n] = previous[n]
    BY <1>1, <1>3
  <2>2. previous' = [p EXCEPT ![h] = a]
    BY <1>3 DEF Insert
  <2>. HIDE DEF p
  <2>. QED
    BY <1>1, <1>2, <2>1, <2>2
<1>6. On(a)' /\ \A n \in Alarm \ {a} : On(n)' <=> On(n)
  BY <1>1, <1>2, <1>4, Nodes DEF On
<1>7. OffIsLoop'
  <2>. SUFFICES ASSUME NEW b \in Alarm, next'[b] = b PROVE previous'[b] = b
    BY DEF OffIsLoop
  <2>1. b # a /\ b # Root /\ b \in Node
    BY <1>2, <1>4, Nodes
  <2>2. next[b] = b
    BY <1>4, <2>1
  <2>3. b # h
    BY <1>1, <2>1, <2>2 DEF On
  <2>. QED
    BY <1>5, <2>1, <2>2, <2>3 DEF ListInv, OffIsLoop
<1>8. Linked'
  <2>. SUFFICES ASSUME NEW n \in Node, n = Root \/ On(n)'
                PROVE  /\ next'[n] \in Node /\ previous'[n] \in Node
                       /\ previous'[next'[n]] = n /\ next'[previous'[n]] = n
                       /\ next'[n] = Root \/ On(next[n])'
    BY DEF Linked, On
  <2>1. CASE n = a
    BY <1>1, <1>2, <1>4, <1>5, <1>6, <2>1, Nodes
  <2>2. CASE n = Root
    <3>1. CASE h = Root
      BY <1>1, <1>4, <1>5, <1>6, <2>2, <3>1
    <3>2. CASE h # Root
      <4>1. /\ previous[Root] \in Node /\ next[previous[Root]] = Root
            /\ previous[Root] # Root
        BY <1>1, <1>3, <3>2, NextIs
      <4>2. previous[Root] # a
        BY <4>1, NextIs, <1>1
      <4>3. previous'[Root] = previous[Root]
        BY <1>1, <1>5, <3>2
      <4>4. next'[previous[Root]] = Root
        BY <1>4, <4>1, <4>2
      <4>. QED
        BY <1>1, <1>4, <1>5, <1>6, <2>2, <4>1, <4>3, <4>4
    <3>. QED
      BY <3>1, <3>2
  <2>3. CASE n # a /\ n # Root
    <3>1. On(n) /\ n \in Alarm
      BY <1>6, <2>3, Nodes
    <3>2. /\ next[n] \in Node /\ previous[n] \in Node
          /\ previous[next[n]] = n /\ next[previous[n]] = n
          /\ next[n] = Root \/ On(next[n])
          /\ previous[n] = Root \/ On(previous[n])
      BY <3>1, NextIs
    <3>3. next'[n] = next[n] /\ next[n] # a /\ next[n] # h
      BY <1>1, <1>4, <2>3, <3>2
    <3>4. previous'[next[n]] = n
      BY <1>5, <3>2, <3>3
    <3>5. previous'[n] \in Node /\ next'[previous'[n]] = n
      <4>1. CASE n = h
        BY <1>1, <1>4, <1>5, <4>1
      <4>2. CASE n # h
        <5>1. previous'[n] = previous[n]
          BY <1>5, <2>3, <4>2
        <5>2. previous[n] # Root /\ previous[n] # a
          BY <1>3, <3>2, <4>2
        <5>. QED
          BY <1>4, <3>2, <5>1, <5>2
      <4>. QED
        BY <4>1, <4>2
    <3>6. next'[n] = Root \/ On(next[n])'
      BY <1>6, <3>2, <3>3, Nodes
    <3>. QED
      BY <3>2, <3>3, <3>4, <3>5, <3>6
  <2>. QED
    BY <2>1, <2>2, <2>3
<1>. QED
  BY <1>3, <1>4, <1>5, <1>6, <1>7, <1>8

\* alt_llist_remove (alt_llist.h:102-111), of one that is on, or was.
LEMMA Removing ==
  ASSUME ListInv, NEW a \in Alarm, next[a] # Null, Remove(a)
  PROVE  /\ next' \in [Node -> Node \cup {Null}]
         /\ previous' \in [Node -> Node \cup {Null}]
         /\ next'[a] = a
         /\ \A n \in Node \ {a} : next'[n] = IF n = previous[a] THEN next[a]
                                             ELSE next[n]
         /\ \A n \in Alarm \ {a} : On(n)' => On(n)
         /\ Linked' /\ OffIsLoop'
<1>1. a \in Node /\ a # Root /\ Root \in Node
  BY Nodes
<1>2. /\ next \in [Node -> Node \cup {Null}] /\ previous \in [Node -> Node \cup {Null}]
  BY DEF ListInv, TypeOK
<1>3. CASE On(a)
  <2>0. PICK p \in Node, q \in Node : p = previous[a] /\ q = next[a]
    BY <1>1, <1>3, NextIs
  <2>1. /\ next[p] = a /\ previous[q] = a
        /\ p = Root \/ On(p)
        /\ q = Root \/ On(q)
    BY <1>1, <1>3, <2>0, NextIs
  <2>2. p # a /\ q # a
    BY <1>1, <1>3, <2>0, <2>1 DEF On
  <2>3. /\ next' \in [Node -> Node \cup {Null}] /\ next'[a] = a /\ next'[p] = q
        /\ \A n \in Node \ {a, p} : next'[n] = next[n]
    <3>. DEFINE m == [next EXCEPT ![p] = q]
    <3>1. /\ m \in [Node -> Node \cup {Null}] /\ m[p] = q
          /\ \A n \in Node \ {p} : m[n] = next[n]
      BY <1>2, <2>1
    <3>2. next' = [m EXCEPT ![a] = a]
      BY <2>0 DEF Remove
    <3>. HIDE DEF m
    <3>. QED
      BY <1>1, <2>1, <2>2, <3>1, <3>2
  <2>4. /\ previous' \in [Node -> Node \cup {Null}] /\ previous'[a] = a
        /\ previous'[q] = p
        /\ \A n \in Node \ {a, q} : previous'[n] = previous[n]
    <3>. DEFINE m == [previous EXCEPT ![q] = p]
    <3>1. /\ m \in [Node -> Node \cup {Null}] /\ m[q] = p
          /\ \A n \in Node \ {q} : m[n] = previous[n]
      BY <1>2, <2>1
    <3>2. previous' = [m EXCEPT ![a] = a]
      BY <2>0 DEF Remove
    <3>. HIDE DEF m
    <3>. QED
      BY <1>1, <2>1, <2>2, <3>1, <3>2
  <2>5. \A n \in Node \ {a, p} : On(n)' <=> On(n)
    BY <2>3 DEF On
  <2>6. /\ q \in Alarm /\ q # p => On(q)'
        /\ p \in Alarm /\ q # p => On(p)'
    BY <2>1, <2>2, <2>3, Nodes DEF On
  <2>7. OffIsLoop'
    <3>. SUFFICES ASSUME NEW b \in Alarm, next'[b] = b PROVE previous'[b] = b
      BY DEF OffIsLoop
    <3>1. CASE b = a
      BY <2>4, <3>1
    <3>2. CASE b = p /\ b # a
      BY <2>3, <2>4, <3>2
    <3>3. CASE b # a /\ b # p
      <4>1. next[b] = b /\ b \in Node
        BY <2>3, <3>3, Nodes
      <4>2. previous[b] = b
        BY <4>1 DEF ListInv, OffIsLoop
      <4>3. b # q
        BY <2>1, <3>3, <4>2
      <4>. QED
        BY <2>4, <3>3, <4>1, <4>2, <4>3
    <3>. QED
      BY <3>1, <3>2, <3>3
  <2>8. Linked'
    <3>. SUFFICES ASSUME NEW n \in Node, n = Root \/ On(n)'
                  PROVE  /\ next'[n] \in Node /\ previous'[n] \in Node
                         /\ previous'[next'[n]] = n /\ next'[previous'[n]] = n
                         /\ next'[n] = Root \/ On(next[n])'
      BY DEF Linked, On
    <3>1. n # a
      BY <1>1, <2>3 DEF On
    <3>2. n = Root \/ On(n)
      BY <2>1, <2>5, <3>1
    <3>3. /\ next[n] \in Node /\ previous[n] \in Node
          /\ previous[next[n]] = n /\ next[previous[n]] = n
          /\ next[n] = Root \/ On(next[n])
          /\ previous[n] = Root \/ On(previous[n])
      BY <3>2, NextIs
    <3>4. CASE n = p
      <4>1. next'[n] = q /\ previous'[q] = n
        BY <2>3, <2>4, <3>4
      <4>2. q = Root \/ On(q)'
        BY <1>1, <2>1, <2>3, <2>6, <3>4, Nodes
      <4>3. previous'[n] \in Node /\ next'[previous'[n]] = n
        <5>1. CASE n = q
          BY <2>3, <2>4, <3>4, <5>1
        <5>2. CASE n # q
          <6>1. previous'[n] = previous[n]
            BY <2>4, <3>1, <5>2
          <6>2. previous[n] # a /\ previous[n] # p
            BY <2>0, <2>1, <3>1, <3>3, <3>4, <5>2
          <6>. QED
            BY <2>3, <3>3, <6>1, <6>2
        <5>. QED
          BY <5>1, <5>2
      <4>. QED
        BY <2>1, <4>1, <4>2, <4>3 DEF On
    <3>5. CASE n # p
      <4>1. next'[n] = next[n] /\ next[n] # a /\ next[n] # q
        BY <2>0, <2>1, <2>3, <3>1, <3>3, <3>5
      <4>2. previous'[next[n]] = n
        BY <2>4, <3>3, <4>1
      <4>3. next[n] = Root \/ next'[next[n]] \notin {next[n], Null}
        <5>1. CASE next[n] = p
          BY <2>1, <2>3, <4>1, <5>1, Nodes
        <5>2. CASE next[n] # p
          BY <2>3, <3>3, <4>1, <5>2 DEF On
        <5>. QED
          BY <5>1, <5>2
      <4>4. previous'[n] \in Node /\ next'[previous'[n]] = n
        <5>1. CASE n = q
          BY <2>1, <2>3, <2>4, <5>1
        <5>2. CASE n # q
          <6>1. previous'[n] = previous[n]
            BY <2>4, <3>1, <5>2
          <6>2. previous[n] # a /\ previous[n] # p
            BY <2>0, <2>1, <3>1, <3>3, <5>2
          <6>. QED
            BY <2>3, <3>3, <6>1, <6>2
        <5>. QED
          BY <5>1, <5>2
      <4>. QED
        BY <3>3, <4>1, <4>2, <4>3, <4>4 DEF On
    <3>. QED
      BY <3>4, <3>5
  <2>9. \A n \in Alarm \ {a} : On(n)' => On(n)
    <3>. SUFFICES ASSUME NEW n \in Alarm, n # a, On(n)' PROVE On(n)
      OBVIOUS
    <3>1. CASE n = p
      BY <1>1, <2>1, <3>1, Nodes
    <3>2. CASE n # p
      BY <2>5, <3>2, Nodes
    <3>. QED
      BY <3>1, <3>2
  <2>10. \A n \in Node \ {a} : next'[n] = IF n = p THEN q ELSE next[n]
    BY <2>2, <2>3
  <2>. QED
    BY <2>0, <2>3, <2>4, <2>7, <2>8, <2>9, <2>10
<1>4. CASE ~ On(a)
  <2>1. next[a] = a /\ previous[a] = a
    BY <1>4 DEF On, ListInv, OffIsLoop
  <2>2. next' = next /\ previous' = previous
    BY <1>1, <1>2, <2>1 DEF Remove
  <2>. QED
    BY <1>2, <2>1, <2>2 DEF ListInv, Linked, OffIsLoop, On
<1>. QED
  BY <1>3, <1>4

-----------------------------------------------------------------------------
(* Types and links *)

LEMMA WrapIs == ASSUME NEW n \in 0 .. 2 * Words - 1 PROVE Wrap(n) \in Word
BY AlarmsAssumption DEF Wrap, Word

LEMMA StartTime == ASSUME TypeOK, NEW d \in 0 .. Words - 1
                   PROVE  Wrap(Wrap(d + nticks) + 1) \in Word
<1>1. d + nticks \in 0 .. 2 * Words - 1
  BY AlarmsAssumption DEF TypeOK, Word
<1>2. Wrap(d + nticks) \in Word
  BY <1>1, WrapIs
<1>3. Wrap(d + nticks) + 1 \in 0 .. 2 * Words - 1
  BY <1>2, AlarmsAssumption DEF Word
<1>. QED
  BY <1>3, WrapIs

LEMMA StartTyped ==
  ASSUME ListInv, NEW a \in Alarm, NEW d \in Delays, Start(a, d)
  PROVE  ListInv'
<1>1. /\ ~ On(a) /\ Insert(a) /\ UNCHANGED <<nticks, walk>>
      /\ time' = [time EXCEPT ![a] = Wrap(Wrap(d + nticks) + 1)]
      /\ rollover' = [rollover EXCEPT
                        ![a] = Wrap(Wrap(d + nticks) + 1) < nticks]
  BY DEF Start
<1>2. Wrap(Wrap(d + nticks) + 1) \in Word
  BY StartTime, AlarmsAssumption DEF ListInv
<1>3. (Wrap(Wrap(d + nticks) + 1) < nticks) \in BOOLEAN
  OBVIOUS
<1>4. rollover' \in [Alarm -> BOOLEAN]
  BY <1>1, <1>3 DEF ListInv, TypeOK
<1>5. TypeOK'
  BY <1>1, <1>2, <1>4, Inserting DEF ListInv, TypeOK, walk
<1>. QED
  BY <1>1, <1>5, Inserting DEF ListInv

LEMMA StopTyped ==
  ASSUME ListInv, NEW a \in Alarm, Stop(a)
  PROVE  ListInv'
<1>1. next[a] # Null /\ Remove(a) /\ UNCHANGED <<nticks, alarms, walk>>
  BY DEF Stop
<1>2. TypeOK'
  BY <1>1, Removing DEF ListInv, TypeOK, walk, alarms
<1>. QED
  BY <1>1, <1>2, Removing DEF ListInv

\* The walk is at entries that were in the list at some time.
Known == Visiting => next[at] # Null /\ then \in Node /\ next[then] # Null
LinkInv == ListInv /\ Known

\* Whoever was in the list points to one that was.
LEMMA NextKnown == ASSUME ListInv, NEW n \in Node, next[n] # Null
                   PROVE  next[n] \in Node /\ next[next[n]] # Null
<1>1. next[Root] \in Node /\ next[Root] # Null
  BY Nodes, NextIs
<1>2. CASE n = Root \/ On(n)
  BY <1>1, <1>2, NextIs DEF On
<1>3. CASE ~ (n = Root \/ On(n))
  BY <1>3 DEF On
<1>. QED
  BY <1>2, <1>3

\* Removing one takes no entry out of those that were in the list.
LEMMA RemoveKeeps == ASSUME ListInv, NEW a \in Alarm, next[a] # Null, Remove(a),
                            NEW n \in Node, next[n] # Null
                     PROVE  next'[n] \in Node
<1>1. next[a] \in Node /\ next[n] \in Node
  BY NextKnown, Nodes
<1>2. CASE n = a
  BY <1>2, Removing, Nodes
<1>3. CASE n # a
  BY <1>1, <1>3, Removing
<1>. QED
  BY <1>2, <1>3

\* A turn of the loop, over the links that the call has left.
LEMMA AdvanceTyped ==
  ASSUME LinkInv, Visiting, Advance,
         \A n \in Node : next[n] # Null => next'[n] \in Node
  PROVE  at' \in Node /\ then' \in Node \cup {Null} /\ at' = then
<1>1. then \in Node /\ next'[then] \in Node
  BY DEF LinkInv, Known
<1>. QED
  BY <1>1 DEF Advance

LEMMA AdvanceKnown ==
  ASSUME LinkInv, Visiting, Advance, ListInv',
         \A n \in Node : next[n] # Null => next'[n] \in Node
  PROVE  LinkInv'
<1>. SUFFICES ASSUME Visiting'
              PROVE  next'[at'] # Null /\ then' \in Node /\ next'[then'] # Null
  BY DEF LinkInv, Known
<1>1. then \in Node /\ next'[then] \in Node /\ at' = then
  BY DEF LinkInv, Known, Advance
<1>2. then # Root /\ then' = next'[then]
  BY <1>1, Nodes DEF Visiting, Advance
<1>3. next'[Root] \in Node
  BY Nodes DEF ListInv, Linked
<1>4. next'[then'] # Null
  <2>1. CASE next'[then] \notin {then, Null}
    <3>1. next'[then] = Root \/ next'[next'[then]] # Null
      BY <1>1, <2>1 DEF ListInv, Linked, On
    <3>. QED
      BY <1>2, <1>3, <3>1, Nodes
  <2>2. CASE next'[then] \in {then, Null}
    <3>1. next'[then] = then
      BY <1>1, <2>2, Nodes DEF On
    <3>. QED
      BY <1>1, <1>2, <3>1, Nodes
  <2>. QED
    BY <2>1, <2>2
<1>. QED
  BY <1>1, <1>2, <1>4, Nodes

LEMMA StartKnown ==
  ASSUME LinkInv, NEW a \in Alarm, NEW d \in Delays, Start(a, d)
  PROVE  LinkInv'
<1>1. ListInv'
  BY StartTyped DEF LinkInv
<1>2. \A n \in Node : next[n] # Null => next'[n] # Null
  BY Inserting, NextIs, Nodes DEF LinkInv, Start
<1>. QED
  BY <1>1, <1>2, Nodes DEF LinkInv, Known, Visiting, Start, walk

LEMMA StopKnown ==
  ASSUME LinkInv, NEW a \in Alarm, Stop(a)
  PROVE  LinkInv'
<1>1. ListInv'
  BY StopTyped DEF LinkInv
<1>2. \A n \in Node : next[n] # Null => next'[n] # Null
  BY RemoveKeeps, Nodes DEF LinkInv, Stop
<1>. QED
  BY <1>1, <1>2, Nodes DEF LinkInv, Known, Visiting, Stop, walk

LEMMA InitLink == Init => LinkInv
<1>. SUFFICES ASSUME Init PROVE LinkInv
  OBVIOUS
<1>1. /\ next \in [Node -> Node \cup {Null}] /\ previous = next
      /\ next[Root] = Root /\ \A a \in Alarm : next[a] = Null
  BY Nodes DEF Init
<1>2. TypeOK
  BY <1>1, AlarmsAssumption DEF Init, TypeOK, Word
<1>3. Linked /\ OffIsLoop
  BY <1>1, Nodes DEF Linked, OffIsLoop, On
<1>4. ~ Visiting
  BY Nodes DEF Init, Visiting
<1>. QED
  BY <1>2, <1>3, <1>4 DEF LinkInv, ListInv, Known

LEMMA NextLink == LinkInv /\ [Next]_vars => LinkInv'
<1>. SUFFICES ASSUME LinkInv, [Next]_vars PROVE LinkInv'
  OBVIOUS
<1>. USE DEF LinkInv
<1>1. ASSUME NEW a \in Alarm, NEW d \in Delays, Start(a, d) PROVE LinkInv'
  BY <1>1, StartKnown
<1>2. ASSUME NEW a \in Alarm, Stop(a) PROVE LinkInv'
  BY <1>2, StopKnown
<1>3. ASSUME Tick PROVE LinkInv'
  <2>1. next[Root] \in Node /\ next[Root] # Null
    BY Nodes, NextIs
  <2>2. /\ next[next[Root]] \in Node /\ next[next[Root]] # Null
        /\ next[next[next[Root]]] # Null
    BY <2>1, NextKnown, Nodes
  <2>3. nticks + 1 \in 0 .. 2 * Words - 1
    BY AlarmsAssumption DEF ListInv, TypeOK, Word
  <2>4. ListInv'
    BY <1>3, <2>1, <2>2, <2>3, WrapIs
       DEF Tick, ListInv, TypeOK, Linked, OffIsLoop, On, list, alarms
  <2>5. Known'
    BY <1>3, <2>1, <2>2, Nodes DEF Tick, Known, Visiting, list
  <2>. QED
    BY <2>4, <2>5
<1>4. ASSUME Pass PROVE LinkInv'
  <2>1. Visiting /\ Advance /\ next' = next
    BY <1>4 DEF Pass, list
  <2>2. \A n \in Node : next[n] # Null => next'[n] \in Node
    BY <2>1, NextKnown
  <2>3. Late(at) \in BOOLEAN
    BY <2>1 DEF Late, Visiting, ListInv, TypeOK
  <2>4. rollover' \in [Alarm -> BOOLEAN]
    BY <1>4, <2>3 DEF Pass, ListInv, TypeOK
  <2>5. ListInv'
    BY <1>4, <2>1, <2>2, <2>4, AdvanceTyped
       DEF Pass, ListInv, TypeOK, Linked, OffIsLoop, On, list
  <2>. QED
    BY <2>1, <2>2, <2>5, AdvanceKnown
<1>5. ASSUME NEW p \in Periods \ {0}, CallAgain(p) PROVE LinkInv'
  <2>1. Visiting /\ Advance /\ next' = next
    BY <1>5 DEF CallAgain, list
  <2>2. \A n \in Node : next[n] # Null => next'[n] \in Node
    BY <2>1, NextKnown
  <2>3. time[at] + p \in 0 .. 2 * Words - 1
    BY <2>1, AlarmsAssumption DEF Visiting, ListInv, TypeOK, Word
  <2>4. time' \in [Alarm -> Word]
    BY <1>5, <2>3, WrapIs DEF CallAgain, ListInv, TypeOK
  <2>5. (Wrap(time[at] + p) < nticks) \in BOOLEAN
    OBVIOUS
  <2>6. rollover' \in [Alarm -> BOOLEAN]
    BY <1>5, <2>5 DEF CallAgain, ListInv, TypeOK
  <2>7. ListInv'
    BY <1>5, <2>1, <2>2, <2>4, <2>6, AdvanceTyped
       DEF CallAgain, ListInv, TypeOK, Linked, OffIsLoop, On, list
  <2>. QED
    BY <2>1, <2>2, <2>7, AdvanceKnown
<1>6. ASSUME CallLast PROVE LinkInv'
  <2>1. Visiting /\ Advance /\ Remove(at) /\ at \in Alarm /\ next[at] # Null
    BY <1>6 DEF CallLast, Visiting, Known
  <2>2. \A n \in Node : next[n] # Null => next'[n] \in Node
    BY <2>1, RemoveKeeps
  <2>3. rollover' \in [Alarm -> BOOLEAN]
    BY <1>6 DEF CallLast, ListInv, TypeOK
  <2>4. ListInv'
    BY <1>6, <2>1, <2>2, <2>3, AdvanceTyped, Removing
       DEF CallLast, ListInv, TypeOK
  <2>. QED
    BY <2>1, <2>2, <2>4, AdvanceKnown
<1>7. ASSUME Leave PROVE LinkInv'
  BY <1>7, Nodes DEF Leave, ListInv, TypeOK, Linked, OffIsLoop, On, Known,
                     Visiting, list, alarms
<1>8. ASSUME UNCHANGED vars PROVE LinkInv'
  BY <1>8 DEF vars, list, alarms, walk, ListInv, TypeOK, Linked, OffIsLoop, On,
              Known, Visiting
<1>. QED
  BY <1>1, <1>2, <1>3, <1>4, <1>5, <1>6, <1>7, <1>8
     DEF Next, Program, Visit, CallbackStarts, CallbackStops

\* Whatever alarms are started and stopped, from the program and from
\* callbacks, the list stays closed in both directions (alt_llist.h:82-111).
THEOREM WellTyped == Spec => []TypeOK
<1>1. LinkInv => TypeOK
  BY DEF LinkInv, ListInv
<1>. QED
  BY <1>1, InitLink, NextLink, PTL DEF Spec

THEOREM StaysLinked == Spec => []Linked
<1>1. LinkInv => Linked
  BY DEF LinkInv, ListInv
<1>. QED
  BY <1>1, InitLink, NextLink, PTL DEF Spec

-----------------------------------------------------------------------------
(* The order of the list, and what the walk has still to do *)

RankInv(rank) == Order(rank) /\ Pending(rank)
IInv == /\ LinkInv /\ ReadAhead
        /\ \E rank \in [Alarm -> Int] : RankInv(rank)

LEMMA InsertOrder ==
  ASSUME ListInv, NEW a \in Alarm, ~ On(a), Insert(a),
         NEW rank \in [Alarm -> Int], Order(rank)
  PROVE  \E r \in [Alarm -> Int] :
           Order(r)' /\ \A b \in Alarm \ {a} : r[b] = rank[b]
<1>. DEFINE top == IF next[Root] = Root THEN 0 ELSE rank[next[Root]] + 1
<1>1. next[Root] = Root \/ (next[Root] \in Alarm /\ On(next[Root]))
  BY Nodes, NextIs
<1>2. PICK t \in Int : t = top
  BY <1>1
<1>3. \A b \in Alarm : On(b) => rank[b] < t
  BY <1>1, <1>2 DEF Order
<1>. HIDE DEF top
<1>4. PICK r \in [Alarm -> Int] : r = [rank EXCEPT ![a] = t]
  BY <1>2
<1>5. r[a] = t /\ \A b \in Alarm \ {a} : r[b] = rank[b]
  BY <1>4
<1>6. /\ next'[a] = next[Root] /\ next'[Root] = a
      /\ \A n \in Alarm \ {a} : next'[n] = next[n] /\ (On(n)' <=> On(n))
      /\ On(a)'
  BY Inserting, Nodes
<1>7. \A n \in Alarm \ {a} : On(n) => next[n] \in Node /\ next[n] # a
                                      /\ (next[n] # Root => next[n] \in Alarm)
  BY NextIs, Nodes
<1>8. /\ \A x, y \in Alarm : On(x) /\ On(y) /\ x # y => rank[x] # rank[y]
      /\ \A x \in Alarm : On(x) /\ next[x] # Root => rank[next[x]] < rank[x]
      /\ \A x, y \in Alarm : On(x) /\ On(y) /\ rank[y] < rank[x] =>
                             next[x] # Root /\ rank[y] <= rank[next[x]]
      /\ \A y \in Alarm : On(y) => next[Root] # Root /\ rank[y] <= rank[next[Root]]
  BY DEF Order
<1>9. a # Root
  BY Nodes
<1>10. \A x, y \in Alarm : On(x)' /\ On(y)' /\ x # y => r[x] # r[y]
  <2>. SUFFICES ASSUME NEW x \in Alarm, NEW y \in Alarm, On(x)', On(y)', x # y
                PROVE  r[x] # r[y]
    OBVIOUS
  <2>1. CASE x = a
    BY <1>3, <1>5, <1>6, <2>1
  <2>2. CASE y = a
    BY <1>3, <1>5, <1>6, <2>2
  <2>3. CASE x # a /\ y # a
    BY <1>5, <1>6, <1>8, <2>3
  <2>. QED
    BY <2>1, <2>2, <2>3
<1>11. \A x \in Alarm : On(x)' /\ next'[x] # Root => r[next'[x]] < r[x]
  <2>. SUFFICES ASSUME NEW x \in Alarm, On(x)', next'[x] # Root
                PROVE  r[next'[x]] < r[x]
    OBVIOUS
  <2>1. CASE x = a
    <3>1. next[Root] \in Alarm /\ next[Root] # a /\ next'[x] = next[Root]
      BY <1>1, <1>6, <2>1
    <3>. QED
      BY <1>1, <1>3, <1>5, <2>1, <3>1
  <2>2. CASE x # a
    BY <1>5, <1>6, <1>7, <1>8, <2>2
  <2>. QED
    BY <2>1, <2>2
<1>12. \A x, y \in Alarm : On(x)' /\ On(y)' /\ r[y] < r[x] =>
                           next'[x] # Root /\ r[y] <= r[next'[x]]
  <2>. SUFFICES ASSUME NEW x \in Alarm, NEW y \in Alarm, On(x)', On(y)', r[y] < r[x]
                PROVE  next'[x] # Root /\ r[y] <= r[next'[x]]
    OBVIOUS
  <2>1. y # a
    <3>1. CASE x = a
      BY <3>1
    <3>2. CASE x # a
      BY <1>3, <1>5, <1>6, <3>2
    <3>. QED
      BY <3>1, <3>2
  <2>2. CASE x = a
    <3>1. next[Root] # Root /\ rank[y] <= rank[next[Root]]
      BY <1>6, <1>8, <2>1
    <3>2. next[Root] \in Alarm /\ next[Root] # a
      BY <1>1, <3>1
    <3>. QED
      BY <1>5, <1>6, <2>1, <2>2, <3>1, <3>2
  <2>3. CASE x # a
    <3>1. next[x] # Root /\ rank[y] <= rank[next[x]]
      BY <1>5, <1>6, <1>8, <2>1, <2>3
    <3>. QED
      BY <1>5, <1>6, <1>7, <2>1, <2>3, <3>1
  <2>. QED
    BY <2>2, <2>3
<1>13. \A y \in Alarm : On(y)' => next'[Root] # Root /\ r[y] <= r[next'[Root]]
  <2>. SUFFICES ASSUME NEW y \in Alarm, On(y)' PROVE r[y] <= r[a]
    BY <1>6, <1>9
  <2>1. CASE y = a
    BY <2>1
  <2>2. CASE y # a
    BY <1>3, <1>5, <1>6, <2>2
  <2>. QED
    BY <2>1, <2>2
<1>14. Order(r)'
  BY <1>10, <1>11, <1>12, <1>13 DEF Order
<1>. QED
  BY <1>5, <1>14

LEMMA RemoveOrder ==
  ASSUME ListInv, NEW a \in Alarm, next[a] # Null, Remove(a),
         NEW rank \in [Alarm -> Int], Order(rank)
  PROVE  Order(rank)'
<1>1. /\ \A x, y \in Alarm : On(x) /\ On(y) /\ x # y => rank[x] # rank[y]
      /\ \A x \in Alarm : On(x) /\ next[x] # Root => rank[next[x]] < rank[x]
      /\ \A x, y \in Alarm : On(x) /\ On(y) /\ rank[y] < rank[x] =>
                             next[x] # Root /\ rank[y] <= rank[next[x]]
      /\ \A y \in Alarm : On(y) => next[Root] # Root /\ rank[y] <= rank[next[Root]]
  BY DEF Order
\* Who is on now was on, and points where it did or, if that was the entry
\* removed, where that did.
<1>2. \A x \in Alarm : On(x)' => x # a /\ On(x)
  BY Removing, Nodes DEF On
<1>3. ASSUME NEW n \in Node, n # a
      PROVE  next'[n] = next[n] \/ (next[n] = a /\ On(a) /\ next'[n] = next[a])
  <2>1. CASE n = previous[a]
    <3>1. On(a)
      BY <1>3, <2>1 DEF On, ListInv, OffIsLoop
    <3>. QED
      BY <1>3, <2>1, <3>1, Removing, NextIs, Nodes
  <2>2. CASE n # previous[a]
    BY <1>3, <2>2, Removing
  <2>. QED
    BY <2>1, <2>2
<1>4. \A x \in Alarm : On(x) => next[x] = Root \/ (next[x] \in Alarm /\ On(next[x]))
  BY NextIs, Nodes
<1>5. \A x, y \in Alarm : On(x)' /\ On(y)' /\ x # y => rank[x] # rank[y]
  BY <1>1, <1>2
<1>6. \A x \in Alarm : On(x)' /\ next'[x] # Root => rank[next'[x]] < rank[x]
  <2>. SUFFICES ASSUME NEW x \in Alarm, On(x)', next'[x] # Root
                PROVE  rank[next'[x]] < rank[x]
    OBVIOUS
  <2>1. x # a /\ On(x) /\ x \in Node
    BY <1>2, Nodes
  <2>2. CASE next'[x] = next[x]
    BY <1>1, <2>1, <2>2
  <2>3. CASE next[x] = a /\ On(a) /\ next'[x] = next[a]
    <3>1. rank[a] < rank[x] /\ rank[next[a]] < rank[a] /\ next[a] \in Alarm
      BY <1>1, <1>4, <2>1, <2>3, Nodes
    <3>. QED
      BY <2>3, <3>1
  <2>. QED
    BY <1>3, <2>1, <2>2, <2>3
<1>7. \A x, y \in Alarm : On(x)' /\ On(y)' /\ rank[y] < rank[x] =>
                          next'[x] # Root /\ rank[y] <= rank[next'[x]]
  <2>. SUFFICES ASSUME NEW x \in Alarm, NEW y \in Alarm, On(x)', On(y)',
                       rank[y] < rank[x]
                PROVE  next'[x] # Root /\ rank[y] <= rank[next'[x]]
    OBVIOUS
  <2>1. x # a /\ On(x) /\ x \in Node /\ y # a /\ On(y)
    BY <1>2, Nodes
  <2>2. CASE next'[x] = next[x]
    BY <1>1, <2>1, <2>2
  <2>3. CASE next[x] = a /\ On(a) /\ next'[x] = next[a]
    <3>1. rank[y] <= rank[a] /\ rank[y] # rank[a]
      BY <1>1, <2>1, <2>3
    <3>. QED
      BY <1>1, <2>1, <2>3, <3>1
  <2>. QED
    BY <1>3, <2>1, <2>2, <2>3
<1>8. \A y \in Alarm : On(y)' => next'[Root] # Root /\ rank[y] <= rank[next'[Root]]
  <2>. SUFFICES ASSUME NEW y \in Alarm, On(y)'
                PROVE  next'[Root] # Root /\ rank[y] <= rank[next'[Root]]
    OBVIOUS
  <2>1. y # a /\ On(y)
    BY <1>2
  <2>2. CASE next'[Root] = next[Root]
    BY <1>1, <2>1, <2>2
  <2>3. CASE next[Root] = a /\ On(a) /\ next'[Root] = next[a]
    <3>1. rank[y] <= rank[a] /\ rank[y] # rank[a]
      BY <1>1, <2>1, <2>3
    <3>. QED
      BY <1>1, <2>1, <2>3, <3>1
  <2>. QED
    BY <1>3, <2>2, <2>3, Nodes
<1>. QED
  BY <1>5, <1>6, <1>7, <1>8 DEF Order

-----------------------------------------------------------------------------
(* What the steps are to the clock *)

Running == {b \in Alarm : On(b)}

LEMMA ClockStarts ==
  ASSUME NEW a \in Alarm, a \notin Running, NEW n \in 1 .. Words - 1,
         Running' = Running \cup {a}, Remaining(a)' = n,
         \A b \in Running : Remaining(b)' = Remaining(b)
  PROVE  Clock!Next
<1>1. ~ Clock!On(a)
  BY DEF Clock!On, Running
<1>2. [b \in Running' |-> Remaining(b)']
      = [b \in Running \cup {a} |-> IF b = a THEN n ELSE Remaining(b)]
  OBVIOUS
<1>3. [b \in Running |-> Remaining(b)]' = Clock!With(a, n)
  BY <1>2 DEF Clock!With, Running
<1>4. Clock!Start(a)
  BY <1>1, <1>3 DEF Clock!Start, Running
<1>. QED
  BY <1>4 DEF Clock!Next

LEMMA ClockStops ==
  ASSUME NEW a \in Alarm, Running' = Running \ {a},
         \A b \in Running \ {a} : Remaining(b)' = Remaining(b)
  PROVE  Clock!Next
<1>1. [b \in Running' |-> Remaining(b)'] = [b \in Running \ {a} |-> Remaining(b)]
  OBVIOUS
<1>2. [b \in Running |-> Remaining(b)]' = Clock!Without(a)
  BY <1>1 DEF Clock!Without, Running
<1>3. Clock!Stop(a)
  BY <1>2 DEF Clock!Stop, Running
<1>. QED
  BY <1>3 DEF Clock!Next

LEMMA ClockCalls ==
  ASSUME NEW a \in Alarm, a \in Running, Remaining(a) = 0,
         NEW n \in 1 .. Words - 1, Running' = Running, Remaining(a)' = n,
         \A b \in Running \ {a} : Remaining(b)' = Remaining(b)
  PROVE  Clock!Next
<1>1. Clock!On(a)
  BY DEF Clock!On, Running
<1>2. [b \in Running |-> Remaining(b)][a] = 0
  OBVIOUS
<1>3. [b \in Running' |-> Remaining(b)']
      = [b \in Running \cup {a} |-> IF b = a THEN n ELSE Remaining(b)]
  OBVIOUS
<1>4. [b \in Running |-> Remaining(b)]' = Clock!With(a, n)
  BY <1>3 DEF Clock!With, Running
<1>5. Clock!Call(a)
  BY <1>1, <1>2, <1>4 DEF Clock!Call, Running
<1>. QED
  BY <1>5 DEF Clock!Next

LEMMA ClockTicks ==
  ASSUME Running' = Running,
         \A b \in Running : Remaining(b) > 0 /\ Remaining(b)' = Remaining(b) - 1
  PROVE  Clock!Next
<1>1. [b \in Running' |-> Remaining(b)'] = [b \in Running |-> Remaining(b) - 1]
  OBVIOUS
<1>2. Clock!Tick
  BY <1>1 DEF Clock!Tick, Running
<1>. QED
  BY <1>2 DEF Clock!Next

LEMMA ClockStands ==
  ASSUME Running' = Running, \A b \in Running : Remaining(b)' = Remaining(b)
  PROVE  UNCHANGED [b \in Running |-> Remaining(b)]
OBVIOUS

-----------------------------------------------------------------------------
(* Each step keeps the invariant, and is one of the clock or none to it *)

Left == [b \in Running |-> Remaining(b)]
Kept == ReadAhead' /\ \E rank \in [Alarm -> Int] : RankInv(rank)'
Counts == Clock!Next \/ UNCHANGED Left

LEMMA RemainingInt == ASSUME TypeOK, NEW a \in Alarm
                      PROVE  /\ Remaining(a) \in Int
                             /\ time[a] \in Word /\ rollover[a] \in BOOLEAN
                             /\ nticks \in Word /\ Words \in Nat /\ Words > 1
BY AlarmsAssumption DEF TypeOK, Remaining, Word

\* The time of an alarm that is started, and what it has left.
LEMMA StartsWith ==
  ASSUME TypeOK, NEW a \in Alarm, NEW d \in Delays, d <= Words - 2, Start(a, d)
  PROVE  /\ d + 1 \in 1 .. Words - 1
         /\ Remaining(a)' = d + 1 /\ ~ (rollover'[a] /\ nticks' = 0)
         /\ nticks' = nticks /\ at' = at /\ then' = then
         /\ \A b \in Alarm \ {a} : /\ Remaining(b)' = Remaining(b)
                                   /\ rollover'[b] = rollover[b]
<1>. DEFINE t == Wrap(Wrap(d + nticks) + 1)
            late == t < nticks
<1>1. /\ nticks' = nticks /\ at' = at /\ then' = then
      /\ time' = [time EXCEPT ![a] = t]
      /\ rollover' = [rollover EXCEPT ![a] = late]
  BY DEF Start, walk
<1>2. d \in 0 .. Words - 2 /\ nticks \in 0 .. Words - 1 /\ Words \in Nat
  BY AlarmsAssumption DEF TypeOK, Word
<1>3. t = IF d + nticks + 1 >= Words THEN d + nticks + 1 - Words
          ELSE d + nticks + 1
  BY <1>2 DEF Wrap
<1>4. late = TRUE \/ late = FALSE
  OBVIOUS
<1>5. late <=> d + nticks + 1 >= Words
  BY <1>2, <1>3
<1>. HIDE DEF t, late
<1>6. /\ time'[a] = t /\ (rollover'[a] <=> late)
      /\ \A b \in Alarm \ {a} : time'[b] = time[b] /\ rollover'[b] = rollover[b]
  BY <1>1 DEF TypeOK
<1>7. Remaining(a)' = d + 1 /\ ~ (rollover'[a] /\ nticks' = 0)
  <2>1. CASE late
    BY <1>1, <1>2, <1>3, <1>5, <1>6, <2>1 DEF Remaining, Late
  <2>2. CASE ~ late
    BY <1>1, <1>2, <1>3, <1>5, <1>6, <2>2 DEF Remaining, Late
  <2>. QED
    BY <2>1, <2>2
<1>8. \A b \in Alarm \ {a} : Remaining(b)' = Remaining(b)
  BY <1>1, <1>6 DEF Remaining, Late
<1>. QED
  BY <1>1, <1>2, <1>6, <1>7, <1>8

LEMMA StartStep ==
  ASSUME IInv, NEW a \in Alarm, NEW d \in Delays, d <= Words - 2, Start(a, d)
  PROVE  Kept /\ Counts
<1>. USE DEF IInv, LinkInv
<1>1. TypeOK /\ ListInv /\ ~ On(a) /\ Insert(a)
  BY DEF ListInv, Start
<1>2. /\ \A n \in Alarm \ {a} : next'[n] = next[n] /\ (On(n)' <=> On(n))
      /\ On(a)'
  BY <1>1, Inserting, Nodes
<1>3. ReadAhead'
  BY <1>1, <1>2, StartsWith DEF ReadAhead, Visiting, On
<1>4. PICK rank \in [Alarm -> Int] : Order(rank) /\ Pending(rank)
  BY DEF RankInv
<1>5. PICK r \in [Alarm -> Int] :
        Order(r)' /\ \A b \in Alarm \ {a} : r[b] = rank[b]
  BY <1>1, <1>4, InsertOrder
<1>6. Pending(r)'
  <2>. SUFFICES ASSUME NEW b \in Alarm, On(b)'
                PROVE  /\ Remaining(b)' >= 0
                       /\ Remaining(b)' = 0 \/ (rollover'[b] /\ nticks' = 0)
                            => at' \in Alarm /\ r[b] <= r[at']
    BY DEF Pending, Visiting
  <2>1. CASE b = a
    BY <1>1, <2>1, StartsWith
  <2>2. CASE b # a
    <3>1. /\ Remaining(b) >= 0
          /\ Remaining(b) = 0 \/ (rollover[b] /\ nticks = 0)
               => at \in Alarm /\ On(at) /\ rank[b] <= rank[at]
      BY <1>2, <1>4, <2>2 DEF Pending, Visiting, ReadAhead
    <3>. QED
      BY <1>1, <1>5, <2>2, <3>1, StartsWith
  <2>. QED
    BY <2>1, <2>2
<1>7. Running' = Running \cup {a} /\ a \notin Running
  BY <1>1, <1>2 DEF Running
<1>8. \A b \in Running : b \in Alarm \ {a}
  BY <1>7 DEF Running
<1>9. Clock!Next
  BY <1>1, <1>7, <1>8, StartsWith, ClockStarts
<1>. QED
  BY <1>3, <1>5, <1>6, <1>9 DEF Kept, Counts, RankInv

\* Whom a removal leaves in the list, and what they point to.
LEMMA RemoveLeaves ==
  ASSUME ListInv, NEW a \in Alarm, next[a] # Null, Remove(a),
         NEW rank \in [Alarm -> Int], Order(rank)
  PROVE  /\ \A b \in Alarm : On(b)' <=> b # a /\ On(b)
         /\ \A b \in Alarm \ {a} : On(b) /\ next[b] # a => next'[b] = next[b]
<1>1. ASSUME NEW b \in Alarm, b # a
      PROVE  \/ next'[b] = next[b]
             \/ On(a) /\ next[b] = a /\ next'[b] = next[a]
  <2>1. CASE b = previous[a]
    <3>1. On(a)
      BY <1>1, <2>1 DEF On, ListInv, OffIsLoop
    <3>. QED
      BY <1>1, <2>1, <3>1, Removing, NextIs, Nodes
  <2>2. CASE b # previous[a]
    BY <1>1, <2>2, Removing, Nodes
  <2>. QED
    BY <2>1, <2>2
<1>2. ASSUME NEW b \in Alarm, b # a, On(b) PROVE On(b)'
  <2>1. CASE next'[b] = next[b]
    BY <1>2, <2>1 DEF On
  <2>2. CASE On(a) /\ next[b] = a /\ next'[b] = next[a]
    <3>1. rank[a] < rank[b]
      BY <1>2, <2>2, Nodes DEF Order
    <3>2. next[a] # b
      <4>1. CASE next[a] = b
        <5>1. rank[b] < rank[a]
          BY <2>2, <4>1, Nodes DEF Order
        <5>. QED
          BY <3>1, <5>1
      <4>. QED
        BY <4>1
    <3>3. next[a] \in Node
      BY <2>2, NextIs, Nodes
    <3>. QED
      BY <2>2, <3>2, <3>3, Nodes DEF On
  <2>. QED
    BY <1>1, <1>2, <2>1, <2>2
<1>. QED
  BY <1>1, <1>2, Removing, Nodes DEF On

LEMMA StopStep ==
  ASSUME IInv, NEW a \in Alarm, Stop(a), ~ Visiting \/ a \notin {at, then}
  PROVE  Kept /\ Counts
<1>. USE DEF IInv, LinkInv
<1>1. /\ ListInv /\ next[a] # Null /\ Remove(a)
      /\ nticks' = nticks /\ time' = time /\ rollover' = rollover
      /\ at' = at /\ then' = then
  BY DEF Stop, alarms, walk
<1>2. \A b \in Alarm : Remaining(b)' = Remaining(b)
  BY <1>1 DEF Remaining, Late
<1>3. PICK rank \in [Alarm -> Int] : Order(rank) /\ Pending(rank)
  BY DEF RankInv
<1>4. /\ \A b \in Alarm : On(b)' <=> b # a /\ On(b)
      /\ \A b \in Alarm \ {a} : On(b) /\ next[b] # a => next'[b] = next[b]
  BY <1>1, <1>3, RemoveLeaves
<1>5. ReadAhead'
  BY <1>1, <1>4 DEF ReadAhead, Visiting, On
<1>6. Order(rank)'
  BY <1>1, <1>3, RemoveOrder
<1>7. Pending(rank)'
  BY <1>1, <1>2, <1>3, <1>4 DEF Pending, Visiting
<1>8. Running' = Running \ {a}
  BY <1>4 DEF Running
<1>9. Clock!Next
  BY <1>2, <1>8, ClockStops DEF Running
<1>. QED
  BY <1>5, <1>6, <1>7, <1>9 DEF Kept, Counts, RankInv

LEMMA TickStep == ASSUME IInv, Tick PROVE Kept /\ Counts
<1>. USE DEF IInv, LinkInv
<1>1. /\ ListInv /\ TypeOK /\ ~ Visiting
      /\ nticks' = Wrap(nticks + 1) /\ next' = next
      /\ time' = time /\ rollover' = rollover
      /\ at' = next[Root]
      /\ then' = IF next[Root] = Root THEN Null ELSE next[next[Root]]
  BY Nodes DEF ListInv, Tick, Visiting, list, alarms
<1>2. PICK rank \in [Alarm -> Int] : Order(rank) /\ Pending(rank)
  BY DEF RankInv
<1>3. ReadAhead'
  BY <1>1, NextIs, Nodes DEF ReadAhead, Visiting, On
<1>4. Order(rank)'
  BY <1>1, <1>2 DEF Order, On
<1>5. nticks' = IF nticks = Words - 1 THEN 0 ELSE nticks + 1
  BY <1>1, AlarmsAssumption DEF Wrap, TypeOK, Word
<1>6. ASSUME NEW b \in Alarm, On(b)
      PROVE  Remaining(b) > 0 /\ Remaining(b)' = Remaining(b) - 1
  <2>1. Remaining(b) >= 0 /\ Remaining(b) # 0 /\ ~ (rollover[b] /\ nticks = 0)
    BY <1>1, <1>2, <1>6 DEF Pending
  <2>2. /\ time[b] \in 0 .. Words - 1 /\ nticks \in 0 .. Words - 1
        /\ rollover[b] \in BOOLEAN /\ Words \in Nat /\ Words > 1
    BY <1>1, AlarmsAssumption DEF TypeOK, Word
  <2>3. CASE rollover[b]
    BY <1>1, <1>5, <2>1, <2>2, <2>3 DEF Remaining, Late
  <2>4. CASE ~ rollover[b]
    BY <1>1, <1>5, <2>1, <2>2, <2>4 DEF Remaining, Late
  <2>. QED
    BY <2>2, <2>3, <2>4
<1>7. Pending(rank)'
  <2>. SUFFICES ASSUME NEW b \in Alarm, On(b)
                PROVE  Remaining(b)' >= 0 /\ Visiting' /\ rank[b] <= rank[at']
    BY <1>1 DEF Pending, On
  <2>1. next[Root] # Root /\ rank[b] <= rank[next[Root]]
    BY <1>2 DEF Order
  <2>2. next[Root] \in Alarm
    BY <1>1, <2>1, NextIs, Nodes
  <2>3. Remaining(b) \in Int
    BY <1>1, RemainingInt
  <2>. QED
    BY <1>1, <1>6, <2>1, <2>2, <2>3 DEF Visiting
<1>8. Running' = Running
  BY <1>1 DEF Running, On
<1>9. Clock!Next
  BY <1>6, <1>8, ClockTicks DEF Running
<1>. QED
  BY <1>3, <1>4, <1>7, <1>9 DEF Kept, Counts, RankInv

\* After the turn of the loop at alarm x, with what is then due ahead of it.
LEMMA TurnKeeps ==
  ASSUME IInv, Visiting, NEW x \in Alarm, x = at, Advance, nticks' = nticks,
         NEW rank \in [Alarm -> Int], Order(rank), Pending(rank), Order(rank)',
         \A b \in Alarm \ {x} : /\ (On(b)' <=> On(b))
                                /\ Remaining(b)' = Remaining(b)
                                /\ rollover'[b] = rollover[b]
                                /\ On(b) /\ next[b] # x => next'[b] = next[b],
         On(x)' => Remaining(x)' \in Nat \ {0} /\ ~ (rollover'[x] /\ nticks = 0),
         next'[Root] \in Node, \A b \in Alarm : On(b)' => next'[b] \in Node
  PROVE  Kept
<1>. USE DEF IInv, LinkInv
<1>1. On(x) /\ then = next[x] /\ at' = then /\ ListInv /\ TypeOK
  BY DEF ReadAhead, Advance, ListInv
<1>2. then = Root \/ (then \in Alarm /\ On(then) /\ then # x)
  BY <1>1, NextIs, Nodes DEF On
<1>3. then \in Alarm => rank[then] < rank[x] /\ next[then] # x
  <2>. SUFFICES ASSUME then \in Alarm PROVE rank[then] < rank[x] /\ next[then] # x
    OBVIOUS
  <2>1. rank[then] < rank[x]
    BY <1>1, Nodes DEF Order
  <2>2. next[then] # x
    <3>1. CASE next[then] = x
      <4>1. rank[x] < rank[then]
        BY <1>2, <3>1, Nodes DEF Order
      <4>. QED
        BY <2>1, <4>1
    <3>. QED
      BY <3>1
  <2>. QED
    BY <2>1, <2>2
<1>4. ReadAhead'
  <2>. SUFFICES ASSUME then \in Alarm
                PROVE  next'[then] \notin {then, Null} /\ then' = next'[then]
    BY <1>1 DEF ReadAhead, Visiting, On
  <2>1. next'[then] = next[then]
    BY <1>2, <1>3, Nodes
  <2>. QED
    BY <1>2, <2>1, Nodes DEF Advance, On
<1>5. Pending(rank)'
  <2>. SUFFICES ASSUME NEW b \in Alarm, On(b)'
                PROVE  /\ Remaining(b)' >= 0
                       /\ Remaining(b)' = 0 \/ (rollover'[b] /\ nticks' = 0)
                            => then \in Alarm /\ rank[b] <= rank[then]
    BY <1>1 DEF Pending, Visiting
  <2>1. CASE b = x
    BY <2>1
  <2>2. CASE b # x
    <3>1. On(b) /\ Remaining(b)' = Remaining(b) /\ rollover'[b] = rollover[b]
      BY <2>2
    <3>2. /\ Remaining(b) >= 0
          /\ Remaining(b) = 0 \/ (rollover[b] /\ nticks = 0) => rank[b] <= rank[x]
      BY <3>1 DEF Pending
    <3>3. rank[b] <= rank[x] => then \in Alarm /\ rank[b] <= rank[then]
      <4>. SUFFICES ASSUME rank[b] <= rank[x]
                    PROVE  then \in Alarm /\ rank[b] <= rank[then]
        OBVIOUS
      <4>1. rank[b] # rank[x]
        BY <1>1, <2>2, <3>1 DEF Order
      <4>2. rank[b] < rank[x]
        BY <4>1
      <4>3. next[x] # Root /\ rank[b] <= rank[next[x]]
        BY <1>1, <3>1, <4>2 DEF Order
      <4>. QED
        BY <1>1, <1>2, <4>3
    <3>. QED
      BY <3>1, <3>2, <3>3
  <2>. QED
    BY <2>1, <2>2
<1>. QED
  BY <1>4, <1>5 DEF Kept, RankInv

LEMMA PassStep == ASSUME IInv, Pass PROVE Kept /\ Counts
<1>. USE DEF IInv, LinkInv
<1>1. PICK x \in Alarm : x = at
  BY DEF Pass, Visiting
<1>. DEFINE late == Late(x)
<1>2. /\ ~ Expired(x) /\ nticks' = nticks /\ next' = next /\ time' = time
      /\ rollover' = [rollover EXCEPT ![x] = late]
      /\ Visiting /\ Advance /\ ListInv /\ TypeOK
  BY <1>1 DEF Pass, list, ListInv
<1>3. PICK rank \in [Alarm -> Int] : Order(rank) /\ Pending(rank)
  BY DEF RankInv
<1>4. late <=> rollover[x] /\ nticks # 0
  BY DEF Late
<1>. HIDE DEF late
<1>5. /\ \A b \in Alarm \ {x} : rollover'[b] = rollover[b]
      /\ rollover'[x] <=> late
  BY <1>2 DEF TypeOK
<1>6. \A b \in Alarm : Remaining(b)' = Remaining(b)
  <2>1. \A b \in Alarm \ {x} : Remaining(b)' = Remaining(b)
    BY <1>2, <1>5 DEF Remaining, Late
  <2>2. Remaining(x)' = Remaining(x)
    BY <1>2, <1>4, <1>5 DEF Remaining, Late
  <2>. QED
    BY <2>1, <2>2
<1>7. Remaining(x) \in Nat \ {0} /\ ~ (rollover'[x] /\ nticks = 0)
  <2>1. /\ time[x] \in 0 .. Words - 1 /\ nticks \in 0 .. Words - 1 /\ Words \in Nat
    BY <1>2, AlarmsAssumption DEF TypeOK, Word
  <2>2. CASE late
    BY <1>4, <2>1, <2>2 DEF Remaining, Late
  <2>3. CASE ~ late
    BY <1>2, <1>4, <1>5, <2>1, <2>3 DEF Remaining, Late, Expired
  <2>. QED
    BY <1>4, <1>5, <2>2, <2>3
<1>8. Order(rank)' /\ \A b \in Alarm : On(b)' <=> On(b)
  BY <1>2, <1>3 DEF Order, On
<1>9. next'[Root] \in Node /\ \A b \in Alarm : On(b)' => next'[b] \in Node
  BY <1>2, <1>8, NextIs, Nodes
<1>10. Kept
  BY <1>1, <1>2, <1>3, <1>5, <1>6, <1>7, <1>8, <1>9, TurnKeeps
<1>11. Running' = Running
  BY <1>8 DEF Running
<1>12. UNCHANGED Left
  BY <1>6, <1>11, ClockStands DEF Left, Running
<1>. QED
  BY <1>10, <1>12 DEF Counts

LEMMA CallAgainStep ==
  ASSUME IInv, NEW p \in Periods \ {0}, CallAgain(p) PROVE Kept /\ Counts
<1>. USE DEF IInv, LinkInv
<1>1. PICK x \in Alarm : x = at
  BY DEF CallAgain, Visiting
<1>. DEFINE t == Wrap(time[x] + p)
            late == t < nticks
<1>2. /\ Expired(x) /\ nticks' = nticks /\ next' = next
      /\ time' = [time EXCEPT ![x] = t]
      /\ rollover' = [rollover EXCEPT ![x] = late]
      /\ Visiting /\ Advance /\ ListInv /\ TypeOK /\ On(x)
  BY <1>1 DEF CallAgain, list, ListInv, ReadAhead
<1>3. PICK rank \in [Alarm -> Int] : Order(rank) /\ Pending(rank)
  BY DEF RankInv
<1>4. /\ time[x] \in 0 .. Words - 1 /\ nticks \in 0 .. Words - 1
      /\ p \in 1 .. Words - 1 /\ Words \in Nat
  BY <1>2, AlarmsAssumption DEF TypeOK, Word
<1>5. Remaining(x) = 0 /\ time[x] = nticks
  <2>1. Remaining(x) >= 0
    BY <1>2, <1>3 DEF Pending
  <2>. QED
    BY <1>2, <1>4, <2>1 DEF Remaining, Expired
<1>6. t = IF nticks + p >= Words THEN nticks + p - Words ELSE nticks + p
  BY <1>4, <1>5 DEF Wrap
<1>7. (late = TRUE \/ late = FALSE) /\ (late <=> nticks + p >= Words)
  BY <1>4, <1>6
<1>. HIDE DEF t, late
<1>8. /\ \A b \in Alarm \ {x} : rollover'[b] = rollover[b] /\ time'[b] = time[b]
      /\ (rollover'[x] <=> late) /\ time'[x] = t
  BY <1>2 DEF TypeOK
<1>9. \A b \in Alarm \ {x} : Remaining(b)' = Remaining(b)
  BY <1>2, <1>8 DEF Remaining, Late
<1>10. Remaining(x)' = p /\ ~ (rollover'[x] /\ nticks = 0)
  <2>1. CASE late
    BY <1>2, <1>4, <1>6, <1>7, <1>8, <2>1 DEF Remaining, Late
  <2>2. CASE ~ late
    BY <1>2, <1>4, <1>6, <1>7, <1>8, <2>2 DEF Remaining, Late
  <2>. QED
    BY <2>1, <2>2
<1>11. Order(rank)' /\ \A b \in Alarm : On(b)' <=> On(b)
  BY <1>2, <1>3 DEF Order, On
<1>12. next'[Root] \in Node /\ \A b \in Alarm : On(b)' => next'[b] \in Node
  BY <1>2, <1>11, NextIs, Nodes
<1>13. p \in Nat \ {0}
  BY <1>4
<1>14. Kept
  BY <1>1, <1>2, <1>3, <1>8, <1>9, <1>10, <1>11, <1>12, <1>13, TurnKeeps
<1>15. Running' = Running /\ x \in Running
  BY <1>2, <1>11 DEF Running
<1>16. \A b \in Running \ {x} : Remaining(b)' = Remaining(b)
  BY <1>9 DEF Running
<1>17. Clock!Next
  BY <1>4, <1>5, <1>10, <1>15, <1>16, ClockCalls
<1>. QED
  BY <1>14, <1>17 DEF Counts

LEMMA CallLastStep == ASSUME IInv, CallLast, LinkInv' PROVE Kept /\ Counts
<1>. USE DEF IInv, LinkInv
<1>1. PICK x \in Alarm : x = at
  BY DEF CallLast, Visiting
<1>2. /\ nticks' = nticks /\ time' = time /\ Remove(x) /\ next[x] # Null
      /\ rollover' = [rollover EXCEPT ![x] = FALSE]
      /\ Visiting /\ Advance /\ ListInv /\ TypeOK /\ On(x)
  BY <1>1 DEF CallLast, ListInv, ReadAhead, On
<1>3. PICK rank \in [Alarm -> Int] : Order(rank) /\ Pending(rank)
  BY DEF RankInv
<1>4. \A b \in Alarm \ {x} : rollover'[b] = rollover[b]
  BY <1>2 DEF TypeOK
<1>5. \A b \in Alarm \ {x} : Remaining(b)' = Remaining(b)
  BY <1>2, <1>4 DEF Remaining, Late
<1>6. Order(rank)'
  BY <1>2, <1>3, RemoveOrder
<1>7. /\ \A b \in Alarm : On(b)' <=> b # x /\ On(b)
      /\ \A b \in Alarm \ {x} : On(b) /\ next[b] # x => next'[b] = next[b]
  BY <1>2, <1>3, RemoveLeaves
<1>8. next'[Root] \in Node /\ \A b \in Alarm : On(b)' => next'[b] \in Node
  BY Nodes DEF ListInv, Linked, On
<1>9. Kept
  <2>1. \A b \in Alarm \ {x} :
          /\ (On(b)' <=> On(b))
          /\ Remaining(b)' = Remaining(b)
          /\ rollover'[b] = rollover[b]
          /\ On(b) /\ next[b] # x => next'[b] = next[b]
    BY <1>4, <1>5, <1>7
  <2>2. ~ On(x)'
    BY <1>7
  <2>. QED
    BY <1>1, <1>2, <1>3, <1>6, <1>8, <2>1, <2>2, TurnKeeps
<1>10. Running' = Running \ {x}
  BY <1>7 DEF Running
<1>11. Clock!Next
  BY <1>5, <1>10, ClockStops DEF Running
<1>. QED
  BY <1>9, <1>11 DEF Counts

LEMMA StandStep ==
  ASSUME IInv, ~ Visiting, ~ Visiting', UNCHANGED <<nticks, list, alarms>>
  PROVE  Kept /\ Counts
<1>1. /\ nticks' = nticks /\ next' = next /\ time' = time
      /\ rollover' = rollover
  BY DEF list, alarms
<1>2. PICK rank \in [Alarm -> Int] : Order(rank) /\ Pending(rank)
  BY DEF IInv, RankInv
<1>3. \A b \in Alarm : Remaining(b)' = Remaining(b) /\ (On(b)' <=> On(b))
  BY <1>1 DEF Remaining, Late, On
<1>4. Order(rank)'
  BY <1>1, <1>2 DEF Order, On
<1>5. Pending(rank)'
  BY <1>1, <1>2, <1>3 DEF Pending
<1>6. Running' = Running
  BY <1>3 DEF Running
<1>7. UNCHANGED Left
  BY <1>3, <1>6, ClockStands DEF Left, Running
<1>. QED
  BY <1>4, <1>5, <1>7 DEF Kept, Counts, RankInv, ReadAhead

LEMMA InitIInv == Init => IInv
<1>. SUFFICES ASSUME Init PROVE IInv
  OBVIOUS
<1>1. ~ Visiting /\ \A a \in Alarm : ~ On(a)
  BY Nodes DEF Init, Visiting, On
<1>2. [a \in Alarm |-> 0] \in [Alarm -> Int]
  OBVIOUS
<1>3. RankInv([a \in Alarm |-> 0])
  BY <1>1 DEF RankInv, Order, Pending
<1>. QED
  BY <1>1, <1>2, <1>3, InitLink DEF IInv, ReadAhead

LEMMA NextIInv ==
  ASSUME ~ StopsNext, Delays \subseteq 0 .. Words - 2, IInv, [Next]_vars
  PROVE  IInv' /\ Counts
<1>1. LinkInv'
  BY NextLink DEF IInv
<1>2. ASSUME NEW a \in Alarm, NEW d \in Delays, Start(a, d) PROVE Kept /\ Counts
  <2>1. d <= Words - 2
    BY AlarmsAssumption
  <2>. QED
    BY <1>2, <2>1, StartStep
<1>3. ASSUME NEW a \in Alarm, Stop(a), at = Null PROVE Kept /\ Counts
  BY <1>3, StopStep, Nodes DEF Visiting
<1>4. ASSUME CallbackStops PROVE Kept /\ Counts
  BY <1>4, StopStep DEF CallbackStops
<1>5. ASSUME Leave PROVE Kept /\ Counts
  BY <1>5, StandStep, Nodes DEF Leave, Visiting
<1>6. ASSUME UNCHANGED vars PROVE Kept /\ Counts
  <2>1. UNCHANGED <<nticks, list, alarms>> /\ at' = at /\ then' = then
    BY <1>6 DEF vars, walk
  <2>2. CASE ~ Visiting
    BY <2>1, <2>2, StandStep DEF Visiting
  <2>3. CASE Visiting
    <3>1. /\ nticks' = nticks /\ next' = next /\ time' = time
          /\ rollover' = rollover
      BY <2>1 DEF list, alarms
    <3>2. \A b \in Alarm : Remaining(b)' = Remaining(b) /\ (On(b)' <=> On(b))
      BY <3>1 DEF Remaining, Late, On
    <3>3. PICK rank \in [Alarm -> Int] : Order(rank) /\ Pending(rank)
      BY DEF IInv, RankInv
    <3>4. Order(rank)' /\ Pending(rank)'
      <4>1. Order(rank)'
        BY <3>1, <3>3 DEF Order, On
      <4>2. Pending(rank)'
        BY <2>1, <3>1, <3>2, <3>3 DEF Pending, Visiting
      <4>. QED
        BY <4>1, <4>2
    <3>5. ReadAhead'
      BY <2>1, <3>1 DEF IInv, ReadAhead, Visiting, On
    <3>6. Running' = Running
      BY <3>2 DEF Running
    <3>7. UNCHANGED Left
      BY <3>2, <3>6, ClockStands DEF Left, Running
    <3>. QED
      BY <3>4, <3>5, <3>7 DEF Kept, Counts, RankInv
  <2>. QED
    BY <2>2, <2>3
<1>7. Kept /\ Counts
  BY <1>1, <1>2, <1>3, <1>4, <1>5, <1>6,
     TickStep, PassStep, CallAgainStep, CallLastStep
     DEF Next, Program, Visit, CallbackStarts
<1>. QED
  BY <1>1, <1>7 DEF IInv, Kept

\* As long as no callback stops the alarm that follows its own, alt_tick never
\* leaves the list (alt_tick.c:102-138).
THEOREM WalksOn == ASSUME ~ StopsNext, Delays \subseteq 0 .. Words - 2
                   PROVE  Spec => []WalkInList
<1>1. IInv => WalkInList
  BY NextIs, Nodes DEF IInv, LinkInv, ReadAhead, WalkInList, Visiting
<1>2. IInv /\ [Next]_vars => IInv'
  BY NextIInv
<1>. QED
  BY <1>1, <1>2, InitIInv, PTL DEF Spec

\* Then every alarm is called after as many ticks as it was started for and
\* one, neither earlier nor later however the counter wraps (alt_tick.c:110-136,
\* alt_alarm_start.c:76-90), for delays below the longest.
THEOREM CallsOnTime == ASSUME ~ StopsNext, Delays \subseteq 0 .. Words - 2
                       PROVE  Spec => ImplementsCountdown
<1>1. Init => Clock!Init
  <2>. SUFFICES ASSUME Init PROVE Clock!Init
    OBVIOUS
  <2>1. {b \in Alarm : On(b)} = {}
    BY Nodes DEF Init, On
  <2>. QED
    BY <2>1 DEF Clock!Init
<1>2. IInv /\ [Next]_vars =>
        IInv' /\ [Clock!Next]_([a \in {b \in Alarm : On(b)} |-> Remaining(a)])
  BY NextIInv DEF Counts, Left, Running
<1>. QED
  BY <1>1, <1>2, InitIInv, PTL DEF Spec, ImplementsCountdown, Clock!Spec

-----------------------------------------------------------------------------
(* The wall clock (alt_gettod.c, alt_settod.c) *)

LEMMA NatTimes == ASSUME NEW a \in Nat, NEW b \in Nat
                  PROVE  a * b \in Nat
OBVIOUS
LEMMA TimesMono == ASSUME NEW a \in Int, NEW b \in Int, NEW c \in Nat, a <= b
                   PROVE  c * a <= c * b
<1>1. c * (b - a) >= 0
  OBVIOUS
<1>2. c * (b - a) = c * b - c * a
  OBVIOUS
<1>. QED
  BY <1>1, <1>2

\* Quotient and remainder, and that they are the only ones.
LEMMA Divides == ASSUME NEW n \in Int, NEW d \in Nat \ {0}
                 PROVE  /\ n \div d \in Int /\ n % d \in 0 .. d - 1
                        /\ n = d * (n \div d) + (n % d)
OBVIOUS
LEMMA Quotient == ASSUME NEW d \in Nat \ {0}, NEW q \in Int,
                         NEW r \in 0 .. d - 1
                  PROVE  (d * q + r) \div d = q /\ (d * q + r) % d = r
<1>. DEFINE n == d * q + r
            p == n \div d
            s == n % d
<1>1. n \in Int
  OBVIOUS
<1>. HIDE DEF n
<1>2. p \in Int /\ s \in 0 .. d - 1 /\ n = d * p + s
  BY <1>1, Divides
<1>. HIDE DEF p, s
<1>3. p = q
  <2>1. CASE p < q
    <3>1. d * (p + 1) <= d * q
      BY <1>2, <2>1, TimesMono
    <3>2. d * (p + 1) = d * p + d
      BY <1>2
    <3>3. d * p \in Int /\ d * q \in Int
      BY <1>2
    <3>. QED
      BY <1>2, <3>1, <3>2, <3>3 DEF n
  <2>2. CASE q < p
    <3>1. d * (q + 1) <= d * p
      BY <1>2, <2>2, TimesMono
    <3>2. d * (q + 1) = d * q + d
      OBVIOUS
    <3>3. d * p \in Int /\ d * q \in Int
      BY <1>2
    <3>. QED
      BY <1>2, <3>1, <3>2, <3>3 DEF n
  <2>. QED
    BY <1>2, <2>1, <2>2
<1>4. s = r
  <2>1. d * q \in Int
    OBVIOUS
  <2>. QED
    BY <1>2, <1>3, <2>1 DEF n
<1>. QED
  BY <1>3, <1>4 DEF p, s, n

-----------------------------------------------------------------------------
(* The wall clock (alt_gettod.c, alt_settod.c) *)

\* What is in the reset time: the time set, less the ticks gone by until then.
\* (The product of settimeofday is computed in a word.)
Secs(at_tick) == at_tick \div TickRate
Micros(at_tick) == ((at_tick * Wall!PerTick) % Products) % US
WallInv ==
  /\ ticks \in Nat
  /\ set.at \in 0 .. ticks
  /\ set.time.tv_sec \in Nat /\ set.time.tv_usec \in 0 .. US - 1
  /\ Wall!Running =>
       /\ alt_resettime.tv_sec = set.time.tv_sec - Secs(set.at)
       /\ alt_resettime.tv_usec = set.time.tv_usec - Micros(set.at)

LEMMA WallSet == ASSUME Wall!TimeAssumption
                 PROVE  /\ US \in Nat \ {0} /\ TickRate \in Nat
                        /\ Products \in Nat \ {0} /\ Seconds \subseteq Nat
BY DEF Wall!TimeAssumption

LEMMA WallStarts == ASSUME Wall!Init PROVE WallInv
<1>1. /\ ticks = 0 /\ set.at = 0 /\ set.time.tv_sec = 0 /\ set.time.tv_usec = 0
      /\ alt_resettime.tv_sec = 0 /\ alt_resettime.tv_usec = 0
  BY DEF Wall!Init, Wall!Time
<1>2. US \in Nat \ {0} /\ TickRate \in Nat /\ Products \in Nat \ {0}
  BY WallAssumption, WallSet
<1>3. ASSUME Wall!Running
      PROVE  Secs(0) = 0 /\ Micros(0) = 0
  <2>1. TickRate \in Nat \ {0} /\ Wall!PerTick \in Int
    BY <1>2, <1>3, Divides DEF Wall!Running, Wall!PerTick
  <2>2. 0 * Wall!PerTick = 0
    BY <2>1
  <2>3. 0 \div TickRate = 0
    <3>1. TickRate * 0 + 0 = 0 /\ 0 \in 0 .. TickRate - 1
      BY <2>1
    <3>2. (TickRate * 0 + 0) \div TickRate = 0
      BY <2>1, <3>1, Quotient
    <3>. QED
      BY <3>1, <3>2
  <2>4. ASSUME NEW d \in Nat \ {0} PROVE 0 % d = 0
    <3>1. d * 0 + 0 = 0 /\ 0 \in 0 .. d - 1
      OBVIOUS
    <3>2. (d * 0 + 0) % d = 0
      BY <3>1, Quotient
    <3>. QED
      BY <3>1, <3>2
  <2>5. 0 % Products = 0 /\ 0 % US = 0
    BY <1>2, <2>4
  <2>6. Micros(0) = 0
    BY <2>2, <2>5, Zenon DEF Micros
  <2>. QED
    BY <2>3, <2>6 DEF Secs
<1>. QED
  BY <1>1, <1>2, <1>3 DEF WallInv

LEMMA WallStep == ASSUME WallInv, Wall!Next PROVE WallInv'
<1>1. US \in Nat \ {0} /\ TickRate \in Nat /\ Products \in Nat \ {0}
      /\ Seconds \subseteq Nat
  BY WallAssumption, WallSet
<1>2. CASE Wall!Tick
  <2>1. /\ ticks' = ticks + 1 /\ alt_resettime' = alt_resettime /\ set' = set
    BY <1>2 DEF Wall!Tick
  <2>. QED
    BY <2>1 DEF WallInv, Wall!Running
<1>3. ASSUME NEW t \in Wall!Times, Wall!settimeofday(t) PROVE WallInv'
  <2>1. t.tv_sec \in Nat /\ t.tv_usec \in 0 .. US - 1
    BY <1>1 DEF Wall!Times, Wall!Time
  <2>2. CASE Wall!Running
    <3>1. /\ ticks' = ticks /\ set'.time = t /\ set'.at = ticks
          /\ alt_resettime'.tv_sec = t.tv_sec - Secs(ticks)
          /\ alt_resettime'.tv_usec = t.tv_usec - Micros(ticks)
      BY <1>3, <2>2 DEF Wall!settimeofday, Wall!Time, Wall!MicrosSet, Micros,
                        Secs
    <3>. QED
      BY <2>1, <3>1 DEF WallInv
  <2>3. CASE ~ Wall!Running
    <3>1. ticks' = ticks /\ set' = set
      BY <1>3, <2>3 DEF Wall!settimeofday
    <3>. QED
      BY <2>3, <3>1 DEF WallInv, Wall!Running
  <2>. QED
    BY <2>2, <2>3
<1>. QED
  BY <1>2, <1>3 DEF Wall!Next

\* What the ticks are in seconds and microseconds, as both functions have it.
LEMMA TicksAre ==
  ASSUME NEW n \in Nat, Wall!Running, Wall!Whole
  PROVE  /\ Wall!PerTick \in Nat /\ n * Wall!PerTick \in Nat /\ Secs(n) \in Nat
         /\ (n * Wall!PerTick) % US \in 0 .. US - 1
         /\ n * Wall!PerTick = US * Secs(n) + ((n * Wall!PerTick) % US)
<1>. DEFINE R == TickRate
            P == Wall!PerTick
            q == Secs(n)
            m == (n * P) % US
            r == n % R
<1>0. R \in Nat \ {0} /\ US \in Nat \ {0} /\ US % R = 0
  BY WallAssumption, WallSet DEF Wall!Running, Wall!Whole
<1>. HIDE DEF R
<1>1. P \in Int /\ US = R * P
  <2>1. US \div R \in Int /\ US = R * (US \div R) + (US % R)
    BY <1>0, Divides
  <2>. QED
    BY <1>0, <2>1 DEF R, Wall!PerTick
<1>2. q \in Int /\ r \in 0 .. R - 1 /\ n = R * q + r
  <2>1. /\ n \div R \in Int /\ n % R \in 0 .. R - 1
        /\ n = R * (n \div R) + (n % R)
    BY <1>0, Divides
  <2>. QED
    BY <2>1, Zenon DEF Secs, R
<1>. HIDE DEF P, q, m, r
<1>3. P >= 0
  <2>1. CASE P <= -1
    <3>1. R * P <= R * (-1)
      BY <1>0, <1>1, <2>1, TimesMono
    <3>. QED
      BY <1>0, <1>1, <3>1
  <2>. QED
    BY <1>1, <2>1
<1>4. q >= 0
  <2>1. CASE q <= -1
    <3>1. R * q <= R * (-1)
      BY <1>0, <1>2, <2>1, TimesMono
    <3>2. R * q \in Int
      BY <1>0, <1>2
    <3>. QED
      BY <1>0, <1>2, <3>1, <3>2
  <2>. QED
    BY <1>2, <2>1
<1>5. n * P = US * q + r * P
  <2>1. (R * q + r) * P = (R * q) * P + r * P
    BY <1>0, <1>1, <1>2
  <2>2. (R * q) * P = (R * P) * q
    BY <1>0, <1>1, <1>2
  <2>. QED
    BY <1>1, <1>2, <2>1, <2>2
<1>6. r * P \in 0 .. US - 1
  <2>1. r * P \in Nat /\ r <= R - 1 /\ P \in Nat /\ P >= 1
    <3>1. P # 0
      BY <1>0, <1>1
    <3>. QED
      BY <1>1, <1>2, <1>3, <3>1, NatTimes
  <2>2. P * r <= P * (R - 1)
    BY <1>0, <1>2, <2>1, TimesMono
  <2>3. P * (R - 1) = R * P - P /\ P * r = r * P
    BY <1>0, <1>2, <2>1
  <2>. QED
    BY <1>1, <2>1, <2>2, <2>3
<1>7. m = r * P
  <2>. DEFINE x == r * P
  <2>1. x \in 0 .. US - 1
    BY <1>6
  <2>. HIDE DEF x
  <2>2. (US * q + x) % US = x
    BY <1>0, <1>2, <2>1, Quotient
  <2>3. n * P = US * q + x
    BY <1>5 DEF x
  <2>4. m = x
    BY <2>2, <2>3, Zenon DEF m
  <2>. QED
    BY <2>4 DEF x
<1>8. P \in Nat /\ q \in Nat /\ n * P \in Nat
  BY <1>1, <1>2, <1>3, <1>4, NatTimes
<1>9. n * P = US * q + m /\ m \in 0 .. US - 1
  BY <1>5, <1>6, <1>7
<1>. QED
  BY <1>8, <1>9, Zenon DEF P, q, m

\* So the clock shows what has gone by since it was set.
LEMMA WallKeeps == ASSUME WallInv PROVE Wall!KeepsTime
<1>. SUFFICES ASSUME Wall!Running, Wall!Whole,
                     set.at * Wall!PerTick < Products
              PROVE  /\ Wall!gettimeofday.tv_usec \in 0 .. US - 1
                     /\ Wall!InMicros(Wall!gettimeofday)
                          = Wall!InMicros(set.time)
                              + (Wall!times - set.at) * Wall!PerTick
  BY DEF Wall!KeepsTime
<1>1. US \in Nat \ {0} /\ TickRate \in Nat \ {0} /\ Products \in Nat \ {0}
  BY WallAssumption, WallSet DEF Wall!Running
<1>. DEFINE P == Wall!PerTick
            s == set.time.tv_sec
            u == set.time.tv_usec
            a == set.at
            n == ticks
            qa == Secs(a)
            ma == (a * P) % US
            qn == Secs(n)
            mn == (n * P) % US
<1>2. /\ n \in Nat /\ a \in Nat /\ a <= n /\ s \in Nat /\ u \in 0 .. US - 1
      /\ alt_resettime.tv_sec = s - qa
      /\ alt_resettime.tv_usec = u - Micros(a)
  BY DEF WallInv
<1>3. /\ P \in Nat /\ a * P \in Nat /\ qa \in Nat /\ ma \in 0 .. US - 1
      /\ a * P = US * qa + ma
      /\ n * P \in Nat /\ qn \in Nat /\ mn \in 0 .. US - 1
      /\ n * P = US * qn + mn
  BY <1>2, TicksAre
<1>4. (a * P) % Products = a * P
  <2>1. a * P \in 0 .. Products - 1
    BY <1>1, <1>3
  <2>2. (Products * 0 + a * P) % Products = a * P
    BY <1>1, <2>1, Quotient
  <2>. QED
    BY <1>1, <1>3, <2>2
<1>5. /\ Wall!gettimeofday = Wall!Normalise(s - qa + qn, u - ma + mn)
      /\ Wall!times = n
  <2>1. Micros(a) = ma /\ Wall!MicrosGet = mn /\ qn = ticks \div TickRate
    BY <1>4, Zenon DEF Micros, Wall!MicrosGet, Secs
  <2>2. Wall!gettimeofday = Wall!Normalise(alt_resettime.tv_sec + qn,
                                           alt_resettime.tv_usec + mn)
    BY <2>1, Zenon DEF Wall!gettimeofday
  <2>3. Wall!times = n
    BY DEF Wall!times
  <2>. QED
    BY <1>2, <2>1, <2>2, <2>3, Zenon
<1>6. a * P <= n * P
  BY <1>2, <1>3, TimesMono
<1>. DEFINE sec == s - qa + qn
            usec == u - ma + mn
            T == sec * US + usec
<1>7. /\ sec \in Int /\ usec \in Int /\ usec > - US /\ usec < 2 * US
      /\ T = s * US + u + (n - a) * P /\ T >= 0
  <2>1. /\ (s - qa + qn) * US = s * US - US * qa + US * qn
        /\ (n - a) * P = n * P - a * P
        /\ s * US \in Nat /\ US * qa \in Int /\ US * qn \in Int
    BY <1>1, <1>2, <1>3
  <2>. DEFINE aP == a * P
              nP == n * P
              dP == (n - a) * P
              sU == s * US
              xU == (s - qa + qn) * US
              aU == US * qa
              nU == US * qn
  <2>. HIDE DEF P, s, u, a, n, qa, ma, qn, mn
  <2>2. /\ aP \in Nat /\ nP \in Nat /\ aP <= nP /\ sU \in Nat /\ aU \in Int
        /\ nU \in Int /\ aP = aU + ma /\ nP = nU + mn /\ dP = nP - aP
        /\ xU = sU - aU + nU
    BY <1>3, <1>6, <2>1
  <2>3. T = xU + usec
    OBVIOUS
  <2>4. sec \in Int /\ usec \in Int /\ usec > - US /\ usec < 2 * US
    BY <1>1, <1>2, <1>3
  <2>. HIDE DEF aP, nP, dP, sU, xU, aU, nU, T
  <2>5. T = sU + u + dP /\ T >= 0
    BY <1>2, <1>3, <2>2, <2>3
  <2>. QED
    BY <2>4, <2>5 DEF sU, dP
<1>. HIDE DEF P, s, u, a, n, qa, ma, qn, mn, sec, usec
<1>8. /\ Wall!Normalise(sec, usec).tv_usec \in 0 .. US - 1
      /\ Wall!InMicros(Wall!Normalise(sec, usec)) = T
  <2>1. CASE usec < 0
    <3>1. sec > 0
      <4>1. CASE sec <= 0
        <5>1. US * sec <= US * 0
          BY <1>1, <1>7, <4>1, TimesMono
        <5>2. US * sec = sec * US /\ US * sec \in Int
          BY <1>1, <1>7
        <5>. QED
          BY <1>1, <1>7, <2>1, <5>1, <5>2
      <4>. QED
        BY <1>7, <4>1
    <3>2. Wall!Normalise(sec, usec) = Wall!Time(sec - 1, usec + US)
      BY <1>7, <2>1, <3>1 DEF Wall!Normalise
    <3>3. (sec - 1) * US = sec * US - US /\ sec * US \in Int
      BY <1>1, <1>7
    <3>. QED
      BY <1>1, <1>7, <2>1, <3>2, <3>3 DEF Wall!Time, Wall!InMicros
  <2>2. CASE usec >= 0
    <3>1. Wall!Normalise(sec, usec) = Wall!Time(sec + usec \div US, usec % US)
      BY <1>7, <2>2 DEF Wall!Normalise
    <3>2. /\ usec \div US \in Int /\ usec % US \in 0 .. US - 1
          /\ usec = US * (usec \div US) + (usec % US)
      BY <1>1, <1>7, Divides
    <3>. DEFINE d == usec \div US
                m == usec % US
    <3>3. (sec + d) * US = sec * US + US * d
      BY <1>1, <1>7, <3>2
    <3>4. sec * US \in Int /\ US * d \in Int
      BY <1>1, <1>7, <3>2
    <3>5. /\ Wall!Normalise(sec, usec).tv_sec = sec + d
          /\ Wall!Normalise(sec, usec).tv_usec = m
      BY <3>1 DEF Wall!Time
    <3>6. m \in 0 .. US - 1 /\ usec = US * d + m
      BY <3>2
    <3>. HIDE DEF d, m
    <3>7. Wall!InMicros(Wall!Normalise(sec, usec)) = (sec + d) * US + m
      BY <3>5 DEF Wall!InMicros
    <3>. DEFINE x == sec * US
                y == US * d
    <3>8. /\ x \in Int /\ y \in Int /\ (sec + d) * US = x + y
          /\ usec = y + m /\ T = x + usec
      BY <3>3, <3>4, <3>6
    <3>. HIDE DEF x, y, T
    <3>. QED
      BY <1>1, <1>7, <3>5, <3>6, <3>7, <3>8
  <2>. QED
    BY <1>7, <2>1, <2>2
<1>. QED
  BY <1>5, <1>7, <1>8 DEF sec, usec, s, u, n, a, P, qa, qn, ma, mn, Wall!InMicros

-----------------------------------------------------------------------------
(* The busy wait (alt_busy_sleep.c) *)

\* What is left to sleep and what has been slept, after so many big loops.
SleepInv ==
  /\ asked \in 0 .. 2 * IntMax + 1 /\ spent \in Nat
  /\ pc \in {"short", "long", "returned"}
  /\ pc # "returned" =>
       /\ big_loops \in 0 .. asked \div Sleep!MicrosInBig
       /\ pc = "short" => big_loops = 0 /\ asked \div Sleep!MicrosInBig = 0
       /\ us = asked - (asked \div Sleep!MicrosInBig - big_loops)
                         * Sleep!MicrosInBig
       /\ spent = (asked \div Sleep!MicrosInBig - big_loops) * IntMax
  /\ Sleep!SleepsAsLong

LEMMA SleepSet ==
  /\ IntMax \in Nat /\ PerMicro \in 1 .. IntMax /\ IntMax >= 1
  /\ Sleep!MicrosInBig \in Nat \ {0}
  /\ Sleep!MicrosInBig * PerMicro <= IntMax
<1>1. IntMax \in Nat /\ PerMicro \in 1 .. IntMax
  BY SleepAssumption DEF Sleep!SleepAssumption
<1>. DEFINE M == Sleep!MicrosInBig
            r == IntMax % PerMicro
<1>2. M \in Int /\ r \in 0 .. PerMicro - 1 /\ IntMax = PerMicro * M + r
  BY <1>1, Divides DEF Sleep!MicrosInBig
<1>. HIDE DEF M, r
<1>3. M > 0
  <2>1. CASE M <= 0
    <3>1. PerMicro * M <= PerMicro * 0
      BY <1>1, <1>2, <2>1, TimesMono
    <3>2. PerMicro * M \in Int
      BY <1>1, <1>2
    <3>. QED
      BY <1>1, <1>2, <3>1, <3>2
  <2>. QED
    BY <1>2, <2>1
<1>4. PerMicro * M = M * PerMicro /\ PerMicro * M \in Int
  BY <1>1, <1>2
<1>. QED
  BY <1>1, <1>2, <1>3, <1>4 DEF M

LEMMA SleepDivides ==
  ASSUME asked \in Nat, NEW M, M = Sleep!MicrosInBig,
         NEW q, q = asked \div M, NEW r, r = asked % M
  PROVE  q \in Nat /\ r \in 0 .. M - 1 /\ asked = q * M + r
<1>1. M \in Nat \ {0}
  BY SleepSet
<1>2. q \in Int /\ r \in 0 .. M - 1 /\ asked = M * q + r
  BY <1>1, Divides
<1>3. q >= 0
  <2>1. CASE q <= -1
    <3>1. M * q <= M * (-1)
      BY <1>1, <1>2, <2>1, TimesMono
    <3>2. M * q \in Int
      BY <1>1, <1>2
    <3>. QED
      BY <1>1, <1>2, <3>1, <3>2
  <2>. QED
    BY <1>2, <2>1
<1>4. M * q = q * M
  BY <1>1, <1>2
<1>. QED
  BY <1>2, <1>3, <1>4

LEMMA SleepStarts == ASSUME Sleep!Init PROVE SleepInv
<1>. DEFINE M == Sleep!MicrosInBig
            K == asked \div M
<1>1. PICK n \in Asked : asked = n /\ us = asked
  BY DEF Sleep!Init, Sleep!usleep
<1>2. asked \in 0 .. 2 * IntMax + 1 /\ asked \in Nat
  BY <1>1, SleepAssumption, SleepSet DEF Sleep!SleepAssumption
<1>3. K \in Nat /\ M \in Nat \ {0} /\ IntMax \in Nat
  <2>. HIDE DEF K
  <2>1. K = asked \div Sleep!MicrosInBig
    BY DEF K
  <2>. QED
    BY <1>2, <2>1, SleepDivides, SleepSet
<1>4. big_loops = K /\ spent = 0
      /\ pc = (IF K = 0 THEN "short" ELSE "long")
  BY DEF Sleep!Init
<1>. HIDE DEF K, M
<1>5. (K - K) * M = 0 /\ (K - K) * IntMax = 0
  BY <1>3
<1>6. pc \in {"short", "long"} /\ pc # "returned" /\ (pc = "short" => K = 0)
  BY <1>4
<1>7. Sleep!SleepsAsLong
  BY <1>6 DEF Sleep!SleepsAsLong
<1>. QED
  BY <1>1, <1>2, <1>3, <1>4, <1>5, <1>6, <1>7 DEF SleepInv, K, M

LEMMA SleepStep == ASSUME SleepInv, Sleep!Next PROVE SleepInv'
<1>. DEFINE M == Sleep!MicrosInBig
            P == PerMicro
            K == asked \div M
            r == asked % M
<1>1. /\ IntMax \in Nat /\ P \in Nat /\ P >= 1 /\ IntMax >= 1
      /\ M \in Nat \ {0} /\ M * P <= IntMax
  BY SleepSet
<1>2. asked \in 0 .. 2 * IntMax + 1 /\ asked \in Nat /\ spent \in Nat
  BY <1>1 DEF SleepInv
<1>3. K \in Nat /\ r \in 0 .. M - 1 /\ asked = K * M + r
  <2>. HIDE DEF M
  <2>1. M = Sleep!MicrosInBig
    BY DEF M
  <2>. HIDE DEF K, r
  <2>2. K = asked \div M /\ r = asked % M
    BY DEF K, r
  <2>. QED
    BY <1>2, <2>1, <2>2, SleepDivides
<1>4. pc # "returned" =>
        /\ big_loops \in 0 .. K /\ us = asked - (K - big_loops) * M
        /\ spent = (K - big_loops) * IntMax
        /\ pc = "short" => big_loops = 0 /\ K = 0
  BY DEF SleepInv
<1>. HIDE DEF M, K, r
<1>5. CASE Sleep!BigLoop
  <2>1. /\ pc = "long" /\ big_loops > 0 /\ us' = us - M
        /\ big_loops' = big_loops - 1 /\ asked' = asked /\ pc' = "long"
        /\ spent' = spent + IntMax
    BY <1>1, <1>5 DEF Sleep!BigLoop, Sleep!Turns, M
  <2>2. big_loops \in 0 .. K /\ pc # "returned"
    BY <1>4, <2>1
  <2>. DEFINE k == K - big_loops
  <2>3. k \in Int /\ (k + 1) * M = k * M + M
        /\ (k + 1) * IntMax = k * IntMax + IntMax
        /\ k * M \in Int /\ k * IntMax \in Int
    BY <1>1, <1>3, <2>2
  <2>4. K - big_loops' = k + 1 /\ big_loops' \in 0 .. K
    BY <1>3, <2>1, <2>2
  <2>5. us' = asked - (k + 1) * M /\ spent' = (k + 1) * IntMax
    <3>. DEFINE x == k * M
                y == k * IntMax
    <3>1. /\ x \in Int /\ y \in Int /\ us = asked - x /\ spent = y
          /\ (k + 1) * M = x + M /\ (k + 1) * IntMax = y + IntMax
      BY <1>4, <2>2, <2>3
    <3>. HIDE DEF x, y
    <3>. QED
      BY <1>1, <1>2, <2>1, <3>1
  <2>6. spent' \in Nat
    BY <1>1, <1>2, <2>1
  <2>7. Sleep!SleepsAsLong'
    BY <2>1 DEF Sleep!SleepsAsLong
  <2>. QED
    BY <1>2, <2>1, <2>4, <2>5, <2>6, <2>7 DEF SleepInv, K, M
<1>6. CASE Sleep!LastLoop
  <2>1. /\ pc = "long" /\ big_loops = 0 /\ pc' = "returned"
        /\ asked' = asked
        /\ spent' = spent + Sleep!Turns((us * P) % Sleep!Modulus)
    BY <1>6 DEF Sleep!LastLoop
  <2>2. us = r /\ spent = K * IntMax
    <3>1. K - big_loops = K /\ K * M \in Int
      BY <1>1, <1>3, <2>1
    <3>2. us = asked - K * M /\ spent = K * IntMax
      BY <1>4, <2>1, <3>1
    <3>. QED
      BY <1>3, <3>1, <3>2
  <2>. DEFINE x == r * P
  <2>3. x \in Nat /\ x <= IntMax /\ (r # 0 => x # 0) /\ (r = 0 => x = 0)
    <3>1. P * r <= P * M
      BY <1>1, <1>3, TimesMono
    <3>2. P * r = r * P /\ P * M = M * P /\ r * P \in Nat /\ M * P \in Nat
      BY <1>1, <1>3
    <3>3. r # 0 => r >= 1
      BY <1>3
    <3>4. r >= 1 => P * 1 <= P * r
      BY <1>1, <1>3, TimesMono
    <3>5. r = 0 => r * P = 0
      BY <1>1
    <3>. QED
      BY <1>1, <3>1, <3>2, <3>3, <3>4, <3>5
  <2>. HIDE DEF x
  <2>4. x % Sleep!Modulus = x
    <3>. DEFINE W == Sleep!Modulus
    <3>1. W = 2 * IntMax + 2 /\ W \in Nat \ {0}
      BY <1>1 DEF Sleep!Modulus
    <3>. HIDE DEF W
    <3>2. x \in 0 .. W - 1
      BY <1>1, <2>3, <3>1
    <3>3. (W * 0 + x) % W = x
      BY <3>1, <3>2, Quotient
    <3>4. W * 0 + x = x
      BY <2>3, <3>1
    <3>. QED
      BY <3>3, <3>4 DEF W
  <2>5. /\ spent' = K * IntMax + Sleep!Turns(x)
        /\ Sleep!Turns(x) \in Nat /\ Sleep!Turns(x) >= x
        /\ r # 0 => Sleep!Turns(x) = x
    BY <1>1, <2>1, <2>2, <2>3, <2>4 DEF x, Sleep!Turns, Sleep!Modulus
  <2>6. asked * P = K * (M * P) + x
    <3>1. (K * M + r) * P = (K * M) * P + r * P
      BY <1>1, <1>3
    <3>2. (K * M) * P = K * (M * P)
      BY <1>1, <1>3
    <3>. QED
      BY <1>3, <3>1, <3>2 DEF x
  <2>7. /\ K * (IntMax - M * P) = K * IntMax - K * (M * P)
        /\ K * IntMax \in Nat /\ K * (M * P) \in Nat
        /\ K * (M * P) <= K * IntMax
    <3>1. M * P \in Nat
      BY <1>1
    <3>. DEFINE m == M * P
    <3>. HIDE DEF m
    <3>2. /\ K * (IntMax - m) = K * IntMax - K * m
          /\ K * IntMax \in Nat /\ K * m \in Nat /\ K * m <= K * IntMax
      BY <1>1, <1>3, <3>1, TimesMono DEF m
    <3>. QED
      BY <3>2 DEF m
  <2>8. K # 0 \/ asked >= M => (asked < M \/ asked % M # 0 => r # 0)
    <3>1. K # 0 => asked >= M
      <4>1. K >= 1 => M * 1 <= M * K
        BY <1>1, <1>3, TimesMono
      <4>2. M * K = K * M /\ K * M \in Int
        BY <1>1, <1>3
      <4>. QED
        BY <1>1, <1>3, <4>1, <4>2
    <3>. QED
      BY <1>1, <1>2, <3>1 DEF r
  <2>9. asked' * PerMicro = K * (M * P) + x /\ spent' >= asked' * PerMicro
    BY <2>1, <2>3, <2>5, <2>6, <2>7
  <2>10. spent' \in Nat
    BY <2>5, <2>7
  <2>11. ASSUME Sleep!Exact' PROVE spent' = (Sleep!Wanted + Sleep!Rounding)'
    <3>1. r # 0
      <4>1. CASE r = 0
        <5>1. asked # 0 /\ (asked < M \/ r # 0)
          BY <2>1, <2>11 DEF Sleep!Exact, M, r
        <5>2. K = 0
          BY <2>8, <4>1, <5>1 DEF r
        <5>3. K * M = 0
          BY <1>1, <5>2
        <5>. QED
          BY <1>3, <4>1, <5>1, <5>3
      <4>. QED
        BY <4>1
    <3>2. spent' = K * IntMax + x
      BY <2>5, <3>1
    <3>3. (Sleep!Wanted + Sleep!Rounding)'
            = asked * P + K * (IntMax - M * P)
      BY <2>1 DEF Sleep!Wanted, Sleep!Rounding, K, M
    <3>. QED
      BY <2>3, <2>6, <2>7, <3>2, <3>3
  <2>12. Sleep!SleepsAsLong'
    BY <2>9, <2>11 DEF Sleep!SleepsAsLong, Sleep!Wanted
  <2>. QED
    BY <1>2, <2>1, <2>10, <2>12 DEF SleepInv
<1>7. CASE Sleep!ShortLoop
  <2>1. /\ pc = "short" /\ pc' = "returned" /\ asked' = asked
        /\ spent' = spent + IF us = 0 THEN 1 ELSE us * P
    BY <1>7 DEF Sleep!ShortLoop
  <2>2. K = 0 /\ big_loops = 0
    BY <1>4, <2>1
  <2>3. us = asked /\ spent = 0
    <3>1. (K - big_loops) * M = 0 /\ (K - big_loops) * IntMax = 0
      BY <1>1, <2>2
    <3>. QED
      BY <1>2, <1>4, <2>1, <3>1
  <2>4. asked * P \in Nat /\ (asked = 0 => asked * P = 0)
    BY <1>1, <1>2
  <2>5. (Sleep!Wanted + Sleep!Rounding)' = asked * P
    <3>1. K * (IntMax - M * P) = 0
      BY <1>1, <2>2
    <3>. QED
      BY <2>1, <2>4, <3>1 DEF Sleep!Wanted, Sleep!Rounding, K, M
  <2>6. spent' \in Nat /\ spent' >= asked * P
        /\ (asked # 0 => spent' = asked * P)
    BY <2>1, <2>3, <2>4
  <2>7. Sleep!SleepsAsLong'
    BY <2>1, <2>5, <2>6 DEF Sleep!SleepsAsLong, Sleep!Exact, Sleep!Wanted
  <2>. QED
    BY <1>2, <2>1, <2>6, <2>7 DEF SleepInv
<1>. QED
  BY <1>5, <1>6, <1>7 DEF Sleep!Next

-----------------------------------------------------------------------------
\* Both in the run's specification, which keeps to one part.
TimeInv == /\ part = "wall" => WallInv
           /\ part = "sleep" => SleepInv

LEMMA TimeStarts == MCInit => TimeInv
<1>. SUFFICES ASSUME MCInit PROVE TimeInv
  OBVIOUS
<1>1. /\ part = "wall" => Wall!Init
      /\ part = "sleep" => Sleep!Init
  BY DEF MCInit
<1>. QED
  BY <1>1, WallStarts, SleepStarts DEF TimeInv

LEMMA WallSame == ASSUME WallInv, UNCHANGED wall PROVE WallInv'
BY DEF wall, WallInv, Wall!Running
LEMMA SleepSame == ASSUME SleepInv, UNCHANGED sleep PROVE SleepInv'
BY DEF sleep, SleepInv, Sleep!SleepsAsLong, Sleep!Wanted, Sleep!Exact,
       Sleep!Rounding

LEMMA TimeStep == TimeInv /\ [MCNext]_everything => TimeInv'
<1>. SUFFICES ASSUME TimeInv, [MCNext]_everything PROVE TimeInv'
  OBVIOUS
<1>1. UNCHANGED part
  BY DEF MCNext, everything
<1>2. CASE part = "wall"
  <2>1. Wall!Next \/ UNCHANGED wall
    BY <1>2 DEF MCNext, everything
  <2>2. WallInv'
    BY <1>2, <2>1, WallStep, WallSame DEF TimeInv
  <2>. QED
    BY <1>1, <1>2, <2>2 DEF TimeInv
<1>3. CASE part = "sleep"
  <2>1. Sleep!Next \/ UNCHANGED sleep
    BY <1>3 DEF MCNext, everything
  <2>2. SleepInv'
    BY <1>3, <2>1, SleepStep, SleepSame DEF TimeInv
  <2>. QED
    BY <1>1, <1>3, <2>2 DEF TimeInv
<1>4. CASE part # "wall" /\ part # "sleep"
  BY <1>1, <1>4 DEF TimeInv
<1>. QED
  BY <1>2, <1>3, <1>4

\* The clock shows what it was set to and what has gone by since, and a sleep
\* lasts as long as it should, for every rate of the clock and of the processor
\* and every width of the words the microseconds are computed in
\* (alt_gettod.c, alt_settod.c, alt_busy_sleep.c).
THEOREM KeepsTheTime == MCSpec => []TimeIsKept
<1>1. TimeInv => TimeIsKept
  BY WallKeeps DEF TimeInv, SleepInv, TimeIsKept
<1>. QED
  BY <1>1, TimeStarts, TimeStep, PTL DEF MCSpec

-----------------------------------------------------------------------------
(* The log (alt_log_printf.c) *)

Letters == Logger!Characters \cup {"D", "\n", "\r"}
\* What the FIFO holds: what a kind that is on, or the driver, has printed; an
\* echo has no Ctrl-D.
Printed == {x \in (Logger!Listed \cup {"driver"}) \X Letters :
              x # <<"echo", "ctrl-D">>}
\* A message of which something is left.
Sound(m, kinds) ==
  /\ m \in [at : {"poll", "put"}, kind : kinds \cap Logger!Listed,
            left : Seq(Letters), after : 0 .. Ring]
  /\ m.kind = "echo" => m.left \in Seq(Letters \ {"ctrl-D"})
  /\ m.left # <<>>
\* Only the program prints the first of these and only handlers the others; a
\* handler that has found space finds it still there, because nobody runs
\* before it is done: none interrupts a start-up.
ProgramOk ==
  \/ /\ program \in [at : {"boot"}, kind : {"boot"}, left : Seq(Letters)]
     /\ program.left # <<>> => "boot" \in Logger!Listed
     /\ handler = Logger!Idle
  \/ program = Logger!Idle
  \/ Sound(program, {"startup", "boot", "echo"})
  \/ program \in [at : {"write"}, length : 0 .. Ring]
HandlerOk ==
  \/ handler = Logger!Idle
  \/ handler = [at |-> "transmit"]
  \/ /\ Sound(handler, {"isr", "clock", "report"})
     /\ handler.at = "put" => Len(fifo) < Depth
LogInv ==
  /\ level \in -1 .. 3
  /\ fifo \in Seq(Printed) /\ Len(fifo) <= Depth
  /\ ring \in 0 .. Ring /\ WE \in BOOLEAN /\ Len(echo) <= ECHO_LEN + 1
  /\ alt_log_sys_clk_count \in 0 .. INTERVAL
  /\ report \in -1 .. TICKS /\ (report # -1 => level \in {2, 3})
  /\ dropped \subseteq {"startup", "boot", "echo"}
  /\ ProgramOk /\ HandlerOk

LEMMA LogSet ==
  /\ Levels \subseteq -1 .. 3
  /\ \A t \in Texts : t \in Seq(Logger!Characters) /\ Len(t) <= Ring
  /\ Depth \in Nat \ {0} /\ Threshold \in 1 .. Depth /\ Length \in Nat \ {0}
  /\ Ring \in Nat /\ ECHO_LEN \in Nat /\ INTERVAL \in Nat \ {0} /\ TICKS \in Nat \ {0}
BY LoggingAssumption DEF Logger!LogAssumption

LEMMA SeqOf == ASSUME NEW S, NEW n \in Nat, NEW f \in [1 .. n -> S]
               PROVE  f \in Seq(S) /\ Len(f) = n
BY SeqDef, LenProperties

LEMMA MessageIs == /\ Logger!Message \in Seq(Letters)
                   /\ Logger!Message \in Seq(Letters \ {"ctrl-D"})
                   /\ Logger!Message # <<>>
<1>1. Logger!Message \in [1 .. Length -> {"a"}]
  BY DEF Logger!Message
<1>2. /\ Logger!Message \in [1 .. Length -> Letters]
      /\ Logger!Message \in [1 .. Length -> Letters \ {"ctrl-D"}]
  BY <1>1 DEF Logger!Message, Letters, Logger!Characters
<1>3. /\ Logger!Message \in Seq(Letters)
      /\ Logger!Message \in Seq(Letters \ {"ctrl-D"})
      /\ Len(Logger!Message) = Length /\ Length # 0
  BY <1>2, LogSet, SeqOf
<1>. QED
  BY <1>3, EmptySeq

LEMMA EchoIs ==
  ASSUME NEW text \in Texts
  PROVE  /\ Logger!Echo(text) \in Seq(Letters \ {"ctrl-D"})
         /\ Len(Logger!Echo(text)) <= ECHO_LEN + 1
         /\ Len(text) \in 0 .. Ring
<1>. DEFINE length == IF ECHO_LEN > Len(text) THEN Len(text) ELSE ECHO_LEN
            Escaped(c) == IF c = "ctrl-D" THEN "D" ELSE c
            e == [i \in 1 .. length + 1 |->
                    IF i = length THEN "\n" ELSE IF i = length + 1 THEN "\r"
                    ELSE Escaped(text[i])]
<1>1. /\ text \in Seq(Logger!Characters) /\ Len(text) \in Nat
      /\ Len(text) <= Ring /\ ECHO_LEN \in Nat
  BY LogSet, LenProperties
<1>2. length \in Nat /\ length <= Len(text) /\ length <= ECHO_LEN
  BY <1>1
<1>3. ASSUME NEW i \in 1 .. length + 1 PROVE e[i] \in Letters \ {"ctrl-D"}
  <2>1. CASE i = length \/ i = length + 1
    BY <1>2, <2>1 DEF Letters
  <2>2. CASE i # length /\ i # length + 1
    <3>1. text[i] \in Logger!Characters
      BY <1>1, <1>2, <2>2, ElementOfSeq
    <3>2. Escaped(text[i]) \in Letters \ {"ctrl-D"}
      BY <3>1 DEF Letters, Logger!Characters
    <3>. QED
      BY <1>2, <2>2, <3>2
  <2>. QED
    BY <2>1, <2>2
<1>4. e \in [1 .. length + 1 -> Letters \ {"ctrl-D"}]
  BY <1>3
<1>5. e \in Seq(Letters \ {"ctrl-D"}) /\ Len(e) = length + 1
  <2>1. length + 1 \in Nat
    BY <1>2
  <2>. HIDE DEF e, length
  <2>. QED
    BY <1>4, <2>1, SeqOf
<1>6. Logger!Echo(text) = IF length < 2 THEN <<>> ELSE e
  BY DEF Logger!Echo
<1>7. <<>> \in Seq(Letters \ {"ctrl-D"}) /\ Len(<<>>) = 0
  BY EmptySeq
<1>. HIDE DEF e, length
<1>. QED
  BY <1>1, <1>2, <1>5, <1>6, <1>7

\* A message goes on.
LEMMA MessageStarts ==
  ASSUME NEW kinds, NEW k \in kinds, k \in Logger!Listed,
         NEW chars \in Seq(Letters), chars # <<>>, NEW n \in 0 .. Ring,
         k = "echo" => chars \in Seq(Letters \ {"ctrl-D"})
  PROVE  Sound(Logger!Printing(k, chars, n), kinds)
BY DEF Sound, Logger!Printing

LEMMA MessagePolled ==
  ASSUME NEW kinds, NEW m, Sound(m, kinds)
  PROVE  /\ Sound([m EXCEPT !.at = "put"], kinds)
         /\ [m EXCEPT !.at = "put"].at = "put"
BY DEF Sound

LEMMA MessagePut ==
  ASSUME NEW kinds, NEW m, Sound(m, kinds)
  PROVE  /\ <<m.kind, Head(m.left)>> \in Printed
         /\ Len(m.left) > 1 => /\ Sound(Logger!Rest(m), kinds)
                               /\ Logger!Rest(m).at = "poll"
<1>1. /\ m \in [at : {"poll", "put"}, kind : kinds \cap Logger!Listed,
                left : Seq(Letters), after : 0 .. Ring]
      /\ m.left \in Seq(Letters) /\ m.left # <<>> /\ m.kind \in Logger!Listed
      /\ m.kind = "echo" => m.left \in Seq(Letters \ {"ctrl-D"})
  BY DEF Sound
<1>2. Head(m.left) \in Letters /\ Tail(m.left) \in Seq(Letters)
      /\ Len(Tail(m.left)) = Len(m.left) - 1 /\ Len(m.left) \in Nat
  BY <1>1, HeadTailProperties, LenProperties
<1>3. m.kind = "echo" => /\ Head(m.left) \in Letters \ {"ctrl-D"}
                         /\ Tail(m.left) \in Seq(Letters \ {"ctrl-D"})
  BY <1>1, HeadTailProperties
<1>4. <<m.kind, Head(m.left)>> \in Printed
  BY <1>1, <1>2, <1>3 DEF Printed
<1>5. ASSUME Len(m.left) > 1
      PROVE  Sound(Logger!Rest(m), kinds) /\ Logger!Rest(m).at = "poll"
  <2>. DEFINE a == [m EXCEPT !.at = "poll"]
              t == Tail(m.left)
  <2>1. t # <<>>
    <3>1. t \in Seq(Letters) /\ Len(t) > 0
      BY <1>2, <1>5
    <3>. HIDE DEF t
    <3>. QED
      BY <3>1, EmptySeq
  <2>2. /\ a \in [at : {"poll", "put"}, kind : kinds \cap Logger!Listed,
                  left : Seq(Letters), after : 0 .. Ring]
        /\ a.at = "poll" /\ a.kind = m.kind
    BY <1>1
  <2>3. Logger!Rest(m) = [a EXCEPT !.left = t]
    BY <1>1 DEF Logger!Rest
  <2>4. t \in Seq(Letters) /\ t # <<>>
        /\ (m.kind = "echo" => t \in Seq(Letters \ {"ctrl-D"}))
    BY <1>2, <1>3, <2>1
  <2>. HIDE DEF a, t
  <2>. QED
    BY <2>2, <2>3, <2>4 DEF Sound
<1>. QED
  BY <1>4, <1>5

\* The level stays, and with it what is on.
LEMMA LevelStays == ASSUME level' = level
                    PROVE  /\ Logger!Listed' = Logger!Listed
                           /\ Printed' = Printed
                           /\ \A m, kinds : Sound(m, kinds)' = Sound(m, kinds)
<1>1. Logger!Listed' = Logger!Listed
  BY DEF Logger!Listed
<1>. QED
  BY <1>1 DEF Printed, Sound

LEMMA FifoGrows ==
  ASSUME LogInv, NEW x \in Printed, fifo' = Append(fifo, x), Printed' = Printed,
         Len(fifo) < Depth
  PROVE  (fifo \in Seq(Printed) /\ Len(fifo) <= Depth)'
BY LogSet, AppendProperties, LenProperties DEF LogInv

LEMMA LogStarts == ASSUME Logger!Init PROVE LogInv
<1>1. level \in -1 .. 3 /\ fifo \in Seq(Printed) /\ Len(fifo) = 0 /\ Len(echo) = 0
  BY LogSet, EmptySeq DEF Logger!Init
<1>2. /\ ring = 0 /\ WE = FALSE /\ alt_log_sys_clk_count = 0 /\ report = -1
      /\ dropped = {} /\ handler = Logger!Idle
  BY DEF Logger!Init
<1>3. ProgramOk
  <2>1. IF Logger!BOOT THEN program.left = Logger!Message
                          ELSE program.left = <<>>
    BY DEF Logger!Init
  <2>2. program.left \in Seq(Letters)
    BY <2>1, MessageIs, EmptySeq
  <2>3. Logger!BOOT => "boot" \in Logger!Listed
    BY <1>1 DEF Logger!BOOT, Logger!Listed
  <2>4. program \in [at : {"boot"}, kind : {"boot"}, left : Seq(Letters)]
    BY <2>2 DEF Logger!Init
  <2>. QED
    BY <1>2, <2>1, <2>3, <2>4 DEF ProgramOk
<1>4. HandlerOk
  BY <1>2 DEF HandlerOk
<1>. QED
  <2>1. /\ ring \in 0 .. Ring /\ alt_log_sys_clk_count \in 0 .. INTERVAL
        /\ report \in -1 .. TICKS /\ report = -1 /\ Len(echo) <= ECHO_LEN + 1
        /\ Len(fifo) <= Depth
    BY <1>1, <1>2, LogSet
  <2>2. WE \in BOOLEAN /\ dropped \subseteq {"startup", "boot", "echo"}
    BY <1>2
  <2>. QED
    BY <1>1, <1>3, <1>4, <2>1, <2>2 DEF LogInv

\* What the program's own steps before main() do.
LEMMA BootSteps == ASSUME LogInv, Logger!TxLogStr \/ Logger!DriverInit
                   PROVE  LogInv'
<1>1. level' = level /\ handler' = handler
  BY DEF Logger!TxLogStr, Logger!DriverInit
<1>2. Logger!Listed' = Logger!Listed /\ Printed' = Printed
  BY <1>1, LevelStays
<1>3. /\ program \in [at : {"boot"}, kind : {"boot"}, left : Seq(Letters)]
      /\ program.left # <<>> => "boot" \in Logger!Listed
      /\ handler = Logger!Idle
  BY DEF LogInv, ProgramOk, Logger!TxLogStr, Logger!DriverInit, Sound,
         Logger!Idle
<1>4. HandlerOk'
  BY <1>1, <1>3 DEF HandlerOk
<1>5. CASE Logger!TxLogStr
  <2>1. /\ program.left # <<>> /\ Len(fifo) < Depth
        /\ fifo' = Append(fifo, <<"boot", Head(program.left)>>)
        /\ program' = [program EXCEPT !.left = Tail(program.left)]
    BY <1>5, LogSet, LenProperties DEF Logger!TxLogStr, Logger!Full, LogInv
  <2>2. Head(program.left) \in Letters /\ Tail(program.left) \in Seq(Letters)
    BY <1>3, <2>1, HeadTailProperties
  <2>3. <<"boot", Head(program.left)>> \in Printed
    BY <1>3, <2>1, <2>2 DEF Printed
  <2>4. (fifo \in Seq(Printed) /\ Len(fifo) <= Depth)'
    BY <1>2, <2>1, <2>3, FifoGrows
  <2>5. ProgramOk'
    BY <1>1, <1>2, <1>3, <2>1, <2>2 DEF ProgramOk
  <2>. QED
    BY <1>4, <1>5, <2>4, <2>5 DEF LogInv, Logger!TxLogStr, Logger!clock
<1>6. CASE Logger!DriverInit
  <2>1. program' = IF Logger!STARTUP_INFO
                   THEN Logger!Printing("startup", Logger!Message, 0)
                   ELSE IF Logger!BOOT
                   THEN Logger!Printing("boot", Logger!Message, 0)
                   ELSE Logger!Idle
    BY <1>6 DEF Logger!DriverInit
  <2>2. /\ Logger!STARTUP_INFO => "startup" \in Logger!Listed
        /\ Logger!BOOT => "boot" \in Logger!Listed
    BY DEF LogInv, Logger!STARTUP_INFO, Logger!BOOT, Logger!Listed
  <2>3. ProgramOk'
    <3>1. ASSUME NEW k \in {"startup", "boot"}, k \in Logger!Listed,
                 program' = Logger!Printing(k, Logger!Message, 0)
          PROVE  ProgramOk'
      <4>1. 0 \in 0 .. Ring /\ k \in {"startup", "boot", "echo"} /\ k # "echo"
        BY LogSet
      <4>2. Sound(program', {"startup", "boot", "echo"})
        BY <3>1, <4>1, MessageIs, MessageStarts
      <4>. QED
        BY <1>1, <4>2, LevelStays DEF ProgramOk
    <3>2. CASE program' = Logger!Idle
      BY <3>2 DEF ProgramOk, Logger!Idle
    <3>. QED
      BY <2>1, <2>2, <3>1, <3>2
  <2>4. report' \in -1 .. TICKS /\ (report' # -1 => level \in {2, 3})
    BY <1>6, LogSet DEF Logger!DriverInit, Logger!ALARM
  <2>. QED
    BY <1>1, <1>2, <1>4, <1>6, <2>3, <2>4 DEF LogInv, Logger!DriverInit
<1>. QED
  BY <1>5, <1>6

LEMMA WhoPrints ==
  ASSUME LogInv
  PROVE  /\ program.at \in {"poll", "put"} => Sound(program, {"startup", "boot", "echo"})
         /\ handler.at \in {"poll", "put"} =>
              /\ Sound(handler, {"isr", "clock", "report"})
              /\ handler.at = "put" => Len(fifo) < Depth
BY DEF LogInv, ProgramOk, HandlerOk, Sound, Logger!Idle

LEMMA ProgramPolls == ASSUME LogInv, Logger!ProgramPoll PROVE LogInv'
<1>1. /\ level' = level /\ handler' = handler /\ handler = Logger!Idle
      /\ program.at = "poll" /\ program' = [program EXCEPT !.at = "put"]
  BY DEF Logger!ProgramPoll, Logger!Poll
<1>2. Sound(program', {"startup", "boot", "echo"})
  BY <1>1, WhoPrints, MessagePolled
<1>3. ProgramOk' /\ HandlerOk'
  BY <1>1, <1>2, LevelStays DEF ProgramOk, HandlerOk
<1>. QED
  BY <1>1, <1>3, LevelStays
     DEF LogInv, Logger!ProgramPoll, Logger!Poll, Logger!clock

\* A character that is put into the FIFO, or dropped.
LEMMA FifoPut ==
  ASSUME LogInv, NEW c, NEW kinds, Logger!Put(c), Sound(c, kinds)
  PROVE  /\ (fifo \in Seq(Printed) /\ Len(fifo) <= Depth)'
         /\ dropped' \subseteq dropped \cup {c.kind}
         /\ Len(fifo) < Depth => dropped' = dropped
<1>1. level' = level
  BY DEF Logger!Put
<1>2. CASE Logger!Full
  BY <1>1, <1>2, LogSet, LenProperties, LevelStays
     DEF LogInv, Logger!Put, Logger!Full
<1>3. CASE ~ Logger!Full
  <2>1. Len(fifo) < Depth /\ fifo' = Append(fifo, <<c.kind, Head(c.left)>>)
        /\ dropped' = dropped
    BY <1>3, LogSet, LenProperties DEF LogInv, Logger!Put, Logger!Full
  <2>. QED
    BY <1>1, <2>1, LevelStays, MessagePut, FifoGrows
<1>. QED
  BY <1>2, <1>3

LEMMA ProgramPuts == ASSUME LogInv, Logger!ProgramPut PROVE LogInv'
<1>1. /\ level' = level /\ handler' = handler /\ handler = Logger!Idle
      /\ Logger!Put(program) /\ program.at = "put"
      /\ program' = IF Len(program.left) > 1 THEN Logger!Rest(program)
                    ELSE IF program.kind = "startup"
                    THEN Logger!Printing("boot", Logger!Message, 0)
                    ELSE IF program.after = 0 THEN Logger!Idle
                    ELSE [at |-> "write", length |-> program.after]
  BY DEF Logger!ProgramPut, Logger!Put
<1>2. Sound(program, {"startup", "boot", "echo"})
  BY <1>1, WhoPrints
<1>3. /\ program.kind \in {"startup", "boot", "echo"}
      /\ program.kind \in Logger!Listed /\ program.after \in 0 .. Ring
  BY <1>2 DEF Sound
<1>4. /\ (fifo \in Seq(Printed) /\ Len(fifo) <= Depth)'
      /\ dropped' \subseteq {"startup", "boot", "echo"}
  <2>1. dropped' \subseteq dropped \cup {program.kind}
    BY <1>1, <1>2, FifoPut
  <2>2. (fifo \in Seq(Printed) /\ Len(fifo) <= Depth)'
    BY <1>1, <1>2, FifoPut
  <2>3. dropped \subseteq {"startup", "boot", "echo"}
    BY DEF LogInv
  <2>. QED
    BY <1>3, <2>1, <2>2, <2>3
<1>5. ProgramOk'
  <2>1. CASE Len(program.left) > 1
    BY <1>1, <1>2, <2>1, MessagePut, LevelStays DEF ProgramOk
  <2>2. CASE ~ (Len(program.left) > 1) /\ program.kind # "startup"
    BY <1>1, <1>3, <2>2 DEF ProgramOk, Logger!Idle
  <2>3. CASE ~ (Len(program.left) > 1) /\ program.kind = "startup"
    <3>1. "boot" \in Logger!Listed
      BY <1>3, <2>3 DEF LogInv, Logger!Listed
    <3>2. 0 \in 0 .. Ring /\ "boot" \in {"startup", "boot", "echo"}
      BY LogSet
    <3>3. Sound(Logger!Printing("boot", Logger!Message, 0),
                {"startup", "boot", "echo"})
      BY <3>1, <3>2, MessageIs, MessageStarts
    <3>. QED
      BY <1>1, <2>3, <3>3, LevelStays DEF ProgramOk
  <2>. QED
    BY <2>1, <2>2, <2>3
<1>6. HandlerOk'
  BY <1>1 DEF HandlerOk
<1>. QED
  BY <1>1, <1>4, <1>5, <1>6
     DEF LogInv, Logger!ProgramPut, Logger!Put, Logger!clock

LEMMA ProgramWrites == ASSUME LogInv, Logger!ProgramWrite PROVE LogInv'
<1>1. /\ level' = level /\ handler' = handler /\ handler = Logger!Idle
      /\ program.at = "write" /\ program' = Logger!Idle
      /\ ring' = ring + program.length /\ ring + program.length <= Ring
      /\ WE' = TRUE /\ echo' = <<>> /\ fifo' = fifo
  BY DEF Logger!ProgramWrite, Logger!DriverWrite
<1>2. program.length \in 0 .. Ring
  BY <1>1 DEF LogInv, ProgramOk, Sound, Logger!Idle
<1>3. ProgramOk' /\ HandlerOk'
  BY <1>1 DEF ProgramOk, HandlerOk
<1>4. ring' \in 0 .. Ring /\ Len(echo') <= ECHO_LEN + 1
  BY <1>1, <1>2, LogSet, EmptySeq DEF LogInv
<1>. QED
  BY <1>1, <1>3, <1>4, LevelStays
     DEF LogInv, Logger!ProgramWrite, Logger!clock

LEMMA Writes == ASSUME LogInv, NEW t \in Texts, Logger!Write(t) PROVE LogInv'
<1>1. /\ level' = level /\ handler' = handler /\ handler = Logger!Idle
      /\ echo' = IF Logger!WRITE THEN Logger!Echo(t) ELSE <<>>
      /\ program' = IF echo' = <<>> THEN [at |-> "write", length |-> Len(t)]
                    ELSE Logger!Printing("echo", echo', Len(t))
  BY DEF Logger!Write
<1>2. Logger!WRITE => "echo" \in Logger!Listed
  BY DEF LogInv, Logger!WRITE, Logger!Listed
<1>3. /\ echo' \in Seq(Letters \ {"ctrl-D"}) /\ Len(echo') <= ECHO_LEN + 1
      /\ Len(t) \in 0 .. Ring
  BY <1>1, EchoIs, LogSet, EmptySeq
<1>4. ProgramOk'
  <2>1. CASE echo' = <<>>
    BY <1>1, <1>3, <2>1 DEF ProgramOk
  <2>2. CASE echo' # <<>>
    <3>1. Logger!WRITE
      BY <1>1, <2>2
    <3>2. echo' \in Seq(Letters)
      BY <1>3 DEF Letters
    <3>3. Sound(Logger!Printing("echo", echo', Len(t)), {"startup", "boot", "echo"})
      BY <1>2, <1>3, <2>2, <3>1, <3>2, MessageStarts
    <3>. QED
      BY <1>1, <2>2, <3>3, LevelStays DEF ProgramOk
  <2>. QED
    BY <2>1, <2>2
<1>5. HandlerOk'
  BY <1>1 DEF HandlerOk
<1>. QED
  BY <1>1, <1>3, <1>4, <1>5, LevelStays
     DEF LogInv, Logger!Write, Logger!clock

\* What handlers do leaves the program where it is, after the start.
LEMMA ProgramWaits ==
  ASSUME LogInv, level' = level, program' = program,
         program.at # "boot" \/ handler.at # "idle"
  PROVE  ProgramOk'
<1>1. program.at # "boot"
  BY DEF LogInv, ProgramOk, Sound, Logger!Idle
<1>2. \/ program = Logger!Idle
      \/ Sound(program, {"startup", "boot", "echo"})
      \/ program \in [at : {"write"}, length : 0 .. Ring]
  BY <1>1 DEF LogInv, ProgramOk
<1>. QED
  BY <1>2, LevelStays DEF ProgramOk

LEMMA HandlerPolls == ASSUME LogInv, Logger!HandlerPoll PROVE LogInv'
<1>1. /\ level' = level /\ program' = program /\ fifo' = fifo
      /\ handler.at = "poll" /\ handler' = [handler EXCEPT !.at = "put"]
      /\ Len(fifo) < Depth
  BY LogSet, LenProperties
     DEF LogInv, Logger!HandlerPoll, Logger!Poll, Logger!Full
<1>2. Sound(handler', {"isr", "clock", "report"})
  BY <1>1, WhoPrints, MessagePolled
<1>3. HandlerOk'
  BY <1>1, <1>2, LevelStays DEF HandlerOk
<1>4. ProgramOk'
  BY <1>1, ProgramWaits
<1>. QED
  BY <1>1, <1>3, <1>4, LevelStays
     DEF LogInv, Logger!HandlerPoll, Logger!Poll, Logger!clock

\* A message of a handler's begins.
LEMMA HandlerStarts ==
  ASSUME level' = level, NEW k \in {"isr", "clock", "report"},
         k \in Logger!Listed,
         handler' = Logger!Printing(k, Logger!Message, 0)
  PROVE  HandlerOk'
<1>1. Sound(Logger!Printing(k, Logger!Message, 0), {"isr", "clock", "report"})
  BY LogSet, MessageIs, MessageStarts
<1>2. handler'.at = "poll"
  BY DEF Logger!Printing
<1>. QED
  BY <1>1, <1>2, LevelStays DEF HandlerOk

LEMMA HandlerPuts == ASSUME LogInv, Logger!HandlerPut PROVE LogInv'
<1>1. /\ level' = level /\ program' = program
      /\ Logger!Put(handler) /\ handler.at = "put"
      /\ handler' = IF Len(handler.left) > 1 THEN Logger!Rest(handler)
                    ELSE IF handler.kind = "isr" THEN [at |-> "transmit"]
                    ELSE IF handler.kind = "clock" /\ report = 0
                         THEN Logger!Printing("report", Logger!Message, 0)
                    ELSE Logger!Idle
  BY DEF Logger!HandlerPut, Logger!Put
<1>2. Sound(handler, {"isr", "clock", "report"}) /\ Len(fifo) < Depth
  BY <1>1, WhoPrints
<1>3. (fifo \in Seq(Printed) /\ Len(fifo) <= Depth)' /\ dropped' = dropped
  BY <1>1, <1>2, FifoPut
<1>4. HandlerOk'
  <2>1. CASE Len(handler.left) > 1
    <3>1. Sound(handler', {"isr", "clock", "report"}) /\ handler'.at = "poll"
      BY <1>1, <1>2, <2>1, MessagePut
    <3>. QED
      BY <1>1, <3>1, LevelStays DEF HandlerOk
  <2>2. CASE ~ (Len(handler.left) > 1) /\ handler.kind = "clock" /\ report = 0
    <3>1. handler' = Logger!Printing("report", Logger!Message, 0)
      BY <1>1, <2>2
    <3>2. level \in {2, 3}
      BY <2>2 DEF LogInv
    <3>3. "report" \in Logger!Listed
      BY <3>2 DEF Logger!Listed
    <3>. QED
      BY <1>1, <3>1, <3>3, HandlerStarts
  <2>3. CASE ~ (Len(handler.left) > 1) /\ ~ (handler.kind = "clock" /\ report = 0)
    BY <1>1, <2>3 DEF HandlerOk
  <2>. QED
    BY <2>1, <2>2, <2>3
<1>5. ProgramOk'
  BY <1>1, ProgramWaits
<1>. QED
  BY <1>1, <1>3, <1>4, <1>5
     DEF LogInv, Logger!HandlerPut, Logger!Put, Logger!clock

LEMMA Interrupts == ASSUME LogInv, Logger!Interrupt PROVE LogInv'
<1>1. /\ level' = level /\ program' = program /\ program.at # "boot"
      /\ handler' = IF Logger!ISR
                    THEN Logger!Printing("isr", Logger!Message, 0)
                    ELSE [at |-> "transmit"]
  BY DEF Logger!Interrupt
<1>2. Logger!ISR => "isr" \in Logger!Listed
  BY DEF Logger!ISR, Logger!Listed
<1>3. HandlerOk'
  <2>1. CASE Logger!ISR
    BY <1>1, <1>2, <2>1, HandlerStarts
  <2>2. CASE ~ Logger!ISR
    BY <1>1, <2>2 DEF HandlerOk
  <2>. QED
    BY <2>1, <2>2
<1>4. ProgramOk'
  BY <1>1, ProgramWaits
<1>. QED
  BY <1>1, <1>3, <1>4, LevelStays
     DEF LogInv, Logger!Interrupt, Logger!clock

LEMMA Transmits == ASSUME LogInv, Logger!Transmit PROVE LogInv'
<1>. DEFINE space == Depth - Len(fifo)
            n == IF ~ Logger!WI THEN 0 ELSE IF ring < space THEN ring ELSE space
            sent == [i \in 1 .. n |-> <<"driver", "a">>]
<1>1. /\ level' = level /\ program' = program /\ handler.at = "transmit"
      /\ fifo' = fifo \o sent /\ ring' = ring - n
      /\ handler' = Logger!Idle /\ echo' = echo /\ dropped' = dropped
      /\ alt_log_sys_clk_count' = alt_log_sys_clk_count /\ report' = report
  BY DEF Logger!Transmit, Logger!clock
<1>2. WE' \in BOOLEAN
  BY DEF Logger!Transmit
<1>3. n \in 0 .. ring /\ n <= space /\ n \in Nat /\ Len(fifo) \in Nat
  BY LogSet, LenProperties DEF LogInv
<1>4. sent \in Seq(Printed) /\ Len(sent) = n
  <2>1. sent \in [1 .. n -> Printed]
    BY DEF Printed, Letters, Logger!Characters
  <2>. HIDE DEF n, sent
  <2>. QED
    BY <1>3, <2>1, SeqOf
<1>. HIDE DEF n, sent
<1>5. fifo' \in Seq(Printed) /\ Len(fifo') <= Depth
  BY <1>1, <1>3, <1>4, LogSet, ConcatProperties DEF LogInv
<1>6. ProgramOk'
  BY <1>1, ProgramWaits
<1>7. HandlerOk'
  BY <1>1 DEF HandlerOk
<1>8. ring' \in 0 .. Ring
  BY <1>1, <1>3, LogSet DEF LogInv
<1>. QED
  BY <1>1, <1>2, <1>5, <1>6, <1>7, <1>8, LevelStays DEF LogInv

LEMMA Ticks == ASSUME LogInv, Logger!Tick PROVE LogInv'
<1>. DEFINE count == IF Logger!SYS_CLK THEN alt_log_sys_clk_count + 1 ELSE 0
            beat == count > INTERVAL
            left == IF report <= 0 THEN IF report = 0 THEN TICKS ELSE -1 ELSE report
<1>1. /\ level' = level /\ program' = program /\ program.at # "boot"
      /\ alt_log_sys_clk_count' = IF beat THEN 0 ELSE count
      /\ report' = IF left = -1 THEN -1 ELSE left - 1
      /\ handler' = IF beat THEN Logger!Printing("clock", Logger!Message, 0)
                    ELSE IF report' = 0
                    THEN Logger!Printing("report", Logger!Message, 0)
                    ELSE Logger!Idle
  BY DEF Logger!Tick
<1>2. /\ alt_log_sys_clk_count' \in 0 .. INTERVAL
      /\ report' \in -1 .. TICKS /\ (report' # -1 => level \in {2, 3})
  BY <1>1, LogSet DEF LogInv
<1>3. beat => "clock" \in Logger!Listed
  BY LogSet DEF LogInv, Logger!SYS_CLK, Logger!Listed
<1>4. report' = 0 => "report" \in Logger!Listed
  <2>1. ASSUME report' = 0 PROVE level \in {2, 3}
    BY <1>2, <2>1
  <2>. QED
    BY <2>1 DEF Logger!Listed
<1>5. HandlerOk'
  <2>1. CASE beat
    BY <1>1, <1>3, <2>1, HandlerStarts
  <2>2. CASE ~ beat /\ report' = 0
    BY <1>1, <1>4, <2>2, HandlerStarts
  <2>3. CASE ~ beat /\ report' # 0
    BY <1>1, <2>3 DEF HandlerOk
  <2>. QED
    BY <2>1, <2>2, <2>3
<1>6. ProgramOk'
  BY <1>1, ProgramWaits
<1>. QED
  BY <1>1, <1>2, <1>5, <1>6, LevelStays DEF LogInv, Logger!Tick

LEMMA HostTakesOne == ASSUME LogInv, Logger!HostTakes PROVE LogInv'
<1>1. /\ level' = level /\ program' = program /\ handler' = handler
      /\ fifo # <<>> /\ fifo' = Tail(fifo)
  BY DEF Logger!HostTakes
<1>2. fifo' \in Seq(Printed) /\ Len(fifo') = Len(fifo) - 1 /\ Len(fifo) \in Nat
  BY <1>1, HeadTailProperties, LenProperties DEF LogInv
<1>3. Len(fifo') <= Depth /\ (Len(fifo) < Depth => Len(fifo') < Depth)
  BY <1>2, LogSet DEF LogInv
<1>4. ProgramOk'
  BY <1>1, LevelStays DEF LogInv, ProgramOk
<1>5. HandlerOk'
  BY <1>1, <1>3, LevelStays DEF LogInv, HandlerOk
<1>. QED
  BY <1>1, <1>2, <1>3, <1>4, <1>5, LevelStays
     DEF LogInv, Logger!HostTakes, Logger!clock

LEMMA LogStep == ASSUME LogInv, Logger!Next PROVE LogInv'
BY BootSteps, ProgramPolls, ProgramPuts, ProgramWrites, Writes, HandlerPolls,
   HandlerPuts, Interrupts, Transmits, Ticks, HostTakesOne
   DEF Logger!Next, Logger!Program, Logger!Handler

LEMMA LogSame == ASSUME LogInv, UNCHANGED logging PROVE LogInv'
<1>1. /\ level' = level /\ fifo' = fifo /\ ring' = ring /\ WE' = WE
      /\ program' = program /\ handler' = handler /\ echo' = echo
      /\ alt_log_sys_clk_count' = alt_log_sys_clk_count /\ report' = report
      /\ dropped' = dropped
  BY DEF logging
<1>2. ProgramOk' /\ HandlerOk'
  BY <1>1, LevelStays DEF LogInv, ProgramOk, HandlerOk
<1>. QED
  BY <1>1, <1>2, LevelStays DEF LogInv

LEMMA LogIsRight ==
  ASSUME LogInv
  PROVE  /\ Logger!TypeOK /\ Logger!OnlyWhatIsOn
         /\ Logger!HandlersLoseNothing /\ Logger!NoCtrlDEchoed
<1>1. \A i \in 1 .. Len(fifo) : fifo[i] \in Printed
  BY ElementOfSeq DEF LogInv
<1>2. Logger!OnlyWhatIsOn /\ Logger!NoCtrlDEchoed
  BY <1>1 DEF Logger!OnlyWhatIsOn, Logger!NoCtrlDEchoed, Printed
<1>3. /\ program.at \in {"boot", "idle", "poll", "put", "write"}
      /\ handler.at \in {"idle", "poll", "put", "transmit"}
  BY DEF LogInv, ProgramOk, HandlerOk, Sound, Logger!Idle
<1>. QED
  BY <1>2, <1>3
     DEF LogInv, Logger!TypeOK, Logger!HandlersLoseNothing

\* Only what the level turns on is logged, what handlers log or send is never
\* dropped, whatever they interrupt, and no echo ends the terminal's
\* connection, for every depth of the FIFO and whatever is written
\* (alt_log_printf.c and .h).
THEOREM LogsWell == MCSpec => []LogsRight
<1>. DEFINE I == part = "log" => LogInv
<1>1. MCInit => I
  BY LogStarts DEF MCInit
<1>2. I /\ [MCNext]_everything => I'
  <2>. SUFFICES ASSUME I, [MCNext]_everything, part' = "log" PROVE LogInv'
    OBVIOUS
  <2>1. part = "log"
    BY DEF MCNext, everything
  <2>2. Logger!Next \/ UNCHANGED logging
    BY <2>1 DEF MCNext, everything
  <2>. QED
    BY <2>1, <2>2, LogStep, LogSame
<1>3. I => LogsRight
  BY LogIsRight DEF LogsRight
<1>. QED
  BY <1>1, <1>2, <1>3, PTL DEF MCSpec
=============================================================================
