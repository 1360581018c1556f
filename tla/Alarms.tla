------------------------------- MODULE Alarms -------------------------------
(***************************************************************************)
(* The alarms of the system clock: alt_tick.c, alt_alarm_start.c and the   *)
(* doubly linked list of alt_llist.h.  A tick walks through the list at    *)
(* interrupt level and makes the callbacks that are due; a callback may    *)
(* itself start and stop alarms.  Times are words of the width of alt_u32  *)
(* and wrap.  (This board has no system clock: alt_alarm_start answers     *)
(* -ENOTSUP and no tick ever comes; the module is about boards with one.)  *)
(***************************************************************************)
EXTENDS Integers

CONSTANTS Alarm,     \* the alarm structures
          Root,      \* alt_alarm_list, the head of the list
          Null,      \* an uninitialised pointer
          Words,     \* 2^32
          Delays,    \* what alarms are started with
          Periods,   \* what callbacks return, 0 to be called no more
          Meddle,    \* whether callbacks start and stop alarms
          StopsNext  \* whether one may stop the alarm after its own

ASSUME AlarmsAssumption ==
  /\ Root \notin Alarm /\ Null \notin Alarm \cup {Root}
  /\ Words \in Nat /\ Words > 1
  /\ Delays \subseteq 0 .. Words - 1 /\ Periods \subseteq 0 .. Words - 1
  /\ Meddle \in BOOLEAN /\ StopsNext \in BOOLEAN

VARIABLES nticks,          \* _alt_nticks
          next, previous,  \* of the list's entries
          time, rollover,  \* of the alarms
          at, then         \* "alarm" and "next" of alt_tick; at = Null when
                           \* no tick is being processed

list == <<next, previous>>
alarms == <<time, rollover>>
walk == <<at, then>>
vars == <<nticks, list, alarms, walk>>

Node == Alarm \cup {Root}
Word == 0 .. Words - 1
\* A sum of two words, or of two and 1, in a word.
Wrap(n) == IF n >= Words THEN n - Words ELSE n

Init == /\ nticks = 0
        /\ next = [n \in Node |-> IF n = Root THEN Root ELSE Null]
        /\ previous = next
        /\ time = [a \in Alarm |-> 0]
        /\ rollover = [a \in Alarm |-> FALSE]
        /\ at = Null /\ then = Null

\* alt_llist_insert at the front, and alt_llist_remove: an entry that is out
\* points to itself.
Insert(a) ==
  /\ next' = [next EXCEPT ![a] = next[Root], ![Root] = a]
  /\ previous' = [[previous EXCEPT ![a] = Root] EXCEPT ![next[Root]] = a]
Remove(a) ==
  /\ previous' = [[previous EXCEPT ![next[a]] = previous[a]] EXCEPT ![a] = a]
  /\ next' = [[next EXCEPT ![previous[a]] = next[a]] EXCEPT ![a] = a]
On(a) == next[a] \notin {a, Null}

\* alt_alarm_start, with interrupts off, of an alarm that is not on.
StartUnwrapped(a, delay) ==
  /\ ~ On(a)
  /\ LET t == Wrap(Wrap(delay + nticks) + 1)
     IN  /\ time' = [time EXCEPT ![a] = t]
         /\ rollover' = [rollover EXCEPT ![a] = FALSE]
  /\ Insert(a)
  /\ UNCHANGED <<nticks, walk>>
Start(a, delay) ==
  /\ ~ On(a)
  /\ LET t == Wrap(Wrap(delay + nticks) + 1)
     IN  /\ time' = [time EXCEPT ![a] = t]
         /\ rollover' = [rollover EXCEPT ![a] = t < nticks]
  /\ Insert(a)
  /\ UNCHANGED <<nticks, walk>>
\* alt_alarm_stop, of one that was on at some time.
Stop(a) == /\ next[a] # Null
           /\ Remove(a)
           /\ UNCHANGED <<nticks, alarms, walk>>

\* alt_tick, up to its loop.
Tick == /\ at = Null
        /\ nticks' = Wrap(nticks + 1)
        /\ at' = next[Root]
        /\ then' = IF next[Root] = Root THEN Null ELSE next[next[Root]]
        /\ UNCHANGED <<list, alarms>>

\* One turn of the loop.
Late(a) == rollover[a] /\ nticks # 0
Expired(a) == time[a] <= nticks /\ ~ Late(a)
AdvanceLate == /\ at' = next'[at]
               /\ then' = IF then = Root THEN Null ELSE next'[then]
Advance == /\ at' = then
           /\ then' = IF then = Root THEN Null ELSE next'[then]
Visiting == at \in Alarm
Pass == /\ Visiting /\ ~ Expired(at)
        /\ rollover' = [rollover EXCEPT ![at] = Late(at)]
        /\ UNCHANGED <<nticks, list, time>>
        /\ Advance
CallAgain(period) ==
  /\ Visiting /\ Expired(at) /\ period # 0
  /\ LET t == Wrap(time[at] + period)
     IN  /\ time' = [time EXCEPT ![at] = t]
         /\ rollover' = [rollover EXCEPT ![at] = t < nticks]
  /\ UNCHANGED <<nticks, list>>
  /\ Advance
CallLast == /\ Visiting /\ Expired(at)
            /\ rollover' = [rollover EXCEPT ![at] = FALSE]
            /\ Remove(at)
            /\ UNCHANGED <<nticks, time>>
            /\ Advance
Leave == /\ at = Root
         /\ at' = Null /\ then' = Null
         /\ UNCHANGED <<nticks, list, alarms>>

\* What a callback does before it returns.  With StopsNext it may stop the
\* alarm that alt_tick has saved as the next: that one then points to itself,
\* is called all the same, and the loop goes round it for ever (see
\* StoppedIsNotCalled and TickEnds).  A callback stops its own alarm by
\* answering 0.
CallbackStarts == /\ Meddle /\ Visiting /\ Expired(at)
                  /\ \E a \in Alarm, d \in Delays : Start(a, d)
CallbackStops ==
  /\ Meddle /\ Visiting /\ Expired(at)
  /\ \E a \in Alarm \ {at} : (StopsNext \/ a # then) /\ Stop(a)

Program == at = Null /\ (\/ \E a \in Alarm, d \in Delays : Start(a, d)
                         \/ \E a \in Alarm : Stop(a))
Visit == \/ Pass \/ Leave
         \/ \E p \in Periods \ {0} : CallAgain(p)
         \/ 0 \in Periods /\ CallLast
Next == Program \/ Tick \/ Visit \/ CallbackStarts \/ CallbackStops
Spec == Init /\ [][Next]_vars
\* Callbacks return, and the processor goes on with the loop.
FairSpec == Spec /\ SF_vars(Visit)
-----------------------------------------------------------------------------
TypeOK == /\ nticks \in Word
          /\ next \in [Node -> Node \cup {Null}]
          /\ previous \in [Node -> Node \cup {Null}]
          /\ time \in [Alarm -> Word] /\ rollover \in [Alarm -> BOOLEAN]
          /\ at \in Node \cup {Null} /\ then \in Node \cup {Null}

\* The list is closed in both directions: whoever is on is linked to entries
\* that are linked back to it.
Linked == \A n \in Node : n = Root \/ On(n) =>
            /\ next[n] \in Node /\ previous[n] \in Node
            /\ previous[next[n]] = n /\ next[previous[n]] = n
            /\ next[n] = Root \/ On(next[n])

\* The walk is at an alarm that is on and goes on to what follows it, unless
\* it is at its end: no callback leads it astray that leaves the alarm after
\* its own.
WalkInList == Visiting => On(at) /\ (then = Root \/ On(then))

\* An alarm is called at its tick, exactly, however the counter wraps, and
\* not once it is stopped.
Remaining(a) == IF Late(a) THEN time[a] + Words - nticks ELSE time[a] - nticks
Clock == INSTANCE Countdown
           WITH Longest <- Words - 1,
                left <- [a \in {b \in Alarm : On(b)} |-> Remaining(a)]
ImplementsCountdown == Clock!Spec

\* A tick is over some time, so that the interrupted program goes on.  This
\* is so for callbacks that do not stop the alarm after their own, and is not
\* with StopsNext, where a tick may never end, although alt_alarm.h:73 says
\* without exception: "alt_alarm_stop() is used to unregister a callback."
TickEnds == at # Null ~> at = Null

\* alt_alarm_start.c:86 says: the roll-over flag "will prevent the subsequent
\* tick event from causing an alarm too early".
NeverTooEarly == [][\A a \in Alarm : Start(a, Words - 1) =>
                      Remaining(a)' = Words]_vars

\* alt_alarm.h:73 says: "alt_alarm_stop() is used to unregister a callback."
StoppedIsNotCalled == Visiting /\ Expired(at) => On(at)
=============================================================================
