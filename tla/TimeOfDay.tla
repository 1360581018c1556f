----------------------------- MODULE TimeOfDay -----------------------------
(***************************************************************************)
(* The wall clock: alt_gettod.c and alt_settod.c.  The time is the ticks   *)
(* since reset, in seconds and microseconds, on top of a reset time, which *)
(* settimeofday chooses.  Both compute the microseconds of the ticks, one  *)
(* in 64 bits and the other in 32.                                         *)
(***************************************************************************)
EXTENDS Integers

CONSTANTS US,        \* ALT_US, a second
          TickRate,  \* alt_ticks_per_second; 0 without a system clock
          Words,     \* 2^32
          MaxTicks,  \* bound: ticks, short of the counter's wrap
          Seconds    \* what the clock is set to: seconds

TimeAssumption ==
  /\ US \in Nat \ {0} /\ TickRate \in 0 .. US /\ Words \in Nat \ {0}
  /\ MaxTicks \in 0 .. Words - 1
  /\ Seconds \subseteq Nat

VARIABLES nticks,         \* alt_nticks
          alt_resettime,  \* [tv_sec, tv_usec], either may be negative
          set             \* the time last set and the tick it was set at

vars == <<nticks, alt_resettime, set>>

Time(sec, usec) == [tv_sec |-> sec, tv_usec |-> usec]
Times == {Time(s, u) : s \in Seconds, u \in 0 .. US - 1}

Init == /\ nticks = 0
        /\ alt_resettime = Time(0, 0)
        /\ set = [time |-> Time(0, 0), at |-> 0]

Running == TickRate # 0
PerTick == US \div TickRate
\* The microseconds of the ticks: settimeofday lets the product wrap.
MicrosGet == (nticks * PerTick) % US
MicrosSet == ((nticks * PerTick) % Words) % US

Tick == /\ Running /\ nticks < MaxTicks
        /\ nticks' = nticks + 1
        /\ UNCHANGED <<alt_resettime, set>>
settimeofday(t) ==
  /\ alt_resettime' =
       IF Running
       THEN Time(t.tv_sec - nticks \div TickRate, t.tv_usec - MicrosSet)
       ELSE alt_resettime
  /\ set' = IF Running THEN [time |-> t, at |-> nticks] ELSE set
  /\ UNCHANGED nticks

\* A time whose microseconds are within a second of it, made a whole one; what
\* is before time 0 is time 0.
NormaliseNoCarry(sec, usec) ==
  IF usec < 0 THEN IF sec <= 0 THEN Time(0, 0) ELSE Time(sec - 1, usec + US)
  ELSE Time(sec, usec % US)
Normalise(sec, usec) ==
  IF usec < 0 THEN IF sec <= 0 THEN Time(0, 0) ELSE Time(sec - 1, usec + US)
  ELSE Time(sec + usec \div US, usec % US)
gettimeofday == Normalise(alt_resettime.tv_sec + nticks \div TickRate,
                          alt_resettime.tv_usec + MicrosGet)

\* times(): the ticks since reset, 0 and ENOSYS without a system clock.
times == IF Running THEN nticks ELSE 0

Next == Tick \/ \E t \in Times : settimeofday(t)
Spec == Init /\ [][Next]_vars
-----------------------------------------------------------------------------
InMicros(t) == t.tv_sec * US + t.tv_usec

\* The clock shows the time it was set to and what has gone by since, also when
\* seconds begin and when it was set to before the time it has run for, unless
\* a tick is no whole number of microseconds or it was set after the product
\* had wrapped; times() is what has gone by since reset.
Whole == US % TickRate = 0
KeepsTime == Running /\ Whole /\ set.at * PerTick < Words =>
  /\ gettimeofday.tv_usec \in 0 .. US - 1
  /\ InMicros(gettimeofday)
       = InMicros(set.time) + (times - set.at) * PerTick

\* alt_settod.c:62 says the reset time is updated "so that an immediate call to
\* gettimeofday() would return the value specified by "t" and "tz"".
SetIsRead == [][\A t \in Times :
                  Running /\ settimeofday(t) => gettimeofday' = t]_vars
=============================================================================
