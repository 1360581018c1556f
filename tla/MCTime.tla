------------------------------- MODULE MCTime -------------------------------
(***************************************************************************)
(* What goes with the clock: the alarms, the wall clock, the busy wait and *)
(* the debug log with its heartbeat.  They share no variable (the wall     *)
(* clock's ticks are modelled as its own), so that a behaviour is one of   *)
(* one of them, chosen at the start: the others stay as they are.          *)
(*                                                                         *)
(* Three alarms and a counter that wraps every four ticks; seconds of      *)
(* twelve microseconds, a clock of three ticks in one and products that    *)
(* wrap after five seconds; words of seven bits and five turns in a        *)
(* microsecond, as on this board.                                          *)
(***************************************************************************)
EXTENDS Alarms

CONSTANTS a1, a2, a3,
          US, TickRate, Products, MaxTicks, Seconds, \* of TimeOfDay
          IntMax, PerMicro, Asked,                   \* of BusySleep
          Levels, Timer, Texts, Depth, Threshold,    \* of Log
          Ring, Length, ECHO_LEN, INTERVAL, TICKS
ThreeAlarms == {a1, a2, a3}
FewSeconds == 0 .. 3
Sleeps == 0 .. 127
EveryLevel == -1 .. 3
\* Messages longer than the FIFO, as those of the control register are.
Messages == {<<"a">>, <<"ctrl-D", "b">>, <<"a", "ctrl-D", "b">>}
Short == 0 .. Words - 2
AnyPeriod == 0 .. Words - 1

VARIABLES part,
          ticks, alt_resettime, set,
          asked, us, big_loops, pc, spent,
          level, fifo, ring, WE, program, handler, echo,
          alt_log_sys_clk_count, report, dropped

wall == <<ticks, alt_resettime, set>>
sleep == <<asked, us, big_loops, pc, spent>>
logging == <<level, fifo, ring, WE, program, handler, echo,
             alt_log_sys_clk_count, report, dropped>>
Off(x) == x = 0

Wall == INSTANCE TimeOfDay WITH Words <- Products, nticks <- ticks
Sleep == INSTANCE BusySleep
Logger == INSTANCE Log
ASSUME LoggingAssumption == Logger!LogAssumption
ASSUME WallAssumption == Wall!TimeAssumption
ASSUME SleepAssumption == Sleep!SleepAssumption

NoWall == Off(ticks) /\ Off(alt_resettime) /\ Off(set)
NoSleep == Off(asked) /\ Off(us) /\ Off(big_loops) /\ Off(pc) /\ Off(spent)
NoLogging == /\ Off(level) /\ fifo = <<>> /\ Off(ring) /\ Off(WE)
             /\ program = Logger!Idle /\ handler = Logger!Idle /\ Off(echo)
             /\ Off(alt_log_sys_clk_count) /\ Off(report) /\ Off(dropped)
MCInit ==
  /\ Init
  /\ \/ part = "alarms" /\ NoWall /\ NoSleep /\ NoLogging
     \/ part = "wall" /\ Wall!Init /\ NoSleep /\ NoLogging
     \/ part = "sleep" /\ NoWall /\ Sleep!Init /\ NoLogging
     \/ part = "log" /\ NoWall /\ NoSleep /\ Logger!Init
MCNext ==
  /\ \/ part = "alarms" /\ Next /\ UNCHANGED <<wall, sleep, logging>>
     \/ part = "wall" /\ Wall!Next /\ UNCHANGED <<vars, sleep, logging>>
     \/ part = "sleep" /\ Sleep!Next /\ UNCHANGED <<vars, wall, logging>>
     \/ /\ part = "sleep" /\ pc = "returned"
        /\ UNCHANGED <<vars, wall, sleep, logging>>
     \/ part = "log" /\ Logger!Next /\ UNCHANGED <<vars, wall, sleep>>
  /\ UNCHANGED part
everything == <<vars, part, wall, sleep, logging>>
MCSpec == MCInit /\ [][MCNext]_everything
\* The fairness of Alarms, which asks nothing where no tick ever comes, and
\* that of Log.
Logs == part = "log" /\ UNCHANGED <<vars, part, wall, sleep>>
MCFairSpec ==
  /\ MCSpec
  /\ SF_vars(Visit)
  /\ WF_logging(Logs /\ Logger!HostTakes)
  /\ WF_logging(Logs /\ Logger!Handler)
  /\ SF_logging(Logs /\ Logger!Interrupt)
  /\ SF_logging(Logs /\ Logger!Program)
-----------------------------------------------------------------------------
\* The wall clock shows what it was set to and what has gone by since, and a
\* sleep lasts as long as it should, however it is cut into loops.
TimeIsKept == /\ part = "wall" => Wall!KeepsTime
              /\ part = "sleep" => Sleep!SleepsAsLong

\* Only what the level turns on is logged, what handlers log or send is never
\* dropped, and no echo ends the terminal's connection.
LogsRight == part = "log" =>
  /\ Logger!TypeOK /\ Logger!OnlyWhatIsOn
  /\ Logger!HandlersLoseNothing /\ Logger!NoCtrlDEchoed
\* Nothing is held up for ever: a tick gets through the list of alarms
\* although callbacks start alarms and stop others than the next, and what is
\* logged by the program and by handlers that wait for the host comes to an
\* end; below level 3, where each interrupt is logged, it also lets write()
\* return and the driver send.
NothingIsHeldUp == TickEnds /\ (part = "log" => Logger!NothingWaits)
=============================================================================
