---------------------------------- MODULE Log ----------------------------------
(***************************************************************************)
(* The log of the HAL (alt_log_printf.c and .h, alt_log_macro.S): messages *)
(* written character by character into the transmit FIFO of the JTAG UART, *)
(* past the driver, by the start-up code, by the program in write() and by *)
(* interrupt handlers, while the driver's own handler sends what write()   *)
(* has put into its ring.  A character is <<what it belongs to, what it    *)
(* is>>; what a message says is left out but for the echo of write().      *)
(***************************************************************************)
EXTENDS Integers, Sequences, SequencesExt

CONSTANTS Levels,          \* settings of ALT_LOG_FLAGS
          Depth, Threshold,\* of the FIFO and of its interrupt
          Ring,            \* characters the driver's ring holds
          Length,          \* of a message, in characters
          ECHO_LEN,        \* ALT_LOG_WRITE_ECHO_LEN
          INTERVAL, TICKS, \* between heartbeats, and between reports
          Timer,           \* whether there is a system clock
          Texts            \* what the program writes, over Characters

Characters == {"a", "b", "ctrl-D"}
LogAssumption ==
  /\ Levels \subseteq -1 .. 3 /\ Texts \subseteq Seq(Characters)
  /\ Depth \in Nat \ {0} /\ Threshold \in 1 .. Depth
  /\ Ring \in Nat /\ Length \in Nat \ {0}
  /\ \A t \in Texts : Len(t) <= Ring
  /\ ECHO_LEN \in Nat /\ INTERVAL \in Nat \ {0} /\ TICKS \in Nat \ {0}

VARIABLES level, fifo, ring, WE,   \* WE: the write interrupt is enabled
          program, handler,        \* the message each is printing
          echo,                    \* alt_log_write_buf
          alt_log_sys_clk_count, report, \* ticks counted, to the next report
          dropped                  \* kinds of the characters lost so far
vars == <<level, fifo, ring, WE, program, handler, echo,
          alt_log_sys_clk_count, report, dropped>>
clock == <<alt_log_sys_clk_count, report>>

\* The flags' settings.
BOOT == level # -1
SYS_CLK == level \in {1, 2, 3}
WRITE == level \in {2, 3}
ALARM == level \in {2, 3}
STARTUP_INFO == level \in {1, 2, 3}
ISR == level = 3

Idle == [at |-> "idle"]
Printing(kind, chars, after) ==
  [at |-> "poll", kind |-> kind, left |-> chars, after |-> after]
Message == [i \in 1 .. Length |-> "a"]
Full == Len(fifo) >= Depth

Init == /\ level \in Levels /\ fifo = <<>> /\ ring = 0 /\ WE = FALSE
        /\ program = [at |-> "boot", kind |-> "boot",
                      left |-> IF BOOT THEN Message ELSE <<>>]
        /\ handler = Idle /\ echo = <<>>
        /\ alt_log_sys_clk_count = 0 /\ report = -1 /\ dropped = {}

\* tx_log_str, before interrupts are enabled.
TxLogStr ==
  /\ program.at = "boot" /\ program.left # <<>> /\ ~ Full
  /\ fifo' = Append(fifo, <<"boot", Head(program.left)>>)
  /\ program' = [program EXCEPT !.left = Tail(@)]
  /\ UNCHANGED <<level, ring, WE, handler, echo, clock, dropped>>

\* The driver is initialised: ALT_LOG_JTAG_UART_ALARM_REGISTER.  What
\* alt_main says after that it says with interrupts on, as one message here.
DriverInit ==
  /\ program.at = "boot" /\ program.left = <<>>
  /\ report' = IF ALARM /\ Timer THEN TICKS ELSE -1
  /\ program' = IF STARTUP_INFO THEN Printing("startup", Message, 0)
                ELSE IF BOOT THEN Printing("boot", Message, 0) ELSE Idle
  /\ UNCHANGED <<level, fifo, ring, WE, handler, echo, alt_log_sys_clk_count, dropped>>

\* alt_log_txchar: wait until there is space, then write to the register.  A
\* handler may come in between; the FIFO drops what it has no space for.
PollAtOnce(c) == /\ c.at = "poll"
                 /\ UNCHANGED <<level, fifo, ring, WE, echo, clock, dropped>>
Poll(c) == /\ c.at = "poll" /\ ~ Full
           /\ UNCHANGED <<level, fifo, ring, WE, echo, clock, dropped>>
Put(c) == /\ c.at = "put"
          /\ fifo' = IF Full THEN fifo ELSE Append(fifo, <<c.kind, Head(c.left)>>)
          /\ dropped' = IF Full THEN dropped \cup {c.kind} ELSE dropped
          /\ UNCHANGED <<level, echo, clock>>
Rest(c) == [c EXCEPT !.at = "poll", !.left = Tail(@)]

\* write(): the driver's part of it once there is room in the ring.
DriverWrite(n) == ring' = ring + n /\ WE' = TRUE
ProgramPoll == /\ handler = Idle /\ Poll(program)
               /\ program' = [program EXCEPT !.at = "put"]
               /\ UNCHANGED handler
ProgramPut ==
  /\ handler = Idle /\ Put(program)
  /\ program' = IF Len(program.left) > 1 THEN Rest(program)
                ELSE IF program.kind = "startup"
                     THEN Printing("boot", Message, 0)
                ELSE IF program.after = 0 THEN Idle
                ELSE [at |-> "write", length |-> program.after]
  /\ UNCHANGED <<ring, WE, handler>>
ProgramWrite ==
  /\ handler = Idle /\ program.at = "write" /\ ring + program.length <= Ring
  /\ DriverWrite(program.length)
  /\ program' = Idle /\ echo' = <<>>
  /\ UNCHANGED <<level, fifo, handler, clock, dropped>>

\* alt_log_write.
Echo(text) ==
  LET length == IF ECHO_LEN > Len(text) THEN Len(text) ELSE ECHO_LEN
      Escaped(c) == IF c = "ctrl-D" THEN "D" ELSE c
  IN  IF length < 2 THEN <<>>
      ELSE [i \in 1 .. length + 1 |->
              IF i = length THEN "\n" ELSE IF i = length + 1 THEN "\r"
              ELSE Escaped(text[i])]
Write(text) ==
  /\ handler = Idle /\ program = Idle
  /\ echo' = IF WRITE THEN Echo(text) ELSE <<>>
  /\ program' = IF echo' = <<>> THEN [at |-> "write", length |-> Len(text)]
                ELSE Printing("echo", echo', Len(text))
  /\ UNCHANGED <<level, fifo, ring, WE, handler, clock, dropped>>

\* The JTAG UART's interrupt: the log first, then the driver's loop.
WI == WE /\ Depth - Len(fifo) >= Threshold
Interrupt ==
  /\ handler = Idle /\ program.at # "boot" /\ WI
  /\ handler' = IF ISR THEN Printing("isr", Message, 0) ELSE [at |-> "transmit"]
  /\ UNCHANGED <<level, fifo, ring, WE, program, echo, clock, dropped>>
\* The write interrupt is turned off when nothing is left to send.
TurnsOffAlways(n, space) == n <= space
TurnsOff(n, space) == n < space
Transmit ==
  LET space == Depth - Len(fifo)
      n == IF ~ WI THEN 0 ELSE IF ring < space THEN ring ELSE space
  IN  /\ handler.at = "transmit"
      /\ fifo' = fifo \o [i \in 1 .. n |-> <<"driver", "a">>]
      /\ ring' = ring - n
      /\ WE' = (WE /\ ~ (WI /\ TurnsOff(n, space)))
      /\ handler' = Idle
      /\ UNCHANGED <<level, program, echo, clock, dropped>>
HandlerPoll == /\ Poll(handler)
               /\ handler' = [handler EXCEPT !.at = "put"]
               /\ UNCHANGED program
HandlerPut ==
  /\ Put(handler)
  /\ handler' = IF Len(handler.left) > 1 THEN Rest(handler)
                ELSE IF handler.kind = "isr" THEN [at |-> "transmit"]
                ELSE IF handler.kind = "clock" /\ report = 0
                     THEN Printing("report", Message, 0)
                ELSE Idle
  /\ UNCHANGED <<ring, WE, program>>

\* The system clock ticks: alt_log_system_clock, then the alarm that calls
\* altera_avalon_jtag_uart_report_log.
Tick ==
  LET count == IF SYS_CLK THEN alt_log_sys_clk_count + 1 ELSE 0
      beat == count > INTERVAL
      left == IF report <= 0 THEN IF report = 0 THEN TICKS ELSE -1 ELSE report
  IN  /\ Timer /\ handler = Idle /\ program.at # "boot"
      /\ alt_log_sys_clk_count' = IF beat THEN 0 ELSE count
      /\ report' = IF left = -1 THEN -1 ELSE left - 1
      /\ handler' = IF beat THEN Printing("clock", Message, 0)
                    ELSE IF report' = 0 THEN Printing("report", Message, 0)
                    ELSE Idle
      /\ UNCHANGED <<level, fifo, ring, WE, program, echo, dropped>>

HostTakes == /\ fifo # <<>> /\ fifo' = Tail(fifo)
             /\ UNCHANGED <<level, ring, WE, program, handler, echo, clock, dropped>>

Program == \/ TxLogStr \/ DriverInit
           \/ ProgramPoll \/ ProgramPut \/ ProgramWrite
Handler == HandlerPoll \/ HandlerPut \/ Transmit
Next == \/ Program \/ Handler \/ Interrupt \/ Tick \/ HostTakes
        \/ \E t \in Texts : Write(t)
Spec == Init /\ [][Next]_vars
\* The host goes on reading, an interrupt is taken and its handler runs, and
\* the program gets a turn again and again between the handlers.
FairSpec == Spec /\ WF_vars(HostTakes) /\ WF_vars(Handler)
                 /\ SF_vars(Interrupt) /\ SF_vars(Program)
-----------------------------------------------------------------------------
TypeOK == /\ Len(fifo) <= Depth /\ ring \in 0 .. Ring /\ WE \in BOOLEAN
          /\ Len(echo) <= ECHO_LEN + 1
          /\ alt_log_sys_clk_count \in 0 .. INTERVAL /\ report \in -1 .. TICKS
          /\ program.at \in {"boot", "idle", "poll", "put", "write"}
          /\ handler.at \in {"idle", "poll", "put", "transmit"}

\* alt_log_printf.h:122 lists what each level turns on, "All logging output is
\* off" for -1: no message of another kind is ever printed.
Listed == CASE level = -1 -> {}
            [] level = 0 -> {"boot"}
            [] level = 1 -> {"boot", "clock", "startup"}
            [] level = 2 -> {"boot", "clock", "startup", "echo", "report"}
            [] level = 3 -> {"boot", "clock", "startup", "echo", "report", "isr"}
OnlyWhatIsOn == \A i \in 1 .. Len(fifo) : fifo[i][1] \in Listed \cup {"driver"}

\* Two writers of one FIFO: what a handler logs, and what the driver sends, is
\* never dropped, whatever it interrupted; only the program's messages can be.
HandlersLoseNothing == dropped \subseteq {"startup", "boot", "echo"}

\* A Ctrl-D that is echoed "might kill the terminal connection of alt_log"
\* (alt_log_printf.c:453): none is.
NoCtrlDEchoed == \A i \in 1 .. Len(fifo) : fifo[i] # <<"echo", "ctrl-D">>

\* Every message comes to its end: a handler's once the host has made room
\* for it, and with it the handler; the program's although handlers print in
\* between.
HandlersEnd == handler # Idle ~> handler = Idle
PrintingEnds == program.at \in {"boot", "poll", "put"} ~>
                  program.at \in {"idle", "write"}

\* The host gets through with what it is sent, again and again, between two
\* messages of handlers.  (Without that the messages of the clock alone can
\* keep the FIFO full whenever no handler runs.)
HostKeepsUp == []<>(handler = Idle /\ fifo = <<>>)

\* While the host keeps up, write() returns in spite of its echo, and what is
\* in the driver's ring is sent in spite of what is logged.
WriteReturns == program # Idle ~> program = Idle
DriverSends == ring > 0 ~> \E i \in 1 .. Len(fifo) : fifo[i][1] = "driver"
NothingWaits == /\ HandlersEnd
                /\ HostKeepsUp => PrintingEnds
                /\ level # 3 /\ HostKeepsUp => WriteReturns /\ DriverSends

\* alt_log_printf.h:130 says of level 3 that it "will slow performance
\* significantly".
OnlySlower == HostKeepsUp => DriverSends

\* alt_log_printf.c:97 says: "Wait until the device is ready for a character",
\* and then: "And pop the character into the register".
NothingDropped == dropped = {}

\* alt_log_printf.c:437 says: "The first ALT_LOG_WRITE_ECHO_LEN characters of
\* every printf command [...] gets echoed to the alt_log output."
FirstAreEchoed ==
  [][\A t \in Texts : Write(t) /\ WRITE =>
       \A i \in 1 .. Len(t) :
         i <= ECHO_LEN => i \in DOMAIN echo' /\ echo'[i] = t[i]]_vars

\* alt_log_printf.c:465 says of alt_log_system_clock that it "prints out a
\* system clock is alive message every ALT_LOG_SYS_CLK_INTERVAL (in ticks)":
\* the ticks since the last one never get that far.
BeatsEveryInterval == alt_log_sys_clk_count < INTERVAL
=============================================================================
