------------------------------ MODULE JtagUart ------------------------------
(***************************************************************************)
(* The interrupt-driven driver of the JTAG UART, through which the program *)
(* prints and through which it could read: altera_avalon_jtag_uart_init.c, *)
(* _read.c, _write.c, _ioctl.c.  One program calls it, the interrupt       *)
(* routine runs between any two of the program's accesses to the shared    *)
(* state, and the host at the other end of the cable empties and fills the *)
(* device's two FIFOs whenever it likes.                                   *)
(*                                                                         *)
(* The board has no timer (ALT_SYS_CLK is none in system.h): HasClock is   *)
(* FALSE there, the alarm cannot be set, and the driver waits for ever.    *)
(* The control register of the device always holds irq_enable: both are    *)
(* written with interrupts off.  The program is compiled without           *)
(* optimisation, so its accesses happen in the order of the source.        *)
(***************************************************************************)
EXTENDS Integers, Sequences, FiniteSets

CONSTANTS BufLen,     \* ALTERA_AVALON_JTAG_UART_BUF_LEN, 2048
          Depth,      \* of the device's FIFOs, JTAG_UART_0_WRITE_DEPTH, 64
          Threshold,  \* JTAG_UART_0_WRITE_THRESHOLD, 8
          HasClock,   \* whether alt_alarm_start succeeds
          TimeOut,    \* ALTERA_AVALON_JTAG_UART_DEFAULT_TIMEOUT, 10
          IntMax,     \* INT_MAX
          Bytes,      \* the characters
          Typed,      \* those the host sends
          Messages,   \* what the program writes
          Spaces,     \* how much it reads at a time
          Flags,      \* {FALSE}, or with TRUE for O_NONBLOCK
          Requests,   \* arguments of ioctl's TIOCSTIMEOUT
          Connected   \* whether there may be a host at all

ASSUME BufAssumption == BufLen \in Nat /\ BufLen > 1
ASSUME DepthAssumption == Depth \in Nat \ {0} /\ Threshold \in 0 .. Depth - 1
ASSUME TimeAssumption == /\ HasClock \in BOOLEAN /\ Connected \in BOOLEAN
                         /\ TimeOut \in Nat \ {0} /\ IntMax \in Nat
                         /\ TimeOut < IntMax /\ IntMax > 2
ASSUME DataAssumption == /\ Typed \subseteq Bytes
                         /\ Messages \subseteq Seq(Bytes)
                         /\ Spaces \subseteq Nat \ {0}
                         /\ Flags \subseteq BOOLEAN
                         /\ Requests \subseteq Int

VARIABLES tx_in, tx_out, tx_buf, rx_in, rx_out, rx_buf,
          irq_enable,     \* the set of interrupts enabled at the device
          host_inactive, timeout,
          isr,            \* locals of the interrupt routine and its position
          prog,           \* locals of the call under way and its position
          txfifo, rxfifo, \* of the device
          ac              \* the device's activity bit

ring == <<tx_in, tx_out, tx_buf, rx_in, rx_out, rx_buf>>
driver == <<irq_enable, host_inactive, timeout>>
device == <<txfifo, rxfifo, ac>>
vars == <<ring, driver, isr, prog, device>>

Index == 0 .. BufLen - 1
\* The bytes of a circular buffer from index out up to index in.
Content(buf, out, in) ==
  [i \in 1 .. (in - out) % BufLen |-> buf[(out + i - 1) % BufLen]]
\* buf after a memcpy of bytes to its index in on.
Copied(buf, in, bytes) ==
  [i \in Index |-> IF i - in + 1 \in DOMAIN bytes THEN bytes[i - in + 1]
                                                   ELSE buf[i]]
After(s, n) == SubSeq(s, n + 1, Len(s))
Least(a, b) == IF a < b THEN a ELSE b

Idle == [pc |-> "idle", nonblock |-> FALSE, msg |-> <<>>, in |-> 0,
         out |-> 0, n |-> 0, data |-> <<>>, given |-> <<>>, space |-> 0,
         result |-> "none"]
IsrIdle == [pc |-> "idle", wi |-> FALSE, space |-> 0, more |-> FALSE]

\* The instance is zeroed but for its timeout; the initialisation enables the
\* read interrupt and tries to set the alarm.
Init == /\ tx_in = 0 /\ tx_out = 0 /\ rx_in = 0 /\ rx_out = 0
        /\ \E z \in Bytes : tx_buf = [i \in Index |-> z] /\ rx_buf = tx_buf
        /\ irq_enable = {"RE"}
        /\ host_inactive = 0
        /\ timeout = IF HasClock THEN TimeOut ELSE IntMax
        /\ isr = IsrIdle /\ prog = Idle
        /\ txfifo = <<>> /\ rxfifo = <<>> /\ ac = FALSE

Inactive == host_inactive >= timeout
At(l) == prog.pc = l /\ isr.pc = "idle"
Go(l, r) == prog' = [r EXCEPT !.pc = l]

-----------------------------------------------------------------------------
(* altera_avalon_jtag_uart_write *)

WriteCall == /\ At("idle")
             /\ \E m \in Messages, f \in Flags :
                  Go("measure", [Idle EXCEPT !.msg = m, !.nonblock = f])
             /\ UNCHANGED <<ring, driver, isr, device>>

\* The free places that lie in one piece, from the in and out of this moment.
RoomWithoutGap(in, out) == IF in < out THEN out - 1 - in ELSE BufLen - in
Room(in, out) == IF in < out THEN out - 1 - in
                 ELSE IF out > 0 THEN BufLen - in ELSE BufLen - 1 - in

WriteMeasure ==
  /\ At("measure")
  /\ LET n == Least(Room(tx_in, tx_out), Len(prog.msg))
     IN  IF n = 0
         THEN Go("kick", IF prog.msg = <<>> THEN prog ELSE
                           [prog EXCEPT !.in = tx_in, !.out = tx_out])
         ELSE Go("copy", [prog EXCEPT !.in = tx_in, !.out = tx_out, !.n = n])
  /\ UNCHANGED <<ring, driver, isr, device>>

WriteCopy == /\ At("copy")
             /\ tx_buf' = Copied(tx_buf, prog.in, SubSeq(prog.msg, 1, prog.n))
             /\ Go("publish", prog)
             /\ UNCHANGED <<tx_in, tx_out, rx_in, rx_out, rx_buf>>
             /\ UNCHANGED <<driver, isr, device>>

WritePublish == /\ At("publish")
                /\ tx_in' = (prog.in + prog.n) % BufLen
                /\ Go("measure", [prog EXCEPT !.msg = After(@, prog.n),
                                              !.result = "count"])
                /\ UNCHANGED <<tx_out, tx_buf, rx_in, rx_out, rx_buf>>
                /\ UNCHANGED <<driver, isr, device>>

\* Interrupts are off while irq_enable and the device are updated.
WriteKickWaiting == /\ At("kick")
                    /\ irq_enable' = IF prog.msg = <<>> THEN irq_enable
                                     ELSE irq_enable \cup {"WE"}
                    /\ Go(IF prog.msg = <<>> \/ prog.nonblock THEN "return"
                                                              ELSE "spin", prog)
                    /\ UNCHANGED <<host_inactive, timeout, ring, isr, device>>
WriteKick == /\ At("kick")
             /\ irq_enable' = irq_enable \cup {"WE"}
             /\ Go(IF prog.msg = <<>> \/ prog.nonblock THEN "return"
                                                       ELSE "spin", prog)
             /\ UNCHANGED <<host_inactive, timeout, ring, isr, device>>

WriteSpin == /\ At("spin")
             /\ prog.out # tx_out \/ Inactive
             /\ Go("check", prog)
             /\ UNCHANGED <<ring, driver, isr, device>>

WriteCheck == /\ At("check")
              /\ Go(IF host_inactive > 0 THEN "return" ELSE "measure", prog)
              /\ UNCHANGED <<ring, driver, isr, device>>

\* The count of bytes accepted, or an error when there are none.
WriteReturn ==
  /\ At("return")
  /\ prog' = [Idle EXCEPT !.result =
       IF prog.result = "count" THEN "count"
       ELSE IF prog.nonblock THEN "EWOULDBLOCK" ELSE "EIO"]
  /\ UNCHANGED <<ring, driver, isr, device>>

Write == \/ WriteCall \/ WriteMeasure \/ WriteCopy \/ WritePublish
         \/ WriteKick \/ WriteSpin \/ WriteCheck \/ WriteReturn

-----------------------------------------------------------------------------
(* altera_avalon_jtag_uart_read *)

ReadCall == /\ At("idle")
            /\ \E s \in Spaces, f \in Flags :
                 Go("rmeasure", [Idle EXCEPT !.space = s, !.nonblock = f])
            /\ UNCHANGED <<ring, driver, isr, device>>

ReadMeasure ==
  /\ At("rmeasure")
  /\ LET there == IF rx_in >= rx_out THEN rx_in - rx_out ELSE BufLen - rx_out
         r     == [prog EXCEPT !.in = rx_in, !.out = rx_out,
                               !.n = Least(there, prog.space)]
     IN  IF there # 0 THEN Go("rcopy", r)
         ELSE Go(IF prog.given # <<>> \/ prog.nonblock THEN "rpost"
                                                       ELSE "rspin", r)
  /\ UNCHANGED <<ring, driver, isr, device>>

ReadCopy == /\ At("rcopy")
            /\ Go("rpublish", [prog EXCEPT !.data =
                    [i \in 1 .. prog.n |-> rx_buf[prog.out + i - 1]]])
            /\ UNCHANGED <<ring, driver, isr, device>>

ReadPublish ==
  /\ At("rpublish")
  /\ rx_out' = (prog.out + prog.n) % BufLen
  /\ Go(IF prog.space > prog.n THEN "rmeasure" ELSE "rpost",
        [prog EXCEPT !.given = @ \o prog.data, !.data = <<>>,
                     !.space = @ - prog.n])
  /\ UNCHANGED <<tx_in, tx_out, tx_buf, rx_in, rx_buf, driver, isr, device>>

ReadSpin == /\ At("rspin")
            /\ prog.in # rx_in \/ Inactive
            /\ Go(IF prog.in = rx_in THEN "rpost" ELSE "rmeasure", prog)
            /\ UNCHANGED <<ring, driver, isr, device>>

\* If anything was read there is room again: interrupts on, with the
\* processor's off meanwhile.
ReadReturn ==
  /\ At("rpost")
  /\ irq_enable' = IF prog.given = <<>> THEN irq_enable
                                        ELSE irq_enable \cup {"RE"}
  /\ prog' = [Idle EXCEPT !.result =
       IF prog.given # <<>> THEN "count"
       ELSE IF prog.nonblock THEN "EWOULDBLOCK" ELSE "EIO"]
  /\ UNCHANGED <<host_inactive, timeout, ring, isr, device>>

Read == \/ ReadCall \/ ReadMeasure \/ ReadCopy \/ ReadPublish \/ ReadSpin
        \/ ReadReturn

-----------------------------------------------------------------------------
(* altera_avalon_jtag_uart_close and _ioctl *)

CloseCall == /\ At("idle")
             /\ \E f \in Flags : Go("close", [Idle EXCEPT !.nonblock = f])
             /\ UNCHANGED <<ring, driver, isr, device>>

Drained == tx_out = tx_in \/ Inactive
Close == /\ At("close")
         /\ Drained \/ prog.nonblock
         /\ prog' = [Idle EXCEPT !.result = IF Drained THEN "closed"
                                                       ELSE "EWOULDBLOCK"]
         /\ UNCHANGED <<ring, driver, isr, device>>

\* Both requests are refused when there is no clock.
SetTimeout == /\ At("idle") /\ timeout # IntMax
              /\ \E t \in Requests :
                   timeout' = IF t \in 2 .. IntMax - 1 THEN t ELSE IntMax - 1
              /\ UNCHANGED <<irq_enable, host_inactive, ring, isr, prog, device>>
GetConnected == /\ At("idle") /\ timeout # IntMax
                /\ prog' = [Idle EXCEPT !.result = IF Inactive THEN "gone"
                                                              ELSE "connected"]
                /\ UNCHANGED <<ring, driver, isr, device>>

-----------------------------------------------------------------------------
(* altera_avalon_jtag_uart_irq *)

RI == "RE" \in irq_enable /\ rxfifo # <<>>
WI == "WE" \in irq_enable /\ Len(txfifo) <= Threshold

Interrupt == /\ isr.pc = "idle"
             /\ RI \/ WI
             /\ isr' = [isr EXCEPT !.pc = "control"]
             /\ UNCHANGED <<ring, driver, prog, device>>

IsrControl ==
  /\ isr.pc = "control"
  /\ isr' = IF ~ RI /\ ~ WI THEN IsrIdle
            ELSE [pc |-> IF RI THEN "rx" ELSE "tx", wi |-> WI,
                  space |-> Depth - Len(txfifo), more |-> RI]
  /\ UNCHANGED <<ring, driver, prog, device>>

\* One turn of the receive loop: stop when the buffer is full or the FIFO
\* empty.
RxFull == (rx_in + 1) % BufLen = rx_out
IsrRx ==
  /\ isr.pc = "rx"
  /\ \/ /\ RxFull
        /\ isr' = [isr EXCEPT !.pc = "rxend"]
        /\ UNCHANGED <<ring, device>>
     \/ /\ ~ RxFull /\ rxfifo = <<>>
        /\ isr' = [isr EXCEPT !.pc = "rxend", !.more = FALSE]
        /\ UNCHANGED <<ring, device>>
     \/ /\ ~ RxFull /\ rxfifo # <<>>
        /\ rx_buf' = [rx_buf EXCEPT ![rx_in] = Head(rxfifo)]
        /\ rx_in' = (rx_in + 1) % BufLen
        /\ rxfifo' = Tail(rxfifo)
        /\ isr' = [isr EXCEPT !.more = Tail(rxfifo) # <<>>]
        /\ UNCHANGED <<tx_in, tx_out, tx_buf, rx_out, txfifo, ac>>
  /\ UNCHANGED <<driver, prog>>

\* More in the FIFO than fits: no more receive interrupts until a read.
IsrRxEndOn == /\ isr.pc = "rxend"
              /\ isr' = [isr EXCEPT !.pc = IF isr.wi THEN "tx" ELSE "control"]
              /\ UNCHANGED <<driver, ring, prog, device>>
IsrRxEnd == /\ isr.pc = "rxend"
            /\ irq_enable' = IF isr.more THEN irq_enable \ {"RE"}
                                         ELSE irq_enable
            /\ isr' = [isr EXCEPT !.pc = IF isr.wi THEN "tx" ELSE "control"]
            /\ UNCHANGED <<host_inactive, timeout, ring, prog, device>>

\* One turn of the transmit loop, and its end: with nothing left to send, no
\* more transmit interrupts.
IsrTx ==
  /\ isr.pc = "tx"
  /\ \/ /\ isr.space > 0 /\ tx_out # tx_in
        /\ txfifo' = Append(txfifo, tx_buf[tx_out])
        /\ tx_out' = (tx_out + 1) % BufLen
        /\ isr' = [isr EXCEPT !.space = @ - 1]
        /\ UNCHANGED <<tx_in, tx_buf, rx_in, rx_out, rx_buf, irq_enable,
                       rxfifo, ac>>
     \/ /\ isr.space = 0 \/ tx_out = tx_in
        /\ irq_enable' = IF isr.space > 0 THEN irq_enable \ {"WE"}
                                          ELSE irq_enable
        /\ isr' = [isr EXCEPT !.pc = "control"]
        /\ UNCHANGED <<ring, device>>
  /\ UNCHANGED <<host_inactive, timeout, prog>>

Isr == IsrControl \/ IsrRx \/ IsrRxEnd \/ IsrTx

-----------------------------------------------------------------------------
(* altera_avalon_jtag_uart_timeout, called every second if there is a clock;*)
(* and the host                                                             *)

Alarm == /\ HasClock /\ isr.pc = "idle"
         /\ IF ac THEN host_inactive' = 0 /\ ac' = FALSE
            ELSE /\ host_inactive' = host_inactive +
                                       (IF host_inactive < IntMax - 2 THEN 1
                                                                      ELSE 0)
                 /\ UNCHANGED ac
         /\ UNCHANGED <<irq_enable, timeout, ring, isr, prog, txfifo, rxfifo>>

HostTake == /\ Connected /\ txfifo # <<>>
            /\ txfifo' = Tail(txfifo)
            /\ ac' = TRUE
            /\ UNCHANGED <<ring, driver, isr, prog, rxfifo>>
HostType == /\ Connected /\ Len(rxfifo) < Depth
            /\ \E b \in Typed : rxfifo' = Append(rxfifo, b)
            /\ ac' = TRUE
            /\ UNCHANGED <<ring, driver, isr, prog, txfifo>>

Program == Write \/ Read \/ CloseCall \/ Close \/ SetTimeout \/ GetConnected
Next == Program \/ Interrupt \/ Isr \/ Alarm \/ HostTake \/ HostType
Spec == Init /\ [][Next]_vars

\* What is under way at a processor goes on: interrupts are taken, and the
\* program takes its next step when no interrupt keeps it from doing so.
Processor == /\ WF_vars(Isr) /\ WF_vars(Interrupt)
             /\ SF_vars(Program /\ prog.pc # "idle")
FairSpec == Spec /\ Processor /\ WF_vars(Alarm)
-----------------------------------------------------------------------------
Labels == {"idle", "measure", "copy", "publish", "kick", "spin", "check",
           "return", "rmeasure", "rcopy", "rpublish", "rspin", "rpost", "close"}
Results == {"none", "count", "EIO", "EWOULDBLOCK", "closed", "gone",
            "connected"}
TypeOK ==
  /\ tx_in \in Index /\ tx_out \in Index /\ tx_buf \in [Index -> Bytes]
  /\ rx_in \in Index /\ rx_out \in Index /\ rx_buf \in [Index -> Bytes]
  /\ irq_enable \subseteq {"RE", "WE"}
  /\ host_inactive \in 0 .. IntMax - 2 /\ timeout \in Nat
  /\ txfifo \in Seq(Bytes) /\ Len(txfifo) <= Depth
  /\ rxfifo \in Seq(Bytes) /\ Len(rxfifo) <= Depth /\ ac \in BOOLEAN
  /\ isr \in [pc : {"idle", "control", "rx", "rxend", "tx"}, wi : BOOLEAN,
              space : 0 .. Depth - Len(txfifo), more : BOOLEAN]
  /\ prog \in [pc : Labels, nonblock : BOOLEAN, msg : Seq(Bytes), in : Index,
               out : Index, n : Index, data : Seq(Bytes), given : Seq(Bytes),
               space : Nat, result : Results]

\* Nothing waits to be sent with the transmit interrupt off, unless the
\* program is about to turn it on: no wakeup is lost between the interrupt
\* routine's last look at the buffer and the write that fills it.
SendingGoesOn ==
  tx_in # tx_out => \/ "WE" \in irq_enable
                    \/ prog.pc \in {"measure", "copy", "publish", "kick"}

\* The receive interrupt is off only while the buffer is full or a read that
\* has made room is about to turn it on.
ReceivingGoesOn ==
  "RE" \notin irq_enable => \/ RxFull
                            \/ /\ prog.given # <<>>
                               /\ prog.pc \in {"rmeasure", "rcopy",
                                               "rpublish", "rpost"}

\* So neither direction is ever stuck with its interrupt off.
NeverStuck == SendingGoesOn /\ ReceivingGoesOn

\* Bytes arrive once and in order, both ways, whatever the interleaving of
\* the program, the interrupt routine and the host.
Stream == INSTANCE ByteStream WITH
            asked <- prog.msg,
            toHost <- txfifo \o Content(tx_buf, tx_out, tx_in),
            fromHost <- Content(rx_buf, rx_out, rx_in) \o rxfifo,
            given <- prog.given
ImplementsStream == Stream!Spec

\* With a clock a call returns sooner or later, host or no host.
CallsReturn == prog.pc # "idle" ~> prog.pc = "idle"

\* A write that fails gives up when the host counts as gone (TIOCGCONNECTED,
\* _ioctl.c:74): _write.c:214 says of its error "Host not connected".
ErrorMeansNoHost ==
  [][WriteCheck /\ prog'.pc = "return" => prog.result = "count" \/ Inactive]_vars
=============================================================================
