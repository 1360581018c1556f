----------------------------- MODULE MCJtagUart -----------------------------
(***************************************************************************)
(* The driver with a ring of three bytes, in one of five settings, chosen  *)
(* at the start.  Three are the board's, which has no clock: the program   *)
(* only sends, only receives, or does both.  Two have a clock, with the    *)
(* program sending and asking in vain, or receiving only.                  *)
(***************************************************************************)
EXTENDS JtagUart

Two == {"a", "b"}
None == {}
Request == {2}
Both == BOOLEAN

VARIABLE setting
everything == <<vars, setting>>

Send == INSTANCE JtagUart WITH
          Typed <- {}, Messages <- {<<"a", "b", "b">>, <<"b">>}
Receive == INSTANCE JtagUart WITH Spaces <- {1, 2}
Duplex == INSTANCE JtagUart WITH
            Depth <- 1, Threshold <- 0, Bytes <- {"a"}, Typed <- {"a"},
            Messages <- {<<"a", "a", "a">>}, Spaces <- {1}, Flags <- {FALSE}
ClockedSend == INSTANCE JtagUart WITH
                 HasClock <- TRUE, Depth <- 1, Threshold <- 0, Bytes <- {"a"},
                 Typed <- {}, Messages <- {<<"a", "a", "a">>}, Spaces <- {1},
                 Flags <- {FALSE}
ClockedReceive == INSTANCE JtagUart WITH
                    HasClock <- TRUE, Depth <- 1, Threshold <- 0,
                    Bytes <- {"a"}, Typed <- {"a"}, Spaces <- {1}

MCInit == \/ setting = "send" /\ Send!Init
          \/ setting = "receive" /\ Receive!Init
          \/ setting = "duplex" /\ Duplex!Init
          \/ setting = "clocked send" /\ ClockedSend!Init
          \/ setting = "clocked receive" /\ ClockedReceive!Init
MCNext == /\ \/ setting = "send" /\ Send!Next
             \/ setting = "receive" /\ Receive!Next
             \/ setting = "duplex" /\ Duplex!Next
             \/ setting = "clocked send" /\ ClockedSend!Next
             \/ setting = "clocked receive" /\ ClockedReceive!Next
          /\ UNCHANGED setting

\* The processor is fair, and the clock where there is one; where the program
\* only sends, the host takes what it is sent.
Clocked == setting \in {"clocked send", "clocked receive"}
GoesOn == /\ prog.pc # "idle" /\ UNCHANGED setting
          /\ \/ setting = "send" /\ Send!Program
             \/ setting = "clocked send" /\ ClockedSend!Program
             \/ setting = "clocked receive" /\ ClockedReceive!Program
Small == setting \in {"duplex", "clocked send", "clocked receive"}
Interrupted == /\ UNCHANGED setting
               /\ IF Small THEN Duplex!Interrupt ELSE Interrupt
Serves == /\ UNCHANGED setting
          /\ IF Small THEN Duplex!Isr ELSE Isr
Ticks == Clocked /\ ClockedSend!Alarm /\ UNCHANGED setting
Takes == setting = "send" /\ HostTake /\ UNCHANGED setting
MCFairSpec == /\ MCInit /\ [][MCNext]_everything
              /\ WF_everything(Interrupted)
              /\ WF_everything(Serves)
              /\ SF_everything(GoesOn)
              /\ WF_everything(Ticks)
              /\ WF_everything(Takes)

\* Every call returns: with a clock, host or no host; without one, a write or
\* a close, if the host takes what it is sent.  (Without a clock a read waits
\* for the host for ever.)
EveryCallReturns == (Clocked \/ setting = "send") => CallsReturn
=============================================================================
