------------------------------ MODULE UsbHost ------------------------------
(***************************************************************************)
(* The program that brings up the USB keyboard and polls it (main.c, and   *)
(* the waiting functions of usb.c), with the USB controller it drives and  *)
(* the keyboard.  The program writes a list of transfers into the          *)
(* controller's memory, points the controller to it, and is told by a      *)
(* message word and a flag that a list is done.  The controller and the    *)
(* keyboard go their own pace between any two of its accesses.             *)
(*                                                                         *)
(* The controller (a CY7C67200 with its BIOS) is external: it is modelled  *)
(* as main.c and usb.c use it.  Prompt says that it never gets on with a   *)
(* list in the microseconds between a look at the flag and the restart of  *)
(* the list, only while the program sleeps.  Patient says that the         *)
(* keyboard is pulled out only while it is polled, and put back only after *)
(* the program has noticed.                                                *)
(***************************************************************************)
EXTENDS Naturals, Sequences

CONSTANTS Prompt,    \* see above
          Patient,   \* see above
          Pulled,    \* whether the keyboard is ever pulled out
          Notices,   \* whether the controller reports that
          Refuses,   \* whether it may fail to acknowledge a command
          OtherBits, \* whether more of HPI_STATUS is set than the model has
          Retries,   \* what a transfer that met errors leaves in its byte 8
          Reports,   \* what the keyboard says: pairs of two keys each
          NoKeys     \* the report of no key

ASSUME UsbAssumption ==
  /\ {Prompt, Patient, Pulled, Notices, Refuses, OtherBits} \subseteq BOOLEAN
  /\ Retries \subseteq 0 .. 2
  /\ NoKeys \in Reports
  /\ \A r \in Reports : r = <<r[1], r[2]>>

VARIABLES pc, step,     \* of main: where, and which list it is about
          tries,        \* hot_plug_count
          toggle,       \* its lowest bit
          ports,        \* KEYCODE_BASE and KKK, which the game reads
          mail,         \* the mailbox: of which command, and whether an ack
          cmd,          \* the command the controller has not yet taken
          mem,          \* the list in its memory
          run,          \* what it does with it
          msg, flag,    \* SIE1msg and its flag in HPI_STATUS
          buf,          \* the report's bytes 2 to 5, at 0x051e
          kb            \* the keyboard

main == <<pc, step, tries, toggle, ports>>
chip == <<mail, cmd, mem, run, msg, flag, buf>>
vars == <<main, chip, kb>>

\* The steps of main, in order: what each asks the keyboard.
Lists == <<"set address", "device 1", "device 2", "config 1", "config 2",
           "set config", "class request", "hid", "report", "poll">>
Poll == Len(Lists)
Polling == step = Poll
List == Lists[step]

Active == 19   \* 0x13: not carried out yet, three retries left
Good == 3      \* carried out at the first attempt

Off == [at |-> "off", list |-> "none"]
Away == [here |-> FALSE, address |-> 0, configured |-> FALSE, bit |-> 0,
         report |-> NoKeys, pending |-> FALSE, news |-> FALSE]

Init == /\ pc = "hotplug" /\ step = 1 /\ tries = 0 /\ toggle = 0
        /\ ports = <<NoKeys[1], NoKeys[2]>>
        /\ mail = [of |-> "none", ack |-> FALSE, full |-> FALSE]
        /\ cmd = "none"
        /\ mem = [list |-> "none", ctl |-> 0, bit |-> 0]
        /\ run = Off /\ msg = {} /\ flag = FALSE
        /\ buf = NoKeys
        /\ \E here \in {TRUE, ~ Pulled} : kb = [Away EXCEPT !.here = here]

Goto(l) == pc' = l
-----------------------------------------------------------------------------
(* Steps 1 and 2: the controller *)

\* UsbSoftReset, and the register writes of step 1a.  The BIOS leaves
\* garbage, or an ack, in the mailbox; reading it empties it.
SoftReset == /\ pc = "hotplug"
             /\ run' = Off /\ msg' = {} /\ flag' = FALSE /\ cmd' = "none"
             /\ \E a \in BOOLEAN :
                  mail' = [of |-> "none", ack |-> a, full |-> FALSE]
             /\ step' = 1 /\ tries' = 0
             /\ Goto("init")
             /\ UNCHANGED <<toggle, ports, mem, buf, kb>>

Execute(c, next) == /\ cmd' = c
                    /\ Goto(next)
                    /\ UNCHANGED <<step, tries, toggle, ports>>
                    /\ UNCHANGED <<mail, mem, run, msg, flag, buf, kb>>
\* The answer is read once: anything but an ack starts over.
ReadMailbox(next) == /\ mail' = [mail EXCEPT !.full = FALSE]
                     /\ Goto(IF mail.ack THEN next ELSE "hotplug")
                     /\ UNCHANGED <<step, tries, toggle, ports>>
                     /\ UNCHANGED <<cmd, mem, run, msg, flag, buf, kb>>

InitSie == pc = "init" /\ Execute("init", "init wait")
\* Any bit of HPI_STATUS ends the wait.
InitWait == /\ pc = "init wait"
            /\ mail.full \/ flag \/ OtherBits
            /\ Goto("init read")
            /\ UNCHANGED <<step, tries, toggle, ports, chip, kb>>
InitRead == pc = "init read" /\ ReadMailbox("reset")
ResetUsb == pc = "reset" /\ Execute("reset", "reset read")
ResetRead == pc = "reset read" /\ ReadMailbox("look")

\* Is there a keyboard?  After five more looks, wait for one and start over.
LookFor == /\ pc = "look"
           /\ IF kb.here THEN Goto("write") /\ UNCHANGED tries
              ELSE IF tries < 5 THEN tries' = tries + 1 /\ UNCHANGED pc
              ELSE Goto("absent") /\ UNCHANGED tries
           /\ UNCHANGED <<step, toggle, ports, chip, kb>>
Absent == /\ pc = "absent" /\ kb.here
          /\ Goto("hotplug")
          /\ UNCHANGED <<step, tries, toggle, ports, chip, kb>>

Start == \/ SoftReset \/ InitSie \/ InitWait \/ InitRead \/ ResetUsb
         \/ ResetRead \/ LookFor \/ Absent

-----------------------------------------------------------------------------
(* Steps 3 to 9: send a list, wait until it is done, look at its result *)

WriteList == /\ pc = "write"
             /\ mem' = [list |-> List, ctl |-> Active,
                        bit |-> IF Polling THEN 1 - toggle ELSE 1]
             /\ Goto("kick")
             /\ UNCHANGED <<step, tries, toggle, ports>>
             /\ UNCHANGED <<mail, cmd, run, msg, flag, buf, kb>>
\* The list pointer is written: the controller starts at the first transfer.
Kick == /\ pc = "kick"
        /\ run' = [at |-> "first", list |-> List]
        /\ Goto("flag")
        /\ UNCHANGED <<step, tries, toggle, ports>>
        /\ UNCHANGED <<mail, cmd, mem, msg, flag, buf, kb>>
\* No message yet: send the list again, and sleep.
LookAtFlag == /\ pc = "flag"
              /\ Goto(IF flag THEN "wait" ELSE "write")
              /\ UNCHANGED <<step, tries, toggle, ports, chip, kb>>

\* UsbWaitTDListDone: the message is read, which clears the flag, and then
\* erased, until it is the one waited for.
Done == {"done"}
WaitReadAny == /\ pc = "wait"
               /\ Goto(IF msg # {} THEN "erase" ELSE "erase more")
               /\ flag' = FALSE
               /\ UNCHANGED <<step, tries, toggle, ports>>
               /\ UNCHANGED <<mail, cmd, mem, run, msg, buf, kb>>
WaitRead == /\ pc = "wait"
            /\ Goto(IF msg = Done THEN "erase" ELSE "erase more")
            /\ flag' = FALSE
            /\ UNCHANGED <<step, tries, toggle, ports>>
            /\ UNCHANGED <<mail, cmd, mem, run, msg, buf, kb>>
WaitErase == /\ pc \in {"erase", "erase more"}
             /\ msg' = {}
             /\ Goto(IF pc = "erase" THEN "check" ELSE "wait")
             /\ UNCHANGED <<step, tries, toggle, ports>>
             /\ UNCHANGED <<mail, cmd, mem, run, flag, buf, kb>>

\* To the next step.  After the second configuration descriptor a faked one
\* is written at 0x0576 and the list pointer is pointed to it.
AdvanceSame == /\ step' = step
               /\ Goto("write")
               /\ run' = IF List = "config 2"
                         THEN [at |-> "rest", list |-> "stray"] ELSE run
Advance == /\ step' = step + 1
           /\ Goto(IF step + 1 = Poll THEN "poll" ELSE "write")
           /\ run' = IF List = "config 2"
                     THEN [at |-> "rest", list |-> "stray"] ELSE run

\* Byte 8 of the first transfer: only an immediate success goes on.
Check == /\ pc = "check"
         /\ \/ Polling /\ Goto("port 1") /\ UNCHANGED <<step, run>>
            \/ ~ Polling /\ mem.ctl = Good /\ Advance
            \/ /\ ~ Polling /\ mem.ctl # Good
               /\ Goto("retry") /\ UNCHANGED <<step, run>>
         /\ UNCHANGED <<tries, toggle, ports>>
         /\ UNCHANGED <<mail, cmd, mem, msg, flag, buf, kb>>

\* UsbGetRetryCnt: the message is read; if it was a done message it is erased
\* and another one waited for; then the byte is read again.
GetRetryCntAny == /\ pc = "retry"
                  /\ Goto(IF msg # {} THEN "retry erase" ELSE "recheck")
                  /\ flag' = FALSE
                  /\ UNCHANGED <<step, tries, toggle, ports>>
                  /\ UNCHANGED <<mail, cmd, mem, run, msg, buf, kb>>
GetRetryCnt == /\ pc = "retry"
               /\ Goto(IF msg = Done THEN "retry erase" ELSE "recheck")
               /\ flag' = FALSE
               /\ UNCHANGED <<step, tries, toggle, ports>>
               /\ UNCHANGED <<mail, cmd, mem, run, msg, buf, kb>>
RetryErase == /\ pc = "retry erase"
              /\ msg' = {}
              /\ Goto("retry wait")
              /\ UNCHANGED <<step, tries, toggle, ports>>
              /\ UNCHANGED <<mail, cmd, mem, run, flag, buf, kb>>
RetryWait == /\ pc = "retry wait" /\ flag
             /\ Goto("recheck")
             /\ UNCHANGED <<step, tries, toggle, ports, chip, kb>>
Recheck == /\ pc = "recheck"
           /\ \/ step = 1 /\ Goto("hotplug") /\ UNCHANGED <<step, run>>
              \/ step # 1 /\ mem.ctl = Good /\ Advance
              \/ /\ step # 1 /\ mem.ctl # Good
                 /\ Goto("retry") /\ UNCHANGED <<step, run>>
           /\ UNCHANGED <<tries, toggle, ports>>
           /\ UNCHANGED <<mail, cmd, mem, msg, flag, buf, kb>>

Transfer == \/ WriteList \/ Kick \/ LookAtFlag \/ WaitRead \/ WaitErase
            \/ Check \/ GetRetryCnt \/ RetryErase \/ RetryWait \/ Recheck

-----------------------------------------------------------------------------
(* The polling loop *)

NextPollSame == /\ pc = "poll"
                /\ tries' = 0
                /\ Goto("write")
                /\ UNCHANGED <<step, toggle, ports, chip, kb>>
NextPoll == /\ pc = "poll"
            /\ toggle' = 1 - toggle
            /\ tries' = 0
            /\ Goto("write")
            /\ UNCHANGED <<step, ports, chip, kb>>
\* Two words of the report go to two ports, one after the other.
Port1 == /\ pc = "port 1"
         /\ ports' = [ports EXCEPT ![1] = buf[1]]
         /\ Goto("port 2")
         /\ UNCHANGED <<step, tries, toggle, chip, kb>>
Port2IfThere ==
  /\ pc = "port 2"
  /\ ports' = IF kb.here THEN [ports EXCEPT ![2] = buf[2]] ELSE ports
  /\ Goto("still")
  /\ UNCHANGED <<step, tries, toggle, chip, kb>>
Port2 == /\ pc = "port 2"
         /\ ports' = [ports EXCEPT ![2] = buf[2]]
         /\ Goto("still")
         /\ UNCHANGED <<step, tries, toggle, chip, kb>>
\* Is the keyboard still there?  After seven more looks it counts as removed.
StillThere == /\ pc = "still"
              /\ IF kb.here THEN Goto("poll") /\ UNCHANGED tries
                 ELSE IF tries < 7 THEN tries' = tries + 1 /\ UNCHANGED pc
                 ELSE Goto("removed") /\ UNCHANGED tries
              /\ UNCHANGED <<step, toggle, ports, chip, kb>>
RemovedToPoll ==
  /\ pc = "removed" /\ kb.here
  /\ Goto("poll")
  /\ UNCHANGED <<step, tries, toggle, ports, chip, kb>>
Removed == /\ pc = "removed" /\ kb.here
           /\ Goto("hotplug")
           /\ UNCHANGED <<step, tries, toggle, ports, chip, kb>>

Loop == NextPoll \/ Port1 \/ Port2 \/ StillThere \/ Removed
Main == Start \/ Transfer \/ Loop

-----------------------------------------------------------------------------
(* The controller (external) *)

\* A command is carried out, and acknowledged or not.  A USB reset brings the
\* keyboard back to address 0.
ChipAnswer ==
  /\ cmd # "none"
  /\ \E a \in {TRUE, ~ Refuses} :
       mail' = [of |-> cmd, ack |-> a, full |-> TRUE]
  /\ cmd' = "none"
  /\ kb' = IF cmd = "reset"
           THEN [kb EXCEPT !.address = 0, !.configured = FALSE, !.bit = 0]
           ELSE [kb EXCEPT !.news = Notices /\ kb.here]
  /\ UNCHANGED <<main, mem, run, msg, flag, buf>>

Undisturbed == Prompt => pc \notin {"write", "kick"}
Post(m) == msg' = msg \cup {m} /\ flag' = TRUE
Answers == kb.here /\ kb.address = (IF run.list = "set address" THEN 0 ELSE 2)

\* The first transfer of a setup list.
ChipFirst ==
  /\ Undisturbed /\ cmd = "none"
  /\ run.at = "first" /\ run.list # "poll"
  /\ \E c \in IF Answers THEN {Good} \cup Retries ELSE {0} :
       mem' = [mem EXCEPT !.ctl = c]
  /\ run' = [run EXCEPT !.at = "rest"]
  /\ UNCHANGED <<main, mail, cmd, msg, flag, buf, kb>>
\* The rest of it, and what it makes the keyboard do.
Obeys(k) == CASE run.list = "set address" -> [k EXCEPT !.address = 2]
              [] run.list = "set config"  -> [k EXCEPT !.configured = TRUE,
                                               !.bit = 0, !.pending = FALSE]
              [] OTHER -> k
ChipRest ==
  /\ Undisturbed
  /\ run.at = "rest"
  /\ kb' \in IF ~ Answers \/ mem.ctl = 0 THEN {kb}
             ELSE IF mem.list = run.list THEN {Obeys(kb)} ELSE {kb, Obeys(kb)}
  /\ run' = Off
  /\ Post("done")
  /\ UNCHANGED <<main, mail, cmd, mem, buf>>

\* The one transfer of a poll list: no answer fails; without news the keyboard
\* has the controller ask again.
ChipNoAnswer ==
  /\ Undisturbed
  /\ run.at = "first" /\ run.list = "poll"
  /\ ~ (Answers /\ kb.configured)
  /\ run' = Off /\ mem' = [mem EXCEPT !.ctl = 0]
  /\ Post("done")
  /\ UNCHANGED <<main, mail, cmd, buf, kb>>
\* A report under the wrong data bit counts as one already seen.
ChipReport ==
  /\ Undisturbed
  /\ run.at = "first" /\ run.list = "poll"
  /\ Answers /\ kb.configured /\ kb.pending
  /\ kb' = [kb EXCEPT !.pending = FALSE, !.bit = 1 - @]
  /\ \/ /\ kb.bit = mem.bit
        /\ buf' = kb.report
        /\ run' = Off /\ mem' = [mem EXCEPT !.ctl = Good]
        /\ Post("done")
     \/ kb.bit # mem.bit /\ UNCHANGED <<buf, run, mem, msg, flag>>
  /\ UNCHANGED <<main, mail, cmd>>

\* The message that a keyboard has come or gone.
ChipNotice == /\ kb.news
              /\ Post("other")
              /\ kb' = [kb EXCEPT !.news = FALSE]
              /\ UNCHANGED <<main, mail, cmd, mem, run, buf>>

Chip == ChipAnswer \/ ChipFirst \/ ChipRest \/ ChipNoAnswer \/ ChipReport

(* The keyboard (external).  It reports changes only: main sets no idle time. *)

Press == /\ kb.configured
         /\ \E r \in Reports \ {kb.report} :
              kb' = [kb EXCEPT !.report = r, !.pending = TRUE]
         /\ UNCHANGED <<main, chip>>
Pull == /\ Pulled /\ kb.here
        /\ Patient => Polling /\ pc \notin {"removed", "hotplug"}
        /\ kb' = [Away EXCEPT !.news = Notices]
        /\ UNCHANGED <<main, chip>>
Plug == /\ ~ kb.here
        /\ Patient => pc \in {"absent", "removed"}
        /\ kb' = [Away EXCEPT !.here = TRUE, !.news = Notices]
        /\ UNCHANGED <<main, chip>>

Next == Main \/ Chip \/ ChipNotice \/ Press \/ Pull \/ Plug
Spec == Init /\ [][Next]_vars

\* The program runs, and the controller gets through a command, and through
\* a list, in one of the sleeps at the latest.
FairSpec == /\ Spec /\ WF_vars(Main) /\ WF_vars(ChipAnswer)
            /\ SF_vars(ChipFirst) /\ SF_vars(ChipRest)
            /\ SF_vars(ChipNoAnswer) /\ SF_vars(ChipReport)
-----------------------------------------------------------------------------
TypeOK ==
  /\ step \in 1 .. Poll /\ tries \in 0 .. 7
  /\ toggle \in 0 .. 1
  /\ mail.of \in {"none", "init", "reset"} /\ cmd \in {"none", "init", "reset"}
  /\ mem.ctl \in 0 .. Active /\ mem.bit \in 0 .. 1
  /\ run.at \in {"off", "first", "rest"}
  /\ msg \subseteq {"done", "other"} /\ flag \in BOOLEAN
  /\ buf \in Reports /\ kb.report \in Reports
  /\ kb.configured => kb.here /\ kb.address = 2
  /\ kb.pending => kb.configured

\* A step looks at the result of its own list, which is finished by then: no
\* done message is left over from another list, or from an earlier sending.
JudgesItsOwnList ==
  pc = "check" => run.at = "off" /\ mem.list = List /\ mem.ctl # Active

\* What the game sees, once both ports are written, is one report.
OneReport == pc \notin {"port 1", "port 2"} => ports \in Reports

\* The program and the keyboard agree on the data bit of the next report.
TogglesAgree == Polling /\ pc = "flag" /\ run.at = "first" => kb.bit = mem.bit

\* A keyboard has its address before it is asked for anything else, also when
\* a slow controller has lists restarted under it, as long as none meets errors.
AddressedFirst == step \in 2 .. Poll - 1 => kb.address = 2

\* Who waits in UsbGetRetryCnt for one more message waits for a notice: there
\* is no list left that could give it.
OnlyANoticeEndsIt ==
  pc \in {"retry erase", "retry wait"} => run.at = "off" \/ flag

\* A keyboard that is polled has been set up.
PollsConfigured ==
  Polling /\ kb.here => kb.configured \/ pc \in {"removed", "hotplug"}

\* Every change of the keys reaches the game unless another overtakes it.
KeyArrives == \A r \in Reports :
  kb.pending /\ kb.report = r ~> ports = r \/ kb.report # r

\* A keyboard that is put back starts with its own data bit, whatever main's
\* toggle is.  A report may be lost by that; but once it stays in, and has
\* something to say again and again, the two agree from some time on, and every
\* change of the keys arrives as before.
BackInStep ==
  <>[]kb.here =>
    /\ []<>kb.pending => <>[]TogglesAgree
    /\ \A r \in Reports :
         <>[](kb.pending /\ kb.report = r => <>(ports = r \/ kb.report # r))

\* A keyboard that is there gets polled, from power-up and after every
\* removal.
GetsPolled == (kb.here ~> Polling) /\ (pc = "removed" /\ kb.here ~> pc = "poll")

\* main.c:214 says of sending a list in the waiting loop: "Call the
\* appropriate function again if it wasn't processed successfully."
RepeatsOnlyUnprocessed ==
  [][pc = "kick" /\ pc' = "flag" => ~ flag]_vars

\* The same of a list that met errors: it is not left at that.
FailedIsRepeated == pc = "retry" ~> pc \in {"kick", "hotplug"}

\* usb.h:92 says of UsbWaitTDListDone: "Check and wait until HUSB_TDListDone
\* is read".
WaitIsAnswered == pc = "wait" ~> pc = "check"

\* lcp_cmd.h:66 says of an acknowledgement: "I ate it just fine."
AckIsOfReset == pc = "look" => cmd = "none"
=============================================================================
