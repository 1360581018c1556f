----------------------------- MODULE UsbProofs -----------------------------
(***************************************************************************)
(* main.c and the USB keyboard go through the transfer lists together,     *)
(* whatever keys are pressed, whatever errors transfers meet, whichever    *)
(* commands are refused, and whenever the keyboard is pulled out and put   *)
(* back.  In four parts: a controller that gets on with a list only while  *)
(* the program sleeps; one of any speed, on which transfers meet no        *)
(* errors; a keyboard that is pulled out only while it is polled; and the  *)
(* pins that carry one word.                                               *)
(***************************************************************************)
EXTENDS MCUsb, MCUsbLive, TLAPS

\* Where main may be, and what the lists, the keyboard and the variables are.
Locations ==
  {"hotplug", "init", "init wait", "init read", "reset", "reset read", "look",
   "absent", "write", "kick", "flag", "wait", "erase", "erase more", "check",
   "retry", "retry erase", "retry wait", "recheck", "poll", "port 1", "port 2", "still",
   "removed"}
\* Where main is before the first list.
Starting == {"init", "init wait", "init read", "reset", "reset read", "look",
             "absent"}
Names == {"none", "stray"} \cup {Lists[s] : s \in 1 .. Poll}
Keyboards == [here : BOOLEAN, address : {0, 2}, configured : BOOLEAN,
              bit : 0 .. 1, report : Reports, pending : BOOLEAN, news : BOOLEAN]

\* Half of a report.
Words == {r[1] : r \in Reports} \cup {r[2] : r \in Reports}

MainTypes == /\ pc \in Locations
             /\ step \in 1 .. 10 /\ tries \in 0 .. 7 /\ toggle \in 0 .. 1
PortTypes == ports \in [1 .. 2 -> Words]
MailTypes == /\ mail \in [of : {"none", "init", "reset"}, ack : BOOLEAN,
                          full : BOOLEAN]
             /\ cmd \in {"none", "init", "reset"}
ListTypes == /\ mem \in [list : Names, ctl : 0 .. 19, bit : 0 .. 1]
             /\ run \in [at : {"off", "first", "rest"}, list : Names]
MessageTypes == /\ msg \in SUBSET {"done", "other"} /\ flag \in BOOLEAN
                /\ buf \in Reports
KeyboardTypes == kb \in Keyboards

\* The controller is on a list only while main sends it or waits for it, and
\* there it is main's own one; what it was on before lasts until the list
\* pointer is written.
RunsItsList ==
  run.at # "off" =>
    /\ pc \in {"write", "kick", "flag", "wait", "erase more"}
    /\ pc \notin {"write", "kick"} =>
         /\ run.list = List /\ mem.list = List
         /\ run.at = "rest" => mem.ctl # Active

\* A done message is of the finished list main waits for, and in the loop that
\* sends the list the flag stands with it.
DoneIsOfTheList ==
  "done" \in msg =>
    /\ run.at = "off" /\ mem.list = List /\ mem.ctl # Active
    /\ pc \in {"flag", "wait", "erase", "erase more"}
    /\ pc = "flag" => flag

\* So is the result main looks at.
ResultIsOfTheList ==
  /\ pc \in {"kick", "erase", "check"} => mem.list = List
  /\ pc \in {"erase", "check"} => mem.ctl # Active

\* The report is not overwritten between the two ports.
HalfWritten == pc = "port 2" => ports[1] = buf[1]

\* main starts over with the first list.
StartsAtOne == pc \in Starting => step = 1

\* A poll is never looked at for errors.
PollsAreNotRetried ==
  pc \in {"retry", "retry erase", "retry wait", "recheck"} => step < 10

\* A command is carried out before the first list gets anywhere.
CommandsFirst ==
  cmd # "none" => /\ step = 1 /\ run.at # "rest" /\ "done" \notin msg
                  /\ pc \notin {"erase", "check", "retry", "retry erase", "retry wait",
                                "recheck"}

\* A keyboard that is set up has got there by the sixth list, and main starts
\* over only on one that is not.
SetUpLate == /\ kb.configured => /\ kb.here /\ kb.address = 2 /\ step >= 6
                                 /\ pc \notin {"removed", "hotplug"}
             /\ kb.pending => kb.configured
SetUpBySixth == run.at # "off" /\ run.list = "set config" => step = 6

IInv == /\ MainTypes /\ PortTypes
        /\ MailTypes /\ ListTypes /\ MessageTypes /\ KeyboardTypes
        /\ RunsItsList /\ DoneIsOfTheList /\ ResultIsOfTheList
        /\ HalfWritten /\ OneReport
        /\ StartsAtOne /\ PollsAreNotRetried /\ CommandsFirst
        /\ SetUpLate /\ SetUpBySixth
-----------------------------------------------------------------------------
(* A controller that gets on with a list only while the program sleeps *)

LEMMA ListsAre ==
  /\ Poll = 10
  /\ \A s \in 1 .. 10 : /\ Lists[s] \in Names
                        /\ Lists[s] = "config 2" <=> s = 5
                        /\ Lists[s] = "set config" <=> s = 6
                        /\ Lists[s] = "poll" <=> s = 10
<1>1. Poll = 10
  BY DEF Poll, Lists
<1>2. ASSUME NEW s \in 1 .. 10
      PROVE  /\ Lists[s] = "config 2" <=> s = 5
             /\ Lists[s] = "set config" <=> s = 6
             /\ Lists[s] = "poll" <=> s = 10
  <2>1. /\ Lists[1] \notin {"config 2", "set config", "poll"}
        /\ Lists[2] \notin {"config 2", "set config", "poll"}
        /\ Lists[3] \notin {"config 2", "set config", "poll"}
        /\ Lists[4] \notin {"config 2", "set config", "poll"}
        /\ Lists[7] \notin {"config 2", "set config", "poll"}
        /\ Lists[8] \notin {"config 2", "set config", "poll"}
        /\ Lists[9] \notin {"config 2", "set config", "poll"}
    BY DEF Lists
  <2>2. /\ Lists[5] = "config 2" /\ Lists[6] = "set config"
        /\ Lists[10] = "poll"
    BY DEF Lists
  <2>3. \/ s = 1 \/ s = 2 \/ s = 3 \/ s = 4 \/ s = 5
        \/ s = 6 \/ s = 7 \/ s = 8 \/ s = 9 \/ s = 10
    OBVIOUS
  <2>. QED
    BY <2>1, <2>2, <2>3
<1>3. \A s \in 1 .. 10 : Lists[s] \in Names
  BY <1>1 DEF Names
<1>. QED
  BY <1>1, <1>2, <1>3

LEMMA NamesAre == "none" \in Names /\ "stray" \in Names
BY DEF Names

LEMMA ConstantsAre == /\ Pulled \in BOOLEAN /\ Notices \in BOOLEAN
                      /\ Refuses \in BOOLEAN /\ Retries \subseteq 0 .. 2
                      /\ NoKeys \in Reports
BY UsbAssumption

LEMMA ReportIs == ASSUME NEW r \in Reports
                  PROVE  /\ r \in [1 .. 2 -> Words]
                         /\ r[1] \in Words /\ r[2] \in Words
<1>1. r[1] \in Words /\ r[2] \in Words
  BY DEF Words
<1>2. <<r[1], r[2]>> \in [1 .. 2 -> Words]
  BY <1>1
<1>3. r = <<r[1], r[2]>>
  BY UsbAssumption
<1>. QED
  BY <1>1, <1>2, <1>3

\* One field of a keyboard, of the list in memory or of the run changes.
LEMMA FieldIs ==
  ASSUME NEW k \in Keyboards
  PROVE  /\ \A b \in BOOLEAN : /\ [k EXCEPT !.here = b] \in Keyboards
                               /\ [k EXCEPT !.configured = b] \in Keyboards
                               /\ [k EXCEPT !.pending = b] \in Keyboards
                               /\ [k EXCEPT !.news = b] \in Keyboards
         /\ \A a \in {0, 2} : [k EXCEPT !.address = a] \in Keyboards
         /\ \A d \in 0 .. 1 : [k EXCEPT !.bit = d] \in Keyboards
         /\ \A r \in Reports : [k EXCEPT !.report = r] \in Keyboards
<1>1. \A b \in BOOLEAN : /\ [k EXCEPT !.here = b] \in Keyboards
                         /\ [k EXCEPT !.configured = b] \in Keyboards
  BY DEF Keyboards
<1>2. \A b \in BOOLEAN : /\ [k EXCEPT !.pending = b] \in Keyboards
                         /\ [k EXCEPT !.news = b] \in Keyboards
  BY DEF Keyboards
<1>3. \A a \in {0, 2} : [k EXCEPT !.address = a] \in Keyboards
  BY DEF Keyboards
<1>4. \A d \in 0 .. 1 : [k EXCEPT !.bit = d] \in Keyboards
  BY DEF Keyboards
<1>5. \A r \in Reports : [k EXCEPT !.report = r] \in Keyboards
  BY DEF Keyboards
<1>. QED
  BY <1>1, <1>2, <1>3, <1>4, <1>5

LEMMA BitIs == ASSUME NEW k \in Keyboards PROVE [k EXCEPT !.bit = 0] \in Keyboards
BY DEF Keyboards

LEMMA AwayIs == /\ Away \in Keyboards
                /\ ~ Away.here /\ ~ Away.configured /\ ~ Away.pending
<1>1. Away \in Keyboards
  BY ConstantsAre DEF Away, Keyboards
<1>. QED
  BY <1>1 DEF Away

LEMMA MemIs ==
  ASSUME ListTypes, NEW c \in 0 .. 19, mem' = [mem EXCEPT !.ctl = c]
  PROVE  /\ mem' \in [list : Names, ctl : 0 .. 19, bit : 0 .. 1]
         /\ mem'.list = mem.list /\ mem'.ctl = c
BY DEF ListTypes

LEMMA RunIs ==
  /\ Off \in [at : {"off", "first", "rest"}, list : Names]
  /\ Off.at = "off"
  /\ \A n \in Names, a \in {"off", "first", "rest"} :
       [at |-> a, list |-> n] \in [at : {"off", "first", "rest"}, list : Names]
BY NamesAre DEF Off

LEMMA InitIInv == Init => IInv
<1>. SUFFICES ASSUME Init PROVE IInv
  OBVIOUS
<1>1. MainTypes
  BY DEF Init, MainTypes, Locations
<1>2. PortTypes
  BY ConstantsAre, ReportIs DEF Init, PortTypes
<1>3. MailTypes
  BY DEF Init, MailTypes
<1>4. ListTypes
  BY RunIs, NamesAre DEF Init, ListTypes
<1>5. MessageTypes
  BY ConstantsAre DEF Init, MessageTypes
<1>6. \E here \in BOOLEAN : kb = [Away EXCEPT !.here = here]
  BY ConstantsAre DEF Init
<1>7. KeyboardTypes
  BY <1>6, AwayIs, FieldIs DEF KeyboardTypes
<1>8. ~ kb.configured /\ ~ kb.pending
  BY <1>6, AwayIs DEF Keyboards
<1>9. RunsItsList /\ DoneIsOfTheList /\ ResultIsOfTheList /\ HalfWritten
  BY RunIs DEF Init, RunsItsList, DoneIsOfTheList, ResultIsOfTheList, HalfWritten
<1>10. OneReport
  BY ConstantsAre, UsbAssumption DEF Init, OneReport
<1>11. StartsAtOne /\ PollsAreNotRetried /\ CommandsFirst
  BY DEF Init, StartsAtOne, PollsAreNotRetried, CommandsFirst, Starting
<1>12. SetUpLate /\ SetUpBySixth
  BY <1>8, RunIs DEF Init, SetUpLate, SetUpBySixth
<1>. QED
  BY <1>1, <1>2, <1>3, <1>4, <1>5, <1>7, <1>9, <1>10, <1>11, <1>12 DEF IInv

\* The controller gets on with a list only where main waits for it.
LEMMA OnItsList == ASSUME Prompt, IInv, Undisturbed, run.at # "off"
                   PROVE  /\ pc \in {"flag", "wait", "erase more"}
                          /\ run.list = List /\ mem.list = List
                          /\ run.at = "rest" => mem.ctl # Active
BY DEF IInv, RunsItsList, Undisturbed

\* A step forward is to a list or to the polling loop.
LEMMA AdvanceIs ==
  ASSUME Advance, MainTypes, step < 10
  PROVE  /\ step' = step + 1 /\ step' \in 1 .. 10
         /\ \/ pc' \in {"write", "poll"} /\ run' = run
            \/ pc' = "write" /\ run' = [at |-> "rest", list |-> "stray"]
<1>1. step' = step + 1
  BY DEF Advance
<1>2. step' \in 1 .. 10
  BY <1>1 DEF MainTypes
<1>3. pc' = IF step + 1 = 10 THEN "poll" ELSE "write"
  BY ListsAre DEF Advance, Goto
<1>4. CASE List = "config 2"
  <2>1. step = 5
    BY <1>4, ListsAre DEF List, MainTypes
  <2>2. pc' = "write"
    BY <1>3, <2>1
  <2>3. run' = [at |-> "rest", list |-> "stray"]
    BY <1>4 DEF Advance
  <2>. QED
    BY <1>1, <1>2, <2>2, <2>3
<1>5. CASE List # "config 2"
  <2>1. run' = run
    BY <1>5 DEF Advance
  <2>. QED
    BY <1>1, <1>2, <1>3, <2>1
<1>. QED
  BY <1>4, <1>5

\* What no variable of is changed goes on to hold.
LEMMA Untouched ==
  ASSUME IInv, UNCHANGED <<pc, step, tries, toggle, ports>>,
         UNCHANGED <<mail, cmd, mem, run, msg, flag, buf>>
  PROVE  /\ MainTypes' /\ PortTypes' /\ MailTypes' /\ ListTypes' /\ MessageTypes'
         /\ RunsItsList' /\ DoneIsOfTheList' /\ ResultIsOfTheList'
         /\ HalfWritten' /\ OneReport'
         /\ StartsAtOne' /\ PollsAreNotRetried' /\ CommandsFirst' /\ SetUpBySixth'
<1>1. MainTypes' /\ PortTypes' /\ MailTypes'
  BY DEF IInv, MainTypes, PortTypes, MailTypes
<1>2. ListTypes' /\ MessageTypes'
  BY DEF IInv, ListTypes, MessageTypes
<1>3. RunsItsList'
  BY DEF IInv, RunsItsList, List
<1>4. DoneIsOfTheList'
  BY DEF IInv, DoneIsOfTheList, List
<1>5. ResultIsOfTheList' /\ HalfWritten' /\ OneReport'
  BY DEF IInv, ResultIsOfTheList, HalfWritten, OneReport, List
<1>6. StartsAtOne' /\ PollsAreNotRetried' /\ CommandsFirst' /\ SetUpBySixth'
  BY DEF IInv, StartsAtOne, PollsAreNotRetried, CommandsFirst, SetUpBySixth
<1>. QED
  BY <1>1, <1>2, <1>3, <1>4, <1>5, <1>6

LEMMA StepIInv == ASSUME Prompt, IInv, [Next]_vars PROVE IInv'
<1>1. CASE SoftReset
  <2>1. MainTypes' /\ MailTypes'
    BY <1>1 DEF IInv, MainTypes, MailTypes, Locations, SoftReset, Off, Goto
  <2>2. ListTypes'
    BY <1>1, RunIs DEF IInv, ListTypes, SoftReset
  <2>3. MessageTypes'
    BY <1>1 DEF IInv, MessageTypes, SoftReset, Off
  <2>4. RunsItsList' /\ DoneIsOfTheList' /\ ResultIsOfTheList'
    BY <1>1 DEF IInv, RunsItsList, DoneIsOfTheList, ResultIsOfTheList, Active,
       List, SoftReset, Off, Goto
  <2>5. HalfWritten' /\ OneReport'
    BY <1>1 DEF IInv, HalfWritten, OneReport, SoftReset, Off, Goto
  <2>6. StartsAtOne' /\ PollsAreNotRetried' /\ CommandsFirst'
    BY <1>1 DEF IInv, StartsAtOne, PollsAreNotRetried, CommandsFirst, Starting,
       SoftReset, Off, Goto
  <2>7. SetUpLate' /\ SetUpBySixth'
    BY <1>1 DEF IInv, SetUpLate, SetUpBySixth, Starting, Keyboards, SoftReset,
       Off, Goto
  <2>8. (PortTypes /\ KeyboardTypes)'
    BY <1>1 DEF IInv, PortTypes, KeyboardTypes, SoftReset, main, chip
  <2>. QED
    BY <2>1, <2>2, <2>3, <2>4, <2>5, <2>6, <2>7, <2>8 DEF IInv
<1>2. CASE InitSie
  <2>1. MainTypes' /\ MailTypes'
    BY <1>2 DEF IInv, MainTypes, MailTypes, Locations, InitSie, Execute, Goto
  <2>2. RunsItsList' /\ DoneIsOfTheList' /\ ResultIsOfTheList'
    BY <1>2 DEF IInv, RunsItsList, DoneIsOfTheList, ResultIsOfTheList, Active,
       List, InitSie, Execute, Goto
  <2>3. HalfWritten' /\ OneReport'
    BY <1>2 DEF IInv, HalfWritten, OneReport, InitSie, Execute, Goto
  <2>4. StartsAtOne' /\ PollsAreNotRetried' /\ CommandsFirst'
    BY <1>2 DEF IInv, StartsAtOne, PollsAreNotRetried, CommandsFirst,
       MainTypes, RunsItsList, DoneIsOfTheList, ResultIsOfTheList, ListTypes,
       Starting, InitSie, Execute, Goto
  <2>5. SetUpLate'
    BY <1>2 DEF IInv, SetUpLate, Starting, Keyboards, InitSie, Execute, Goto
  <2>6. (PortTypes /\ ListTypes /\ MessageTypes /\ KeyboardTypes
         /\ SetUpBySixth)'
    BY <1>2 DEF IInv, PortTypes, ListTypes, MessageTypes, KeyboardTypes,
       SetUpBySixth, List, InitSie, Execute, main, chip
  <2>. QED
    BY <2>1, <2>2, <2>3, <2>4, <2>5, <2>6 DEF IInv
<1>3. CASE InitWait
  <2>1. MainTypes'
    BY <1>3 DEF IInv, MainTypes, Locations, InitWait, Goto, chip
  <2>2. RunsItsList' /\ DoneIsOfTheList' /\ ResultIsOfTheList'
    BY <1>3 DEF IInv, RunsItsList, DoneIsOfTheList, ResultIsOfTheList, Active,
       List, InitWait, Goto, chip
  <2>3. HalfWritten' /\ OneReport'
    BY <1>3 DEF IInv, HalfWritten, OneReport, InitWait, Goto, chip
  <2>4. StartsAtOne' /\ PollsAreNotRetried' /\ CommandsFirst'
    BY <1>3 DEF IInv, StartsAtOne, PollsAreNotRetried, CommandsFirst, Starting,
       InitWait, Goto, chip
  <2>5. SetUpLate'
    BY <1>3 DEF IInv, SetUpLate, Starting, Keyboards, InitWait, Goto, chip
  <2>6. (PortTypes /\ MailTypes /\ ListTypes /\ MessageTypes
         /\ KeyboardTypes /\ SetUpBySixth)'
    BY <1>3 DEF IInv, PortTypes, MailTypes, ListTypes, MessageTypes,
       KeyboardTypes, SetUpBySixth, List, InitWait, main, chip
  <2>. QED
    BY <2>1, <2>2, <2>3, <2>4, <2>5, <2>6 DEF IInv
<1>4. CASE InitRead
  <2>1. MainTypes' /\ MailTypes'
    BY <1>4 DEF IInv, MainTypes, MailTypes, Locations, InitRead, ReadMailbox,
       Goto
  <2>2. RunsItsList' /\ DoneIsOfTheList' /\ ResultIsOfTheList'
    BY <1>4 DEF IInv, RunsItsList, DoneIsOfTheList, ResultIsOfTheList, Active,
       List, InitRead, ReadMailbox, Goto
  <2>3. HalfWritten' /\ OneReport'
    BY <1>4 DEF IInv, HalfWritten, OneReport, InitRead, ReadMailbox, Goto
  <2>4. StartsAtOne' /\ PollsAreNotRetried' /\ CommandsFirst'
    BY <1>4 DEF IInv, StartsAtOne, PollsAreNotRetried, CommandsFirst, Starting,
       InitRead, ReadMailbox, Goto
  <2>5. SetUpLate'
    <3>1. step = 1
      BY <1>4 DEF IInv, StartsAtOne, Starting, InitRead
    <3>2. ~ kb.configured
      BY <3>1 DEF IInv, SetUpLate
    <3>. QED
      BY <1>4, <3>2 DEF IInv, SetUpLate, InitRead, ReadMailbox
  <2>6. (PortTypes /\ ListTypes /\ MessageTypes /\ KeyboardTypes
         /\ SetUpBySixth)'
    BY <1>4 DEF IInv, PortTypes, ListTypes, MessageTypes, KeyboardTypes,
       SetUpBySixth, List, InitRead, ReadMailbox, main, chip
  <2>. QED
    BY <2>1, <2>2, <2>3, <2>4, <2>5, <2>6 DEF IInv
<1>5. CASE ResetUsb
  <2>1. MainTypes' /\ MailTypes'
    BY <1>5 DEF IInv, MainTypes, MailTypes, Locations, ResetUsb, Execute, Goto
  <2>2. RunsItsList' /\ DoneIsOfTheList' /\ ResultIsOfTheList'
    BY <1>5 DEF IInv, RunsItsList, DoneIsOfTheList, ResultIsOfTheList, Active,
       List, ResetUsb, Execute, Goto
  <2>3. HalfWritten' /\ OneReport'
    BY <1>5 DEF IInv, HalfWritten, OneReport, ResetUsb, Execute, Goto
  <2>4. StartsAtOne' /\ PollsAreNotRetried' /\ CommandsFirst'
    BY <1>5 DEF IInv, StartsAtOne, PollsAreNotRetried, CommandsFirst,
       MainTypes, RunsItsList, DoneIsOfTheList, ResultIsOfTheList, ListTypes,
       Starting, ResetUsb, Execute, Goto
  <2>5. SetUpLate'
    BY <1>5 DEF IInv, SetUpLate, Starting, Keyboards, ResetUsb, Execute, Goto
  <2>6. (PortTypes /\ ListTypes /\ MessageTypes /\ KeyboardTypes
         /\ SetUpBySixth)'
    BY <1>5 DEF IInv, PortTypes, ListTypes, MessageTypes, KeyboardTypes,
       SetUpBySixth, List, ResetUsb, Execute, main, chip
  <2>. QED
    BY <2>1, <2>2, <2>3, <2>4, <2>5, <2>6 DEF IInv
<1>6. CASE ResetRead
  <2>1. MainTypes' /\ MailTypes'
    BY <1>6 DEF IInv, MainTypes, MailTypes, Locations, ResetRead, ReadMailbox,
       Goto
  <2>2. RunsItsList' /\ DoneIsOfTheList' /\ ResultIsOfTheList'
    BY <1>6 DEF IInv, RunsItsList, DoneIsOfTheList, ResultIsOfTheList, Active,
       List, ResetRead, ReadMailbox, Goto
  <2>3. HalfWritten' /\ OneReport'
    BY <1>6 DEF IInv, HalfWritten, OneReport, ResetRead, ReadMailbox, Goto
  <2>4. StartsAtOne' /\ PollsAreNotRetried' /\ CommandsFirst'
    BY <1>6 DEF IInv, StartsAtOne, PollsAreNotRetried, CommandsFirst, Starting,
       ResetRead, ReadMailbox, Goto
  <2>5. SetUpLate'
    <3>1. step = 1
      BY <1>6 DEF IInv, StartsAtOne, Starting, ResetRead
    <3>2. ~ kb.configured
      BY <3>1 DEF IInv, SetUpLate
    <3>. QED
      BY <1>6, <3>2 DEF IInv, SetUpLate, ResetRead, ReadMailbox
  <2>6. (PortTypes /\ ListTypes /\ MessageTypes /\ KeyboardTypes
         /\ SetUpBySixth)'
    BY <1>6 DEF IInv, PortTypes, ListTypes, MessageTypes, KeyboardTypes,
       SetUpBySixth, List, ResetRead, ReadMailbox, main, chip
  <2>. QED
    BY <2>1, <2>2, <2>3, <2>4, <2>5, <2>6 DEF IInv
<1>7. CASE LookFor
  <2>1. MainTypes'
    <3>1. CASE kb.here
      BY <1>7, <3>1 DEF IInv, MainTypes, Locations, LookFor, Goto
    <3>2. CASE ~ kb.here /\ tries < 5
      BY <1>7, <3>2 DEF IInv, MainTypes, Locations, LookFor, Goto
    <3>3. CASE ~ kb.here /\ ~ (tries < 5)
      BY <1>7, <3>3 DEF IInv, MainTypes, Locations, LookFor, Goto
    <3>. QED
      BY <3>1, <3>2, <3>3
  <2>2. RunsItsList' /\ DoneIsOfTheList' /\ ResultIsOfTheList'
    BY <1>7 DEF IInv, RunsItsList, DoneIsOfTheList, ResultIsOfTheList, Active,
       List, LookFor, Goto, chip
  <2>3. HalfWritten' /\ OneReport'
    BY <1>7 DEF IInv, HalfWritten, OneReport, LookFor, Goto, chip
  <2>4. StartsAtOne' /\ PollsAreNotRetried' /\ CommandsFirst'
    BY <1>7 DEF IInv, StartsAtOne, PollsAreNotRetried, CommandsFirst, Starting,
       LookFor, Goto, chip
  <2>5. SetUpLate'
    BY <1>7 DEF IInv, SetUpLate, Starting, Keyboards, LookFor, Goto, chip
  <2>6. (PortTypes /\ MailTypes /\ ListTypes /\ MessageTypes
         /\ KeyboardTypes /\ SetUpBySixth)'
    BY <1>7 DEF IInv, PortTypes, MailTypes, ListTypes, MessageTypes,
       KeyboardTypes, SetUpBySixth, List, LookFor, main, chip
  <2>. QED
    BY <2>1, <2>2, <2>3, <2>4, <2>5, <2>6 DEF IInv
<1>8. CASE Absent
  <2>1. MainTypes'
    BY <1>8 DEF IInv, MainTypes, Locations, Absent, Goto, chip
  <2>2. RunsItsList' /\ DoneIsOfTheList' /\ ResultIsOfTheList'
    BY <1>8 DEF IInv, RunsItsList, DoneIsOfTheList, ResultIsOfTheList, Active,
       List, Absent, Goto, chip
  <2>3. HalfWritten' /\ OneReport'
    BY <1>8 DEF IInv, HalfWritten, OneReport, Absent, Goto, chip
  <2>4. StartsAtOne' /\ PollsAreNotRetried' /\ CommandsFirst'
    BY <1>8 DEF IInv, StartsAtOne, PollsAreNotRetried, CommandsFirst, Starting,
       Absent, Goto, chip
  <2>5. SetUpLate'
    BY <1>8 DEF IInv, SetUpLate, KeyboardTypes, MainTypes, StartsAtOne,
       Starting, Keyboards, Absent, Goto, chip
  <2>6. (PortTypes /\ MailTypes /\ ListTypes /\ MessageTypes
         /\ KeyboardTypes /\ SetUpBySixth)'
    BY <1>8 DEF IInv, PortTypes, MailTypes, ListTypes, MessageTypes,
       KeyboardTypes, SetUpBySixth, List, Absent, main, chip
  <2>. QED
    BY <2>1, <2>2, <2>3, <2>4, <2>5, <2>6 DEF IInv
<1>9. CASE WriteList
  <2>1. MainTypes'
    BY <1>9 DEF IInv, MainTypes, Locations, WriteList, List, Goto
  <2>2. ListTypes'
    <3>1. List \in Names
      BY ListsAre DEF IInv, MainTypes, List
    <3>2. toggle \in 0 .. 1
      BY DEF IInv, MainTypes
    <3>. QED
      BY <1>9, <3>1, <3>2 DEF IInv, ListTypes, WriteList, Active
  <2>3. RunsItsList' /\ DoneIsOfTheList' /\ ResultIsOfTheList'
    BY <1>9 DEF IInv, RunsItsList, DoneIsOfTheList, ResultIsOfTheList, Active,
       List, WriteList, Goto
  <2>4. HalfWritten' /\ OneReport'
    BY <1>9 DEF IInv, HalfWritten, OneReport, WriteList, List, Goto
  <2>5. StartsAtOne' /\ PollsAreNotRetried' /\ CommandsFirst'
    BY <1>9 DEF IInv, StartsAtOne, PollsAreNotRetried, CommandsFirst, Starting,
       WriteList, List, Goto
  <2>6. SetUpLate'
    BY <1>9 DEF IInv, SetUpLate, Starting, Keyboards, WriteList, List, Goto
  <2>7. (PortTypes /\ MailTypes /\ MessageTypes /\ KeyboardTypes
         /\ SetUpBySixth)'
    BY <1>9 DEF IInv, PortTypes, MailTypes, MessageTypes, KeyboardTypes,
       SetUpBySixth, List, WriteList, main, chip
  <2>. QED
    BY <2>1, <2>2, <2>3, <2>4, <2>5, <2>6, <2>7 DEF IInv
<1>10. CASE Kick
  <2>1. MainTypes'
    BY <1>10 DEF IInv, MainTypes, Locations, Kick, List, Goto
  <2>2. ListTypes'
    <3>1. List \in Names
      BY ListsAre DEF IInv, MainTypes, List
    <3>. QED
      BY <1>10, <3>1, RunIs DEF IInv, ListTypes, Kick
  <2>3. RunsItsList'
    BY <1>10 DEF IInv, RunsItsList, ResultIsOfTheList, List, Kick, Goto
  <2>4. DoneIsOfTheList' /\ ResultIsOfTheList'
    BY <1>10 DEF IInv, DoneIsOfTheList, ResultIsOfTheList, Active, List, Kick,
       Goto
  <2>5. HalfWritten' /\ OneReport'
    BY <1>10 DEF IInv, HalfWritten, OneReport, Kick, List, Goto
  <2>6. StartsAtOne' /\ PollsAreNotRetried' /\ CommandsFirst'
    BY <1>10 DEF IInv, StartsAtOne, PollsAreNotRetried, CommandsFirst,
       Starting, Kick, List, Goto
  <2>7. SetUpLate'
    BY <1>10 DEF IInv, SetUpLate, Starting, Keyboards, Kick, List, Goto
  <2>8. SetUpBySixth'
    <3>1. List = "set config" => step = 6
      BY ListsAre DEF IInv, MainTypes, List
    <3>. QED
      BY <1>10, <3>1 DEF IInv, SetUpBySixth, Kick
  <2>9. (PortTypes /\ MailTypes /\ MessageTypes /\ KeyboardTypes)'
    BY <1>10 DEF IInv, PortTypes, MailTypes, MessageTypes, KeyboardTypes, List,
       Kick, main, chip
  <2>. QED
    BY <2>1, <2>2, <2>3, <2>4, <2>5, <2>6, <2>7, <2>8, <2>9 DEF IInv
<1>11. CASE LookAtFlag
  <2>1. MainTypes'
    BY <1>11 DEF IInv, MainTypes, Locations, LookAtFlag, Goto, chip
  <2>2. RunsItsList' /\ DoneIsOfTheList' /\ ResultIsOfTheList'
    BY <1>11 DEF IInv, RunsItsList, DoneIsOfTheList, ResultIsOfTheList, Active,
       List, LookAtFlag, Goto, chip
  <2>3. HalfWritten' /\ OneReport'
    BY <1>11 DEF IInv, HalfWritten, OneReport, LookAtFlag, Goto, chip
  <2>4. StartsAtOne' /\ PollsAreNotRetried' /\ CommandsFirst'
    BY <1>11 DEF IInv, StartsAtOne, PollsAreNotRetried, CommandsFirst,
       Starting, LookAtFlag, Goto, chip
  <2>5. SetUpLate'
    BY <1>11 DEF IInv, SetUpLate, Starting, Keyboards, LookAtFlag, Goto, chip
  <2>6. (PortTypes /\ MailTypes /\ ListTypes /\ MessageTypes
         /\ KeyboardTypes /\ SetUpBySixth)'
    BY <1>11 DEF IInv, PortTypes, MailTypes, ListTypes, MessageTypes,
       KeyboardTypes, SetUpBySixth, List, LookAtFlag, main, chip
  <2>. QED
    BY <2>1, <2>2, <2>3, <2>4, <2>5, <2>6 DEF IInv
<1>12. CASE WaitRead
  <2>1. MainTypes' /\ MessageTypes'
    BY <1>12 DEF IInv, MainTypes, MessageTypes, Locations, WaitRead, Done,
       Goto
  <2>2. RunsItsList' /\ DoneIsOfTheList' /\ ResultIsOfTheList'
    BY <1>12 DEF IInv, RunsItsList, DoneIsOfTheList, ResultIsOfTheList, Active,
       List, WaitRead, Done, Goto
  <2>3. HalfWritten' /\ OneReport'
    BY <1>12 DEF IInv, HalfWritten, OneReport, WaitRead, Done, Goto
  <2>4. StartsAtOne' /\ PollsAreNotRetried' /\ CommandsFirst'
    BY <1>12 DEF IInv, StartsAtOne, PollsAreNotRetried, CommandsFirst,
       Starting, WaitRead, Done, Goto
  <2>5. SetUpLate'
    BY <1>12 DEF IInv, SetUpLate, Starting, Keyboards, WaitRead, Done, Goto
  <2>6. (PortTypes /\ MailTypes /\ ListTypes /\ KeyboardTypes
         /\ SetUpBySixth)'
    BY <1>12 DEF IInv, PortTypes, MailTypes, ListTypes, KeyboardTypes,
       SetUpBySixth, List, WaitRead, main, chip
  <2>. QED
    BY <2>1, <2>2, <2>3, <2>4, <2>5, <2>6 DEF IInv
<1>13. CASE WaitErase
  <2>1. MainTypes' /\ MessageTypes'
    BY <1>13 DEF IInv, MainTypes, MessageTypes, Locations, WaitErase, Goto
  <2>2. RunsItsList' /\ DoneIsOfTheList' /\ ResultIsOfTheList'
    BY <1>13 DEF IInv, RunsItsList, DoneIsOfTheList, ResultIsOfTheList, Active,
       List, WaitErase, Goto
  <2>3. HalfWritten' /\ OneReport'
    BY <1>13 DEF IInv, HalfWritten, OneReport, WaitErase, Goto
  <2>4. StartsAtOne' /\ PollsAreNotRetried' /\ CommandsFirst'
    BY <1>13 DEF IInv, StartsAtOne, PollsAreNotRetried, CommandsFirst,
       Starting, WaitErase, Goto
  <2>5. SetUpLate'
    BY <1>13 DEF IInv, SetUpLate, Starting, Keyboards, WaitErase, Goto
  <2>6. (PortTypes /\ MailTypes /\ ListTypes /\ KeyboardTypes
         /\ SetUpBySixth)'
    BY <1>13 DEF IInv, PortTypes, MailTypes, ListTypes, KeyboardTypes,
       SetUpBySixth, List, WaitErase, main, chip
  <2>. QED
    BY <2>1, <2>2, <2>3, <2>4, <2>5, <2>6 DEF IInv
<1>14. CASE Check
  <2>1. \/ pc' = "port 1" /\ step' = step /\ run' = run
        \/ pc' = "retry" /\ step < 10 /\ step' = step /\ run' = run
        \/ pc' = "hotplug" /\ step = 1 /\ step' = step /\ run' = run
        \/ step < 10 /\ Advance
    <3>1. Polling <=> step = 10
      BY ListsAre DEF Polling
    <3>2. step \in 1 .. 10
      BY DEF IInv, MainTypes
    <3>3. CASE Polling
      BY <1>14, <3>3 DEF Check, Goto
    <3>4. CASE ~ Polling
      <4>1. step < 10
        BY <3>1, <3>2, <3>4
      <4>. QED
        BY <1>14, <3>4, <4>1 DEF Check, Goto
    <3>. QED
      BY <3>3, <3>4
  <2>2. step \in 1 .. 10
    BY DEF IInv, MainTypes
  <2>3. /\ step' \in 1 .. 10
        /\ step' >= step
    <3>1. CASE step < 10 /\ Advance
      <4>1. step' = step + 1 /\ step' \in 1 .. 10
        BY <3>1, AdvanceIs DEF IInv
      <4>. QED
        BY <2>2, <4>1
    <3>2. CASE step' = step
      BY <2>2, <3>2
    <3>. QED
      BY <2>1, <3>1, <3>2
  <2>4. pc' \in {"hotplug", "port 1", "retry", "write", "poll"}
    <3>1. CASE step < 10 /\ Advance
      BY <3>1, AdvanceIs DEF IInv
    <3>. QED
      BY <2>1, <3>1
  <2>5. pc' = "retry" => step' < 10
    <3>1. CASE step < 10 /\ Advance
      <4>1. pc' # "retry"
        BY <3>1, AdvanceIs DEF IInv
      <4>. QED
        BY <4>1
    <3>. QED
      BY <2>1, <3>1
  <2>6. pc' = "hotplug" => step = 1
    <3>1. CASE step < 10 /\ Advance
      <4>1. pc' # "hotplug"
        BY <3>1, AdvanceIs DEF IInv
      <4>. QED
        BY <4>1
    <3>. QED
      BY <2>1, <3>1
  <2>7. \/ run' = run
        \/ pc' = "write" /\ run' = [at |-> "rest", list |-> "stray"]
    <3>1. CASE step < 10 /\ Advance
      BY <3>1, AdvanceIs DEF IInv
    <3>. QED
      BY <2>1, <3>1
  <2>8. run.at = "off" /\ cmd = "none" /\ "done" \notin msg
    BY <1>14 DEF IInv, RunsItsList, CommandsFirst, DoneIsOfTheList, Check
  <2>. UNCHANGED <<tries, toggle, ports, mail, cmd, mem, msg, flag, buf, kb>>
    BY <1>14 DEF Check
  <2>9. MainTypes' /\ PortTypes' /\ MailTypes' /\ MessageTypes' /\ KeyboardTypes'
    BY <2>3, <2>4 DEF IInv, MainTypes, PortTypes, MailTypes, MessageTypes,
       KeyboardTypes, Locations
  <2>10. ListTypes'
    BY <2>7, RunIs, NamesAre DEF IInv, ListTypes
  <2>11. RunsItsList'
    <3>1. CASE run' = run
      BY <2>8, <3>1 DEF RunsItsList
    <3>2. CASE pc' = "write"
      BY <3>2 DEF RunsItsList
    <3>. QED
      BY <2>7, <3>1, <3>2
  <2>12. DoneIsOfTheList' /\ ResultIsOfTheList' /\ HalfWritten'
    BY <2>4, <2>8 DEF DoneIsOfTheList, ResultIsOfTheList, HalfWritten
  <2>13. OneReport'
    BY <1>14 DEF IInv, OneReport, Check
  <2>14. StartsAtOne' /\ PollsAreNotRetried'
    BY <2>4, <2>5 DEF StartsAtOne, PollsAreNotRetried, Starting
  <2>15. CommandsFirst'
    BY <2>8 DEF CommandsFirst
  <2>16. SetUpLate'
    <3>1. kb.configured => step >= 6
      BY DEF IInv, SetUpLate
    <3>2. kb.configured => step' >= 6
      BY <2>2, <2>3, <3>1
    <3>3. kb.configured => pc' \notin {"removed", "hotplug"}
      <4>1. step # 1 \/ ~ kb.configured
        BY <2>2, <3>1
      <4>. QED
        BY <2>4, <2>6, <4>1
    <3>. QED
      BY <3>2, <3>3 DEF IInv, SetUpLate
  <2>17. SetUpBySixth'
    <3>1. CASE run' = run
      BY <2>8, <3>1 DEF SetUpBySixth
    <3>2. CASE run' = [at |-> "rest", list |-> "stray"]
      BY <3>2 DEF SetUpBySixth
    <3>. QED
      BY <2>7, <3>1, <3>2
  <2>. QED
    BY <2>9, <2>10, <2>11, <2>12, <2>13, <2>14, <2>15, <2>16, <2>17 DEF IInv
<1>15. CASE GetRetryCnt
  <2>1. MainTypes' /\ MessageTypes'
    BY <1>15, ListsAre DEF IInv, MainTypes, MessageTypes, Locations,
       GetRetryCnt, Done, Goto
  <2>2. RunsItsList' /\ DoneIsOfTheList' /\ ResultIsOfTheList'
    BY <1>15, ListsAre DEF IInv, RunsItsList, DoneIsOfTheList,
       ResultIsOfTheList, Active, List, GetRetryCnt, Done, Goto
  <2>3. HalfWritten' /\ OneReport'
    BY <1>15 DEF IInv, HalfWritten, OneReport, GetRetryCnt, Done, Goto
  <2>4. StartsAtOne' /\ PollsAreNotRetried' /\ CommandsFirst'
    BY <1>15, ListsAre DEF IInv, StartsAtOne, PollsAreNotRetried,
       CommandsFirst, Starting, GetRetryCnt, Done, Goto
  <2>5. SetUpLate'
    BY <1>15, ListsAre DEF IInv, SetUpLate, Starting, Keyboards, GetRetryCnt,
       Done, Goto
  <2>6. (PortTypes /\ MailTypes /\ ListTypes /\ KeyboardTypes
         /\ SetUpBySixth)'
    BY <1>15 DEF IInv, PortTypes, MailTypes, ListTypes, KeyboardTypes,
       SetUpBySixth, List, GetRetryCnt, main, chip
  <2>. QED
    BY <2>1, <2>2, <2>3, <2>4, <2>5, <2>6 DEF IInv
<1>15a. CASE RetryErase
  <2>1. MainTypes' /\ MessageTypes'
    BY <1>15a, ListsAre DEF IInv, MainTypes, MessageTypes, Locations,
       RetryErase, Goto
  <2>2. RunsItsList' /\ DoneIsOfTheList' /\ ResultIsOfTheList'
    BY <1>15a, ListsAre DEF IInv, RunsItsList, DoneIsOfTheList,
       ResultIsOfTheList, Active, List, RetryErase, Goto
  <2>3. HalfWritten' /\ OneReport'
    BY <1>15a DEF IInv, HalfWritten, OneReport, RetryErase, Goto
  <2>4. StartsAtOne' /\ PollsAreNotRetried' /\ CommandsFirst'
    BY <1>15a, ListsAre DEF IInv, StartsAtOne, PollsAreNotRetried,
       CommandsFirst, Starting, RetryErase, Goto
  <2>5. SetUpLate'
    BY <1>15a, ListsAre DEF IInv, SetUpLate, Starting, Keyboards, RetryErase, Goto
  <2>6. (PortTypes /\ MailTypes /\ ListTypes /\ KeyboardTypes
         /\ SetUpBySixth)'
    BY <1>15a DEF IInv, PortTypes, MailTypes, ListTypes, KeyboardTypes,
       SetUpBySixth, List, RetryErase, main, chip
  <2>. QED
    BY <2>1, <2>2, <2>3, <2>4, <2>5, <2>6 DEF IInv
<1>16. CASE RetryWait
  <2>1. MainTypes'
    BY <1>16 DEF IInv, MainTypes, Locations, RetryWait, Goto, chip
  <2>2. RunsItsList' /\ DoneIsOfTheList' /\ ResultIsOfTheList'
    BY <1>16 DEF IInv, RunsItsList, DoneIsOfTheList, ResultIsOfTheList, Active,
       List, RetryWait, Goto, chip
  <2>3. HalfWritten' /\ OneReport'
    BY <1>16 DEF IInv, HalfWritten, OneReport, RetryWait, Goto, chip
  <2>4. StartsAtOne' /\ PollsAreNotRetried' /\ CommandsFirst'
    BY <1>16 DEF IInv, StartsAtOne, PollsAreNotRetried, CommandsFirst,
       Starting, RetryWait, Goto, chip
  <2>5. SetUpLate'
    BY <1>16 DEF IInv, SetUpLate, Starting, Keyboards, RetryWait, Goto, chip
  <2>6. (PortTypes /\ MailTypes /\ ListTypes /\ MessageTypes
         /\ KeyboardTypes /\ SetUpBySixth)'
    BY <1>16 DEF IInv, PortTypes, MailTypes, ListTypes, MessageTypes,
       KeyboardTypes, SetUpBySixth, List, RetryWait, main, chip
  <2>. QED
    BY <2>1, <2>2, <2>3, <2>4, <2>5, <2>6 DEF IInv
<1>17. CASE Recheck
  <2>1. \/ pc' = "port 1" /\ step' = step /\ run' = run
        \/ pc' = "retry" /\ step < 10 /\ step' = step /\ run' = run
        \/ pc' = "hotplug" /\ step = 1 /\ step' = step /\ run' = run
        \/ step < 10 /\ Advance
    <3>1. Polling <=> step = 10
      BY ListsAre DEF Polling
    <3>2. step \in 1 .. 10
      BY DEF IInv, MainTypes
    <3>. QED
      BY <1>17, <3>1, <3>2 DEF IInv, PollsAreNotRetried, Recheck, Goto
  <2>2. step \in 1 .. 10
    BY DEF IInv, MainTypes
  <2>3. /\ step' \in 1 .. 10
        /\ step' >= step
    <3>1. CASE step < 10 /\ Advance
      <4>1. step' = step + 1 /\ step' \in 1 .. 10
        BY <3>1, AdvanceIs DEF IInv
      <4>. QED
        BY <2>2, <4>1
    <3>2. CASE step' = step
      BY <2>2, <3>2
    <3>. QED
      BY <2>1, <3>1, <3>2
  <2>4. pc' \in {"hotplug", "port 1", "retry", "write", "poll"}
    <3>1. CASE step < 10 /\ Advance
      BY <3>1, AdvanceIs DEF IInv
    <3>. QED
      BY <2>1, <3>1
  <2>5. pc' = "retry" => step' < 10
    <3>1. CASE step < 10 /\ Advance
      <4>1. pc' # "retry"
        BY <3>1, AdvanceIs DEF IInv
      <4>. QED
        BY <4>1
    <3>. QED
      BY <2>1, <3>1
  <2>6. pc' = "hotplug" => step = 1
    <3>1. CASE step < 10 /\ Advance
      <4>1. pc' # "hotplug"
        BY <3>1, AdvanceIs DEF IInv
      <4>. QED
        BY <4>1
    <3>. QED
      BY <2>1, <3>1
  <2>7. \/ run' = run
        \/ pc' = "write" /\ run' = [at |-> "rest", list |-> "stray"]
    <3>1. CASE step < 10 /\ Advance
      BY <3>1, AdvanceIs DEF IInv
    <3>. QED
      BY <2>1, <3>1
  <2>8. run.at = "off" /\ cmd = "none" /\ "done" \notin msg
    BY <1>17 DEF IInv, RunsItsList, CommandsFirst, DoneIsOfTheList, Recheck
  <2>. UNCHANGED <<tries, toggle, ports, mail, cmd, mem, msg, flag, buf, kb>>
    BY <1>17 DEF Recheck
  <2>9. MainTypes' /\ PortTypes' /\ MailTypes' /\ MessageTypes' /\ KeyboardTypes'
    BY <2>3, <2>4 DEF IInv, MainTypes, PortTypes, MailTypes, MessageTypes,
       KeyboardTypes, Locations
  <2>10. ListTypes'
    BY <2>7, RunIs, NamesAre DEF IInv, ListTypes
  <2>11. RunsItsList'
    <3>1. CASE run' = run
      BY <2>8, <3>1 DEF RunsItsList
    <3>2. CASE pc' = "write"
      BY <3>2 DEF RunsItsList
    <3>. QED
      BY <2>7, <3>1, <3>2
  <2>12. DoneIsOfTheList' /\ ResultIsOfTheList' /\ HalfWritten'
    BY <2>4, <2>8 DEF DoneIsOfTheList, ResultIsOfTheList, HalfWritten
  <2>13. OneReport'
    BY <1>17 DEF IInv, OneReport, Recheck
  <2>14. StartsAtOne' /\ PollsAreNotRetried'
    BY <2>4, <2>5 DEF StartsAtOne, PollsAreNotRetried, Starting
  <2>15. CommandsFirst'
    BY <2>8 DEF CommandsFirst
  <2>16. SetUpLate'
    <3>1. kb.configured => step >= 6
      BY DEF IInv, SetUpLate
    <3>2. kb.configured => step' >= 6
      BY <2>2, <2>3, <3>1
    <3>3. kb.configured => pc' \notin {"removed", "hotplug"}
      <4>1. step # 1 \/ ~ kb.configured
        BY <2>2, <3>1
      <4>. QED
        BY <2>4, <2>6, <4>1
    <3>. QED
      BY <3>2, <3>3 DEF IInv, SetUpLate
  <2>17. SetUpBySixth'
    <3>1. CASE run' = run
      BY <2>8, <3>1 DEF SetUpBySixth
    <3>2. CASE run' = [at |-> "rest", list |-> "stray"]
      BY <3>2 DEF SetUpBySixth
    <3>. QED
      BY <2>7, <3>1, <3>2
  <2>. QED
    BY <2>9, <2>10, <2>11, <2>12, <2>13, <2>14, <2>15, <2>16, <2>17 DEF IInv
<1>18. CASE NextPoll
  <2>1. MainTypes'
    BY <1>18 DEF IInv, MainTypes, Locations, NextPoll, Goto, chip
  <2>2. RunsItsList' /\ DoneIsOfTheList' /\ ResultIsOfTheList'
    BY <1>18 DEF IInv, RunsItsList, DoneIsOfTheList, ResultIsOfTheList, Active,
       List, NextPoll, Goto, chip
  <2>3. HalfWritten' /\ OneReport'
    BY <1>18 DEF IInv, HalfWritten, OneReport, NextPoll, Goto, chip
  <2>4. StartsAtOne' /\ PollsAreNotRetried' /\ CommandsFirst'
    BY <1>18 DEF IInv, StartsAtOne, PollsAreNotRetried, CommandsFirst,
       Starting, NextPoll, Goto, chip
  <2>5. SetUpLate'
    BY <1>18 DEF IInv, SetUpLate, Starting, Keyboards, NextPoll, Goto, chip
  <2>6. (PortTypes /\ MailTypes /\ ListTypes /\ MessageTypes
         /\ KeyboardTypes /\ SetUpBySixth)'
    BY <1>18 DEF IInv, PortTypes, MailTypes, ListTypes, MessageTypes,
       KeyboardTypes, SetUpBySixth, List, NextPoll, main, chip
  <2>. QED
    BY <2>1, <2>2, <2>3, <2>4, <2>5, <2>6 DEF IInv
<1>19. CASE Port1
  <2>1. MainTypes'
    BY <1>19 DEF IInv, MainTypes, Locations, Port1, Goto, chip
  <2>2. PortTypes'
    <3>1. buf[1] \in Words
      BY ReportIs DEF IInv, MessageTypes
    <3>. QED
      BY <1>19, <3>1 DEF IInv, PortTypes, Port1
  <2>3. RunsItsList' /\ DoneIsOfTheList' /\ ResultIsOfTheList'
    BY <1>19 DEF IInv, RunsItsList, DoneIsOfTheList, ResultIsOfTheList, Active,
       List, Port1, Goto, chip
  <2>4. HalfWritten'
    <3>1. ports' = [ports EXCEPT ![1] = buf[1]] /\ ports \in [1 .. 2 -> Words]
      BY <1>19 DEF IInv, PortTypes, Port1
    <3>2. ports'[1] = buf[1]
      BY <3>1
    <3>3. buf' = buf
      BY <1>19 DEF Port1, chip
    <3>. QED
      BY <3>2, <3>3 DEF HalfWritten
  <2>5. OneReport'
    BY <1>19 DEF IInv, OneReport, Port1, Goto, chip
  <2>6. StartsAtOne' /\ PollsAreNotRetried' /\ CommandsFirst'
    BY <1>19 DEF IInv, StartsAtOne, PollsAreNotRetried, CommandsFirst,
       Starting, Port1, Goto, chip
  <2>7. SetUpLate'
    BY <1>19 DEF IInv, SetUpLate, Starting, Keyboards, Port1, Goto, chip
  <2>8. (MailTypes /\ ListTypes /\ MessageTypes /\ KeyboardTypes
         /\ SetUpBySixth)'
    BY <1>19 DEF IInv, MailTypes, ListTypes, MessageTypes, KeyboardTypes,
       SetUpBySixth, List, Port1, main, chip
  <2>. QED
    BY <2>1, <2>2, <2>3, <2>4, <2>5, <2>6, <2>7, <2>8 DEF IInv
<1>20. CASE Port2
  <2>1. MainTypes'
    BY <1>20 DEF IInv, MainTypes, Locations, Port2, Goto, chip
  <2>2. PortTypes'
    <3>1. buf[2] \in Words
      BY ReportIs DEF IInv, MessageTypes
    <3>. QED
      BY <1>20, <3>1 DEF IInv, PortTypes, Port2
  <2>3. RunsItsList' /\ DoneIsOfTheList' /\ ResultIsOfTheList'
    BY <1>20 DEF IInv, RunsItsList, DoneIsOfTheList, ResultIsOfTheList, Active,
       List, Port2, Goto, chip
  <2>4. HalfWritten'
    BY <1>20 DEF IInv, HalfWritten, Port2, Goto, chip
  <2>5. OneReport'
    <3>1. buf \in Reports /\ buf \in [1 .. 2 -> Words]
      BY ReportIs DEF IInv, MessageTypes
    <3>2. ports[1] = buf[1] /\ ports \in [1 .. 2 -> Words]
      BY <1>20 DEF IInv, HalfWritten, PortTypes, Port2
    <3>3. [ports EXCEPT ![2] = buf[2]] = buf
      BY <3>1, <3>2
    <3>. QED
      BY <1>20, <3>1, <3>3 DEF OneReport, Port2
  <2>6. StartsAtOne' /\ PollsAreNotRetried' /\ CommandsFirst'
    BY <1>20 DEF IInv, StartsAtOne, PollsAreNotRetried, CommandsFirst,
       Starting, Port2, Goto, chip
  <2>7. SetUpLate'
    BY <1>20 DEF IInv, SetUpLate, Starting, Keyboards, Port2, Goto, chip
  <2>8. (MailTypes /\ ListTypes /\ MessageTypes /\ KeyboardTypes
         /\ SetUpBySixth)'
    BY <1>20 DEF IInv, MailTypes, ListTypes, MessageTypes, KeyboardTypes,
       SetUpBySixth, List, Port2, main, chip
  <2>. QED
    BY <2>1, <2>2, <2>3, <2>4, <2>5, <2>6, <2>7, <2>8 DEF IInv
<1>21. CASE StillThere
  <2>1. MainTypes'
    <3>1. CASE kb.here
      BY <1>21, <3>1 DEF IInv, MainTypes, Locations, StillThere, Goto
    <3>2. CASE ~ kb.here /\ tries < 7
      BY <1>21, <3>2 DEF IInv, MainTypes, Locations, StillThere, Goto
    <3>3. CASE ~ kb.here /\ ~ (tries < 7)
      BY <1>21, <3>3 DEF IInv, MainTypes, Locations, StillThere, Goto
    <3>. QED
      BY <3>1, <3>2, <3>3
  <2>2. RunsItsList' /\ DoneIsOfTheList' /\ ResultIsOfTheList'
    BY <1>21 DEF IInv, RunsItsList, DoneIsOfTheList, ResultIsOfTheList, Active,
       List, StillThere, Goto, chip
  <2>3. HalfWritten' /\ OneReport'
    BY <1>21 DEF IInv, HalfWritten, OneReport, StillThere, Goto, chip
  <2>4. StartsAtOne' /\ PollsAreNotRetried' /\ CommandsFirst'
    BY <1>21 DEF IInv, StartsAtOne, PollsAreNotRetried, CommandsFirst,
       Starting, StillThere, Goto, chip
  <2>5. SetUpLate'
    BY <1>21 DEF IInv, SetUpLate, Starting, Keyboards, StillThere, Goto, chip
  <2>6. (PortTypes /\ MailTypes /\ ListTypes /\ MessageTypes
         /\ KeyboardTypes /\ SetUpBySixth)'
    BY <1>21 DEF IInv, PortTypes, MailTypes, ListTypes, MessageTypes,
       KeyboardTypes, SetUpBySixth, List, StillThere, main, chip
  <2>. QED
    BY <2>1, <2>2, <2>3, <2>4, <2>5, <2>6 DEF IInv
<1>22. CASE Removed
  <2>1. MainTypes'
    BY <1>22 DEF IInv, MainTypes, Locations, Removed, Goto, chip
  <2>2. RunsItsList' /\ DoneIsOfTheList' /\ ResultIsOfTheList'
    BY <1>22 DEF IInv, RunsItsList, DoneIsOfTheList, ResultIsOfTheList, Active,
       List, Removed, Goto, chip
  <2>3. HalfWritten' /\ OneReport'
    BY <1>22 DEF IInv, HalfWritten, OneReport, Removed, Goto, chip
  <2>4. StartsAtOne' /\ PollsAreNotRetried' /\ CommandsFirst'
    BY <1>22 DEF IInv, StartsAtOne, PollsAreNotRetried, CommandsFirst,
       Starting, Removed, Goto, chip
  <2>5. SetUpLate'
    BY <1>22 DEF IInv, SetUpLate, Starting, Keyboards, Removed, Goto, chip
  <2>6. (PortTypes /\ MailTypes /\ ListTypes /\ MessageTypes
         /\ KeyboardTypes /\ SetUpBySixth)'
    BY <1>22 DEF IInv, PortTypes, MailTypes, ListTypes, MessageTypes,
       KeyboardTypes, SetUpBySixth, List, Removed, main, chip
  <2>. QED
    BY <2>1, <2>2, <2>3, <2>4, <2>5, <2>6 DEF IInv
<1>23. CASE ChipAnswer
  <2>. UNCHANGED <<pc, step, tries, toggle, ports, mem, run, msg, flag, buf>>
    BY <1>23 DEF ChipAnswer, main
  <2>1. cmd # "none" /\ cmd' = "none"
    BY <1>23 DEF ChipAnswer
  <2>2. step = 1
    BY <2>1 DEF IInv, CommandsFirst
  <2>3. ~ kb.configured /\ ~ kb.pending
    BY <2>2 DEF IInv, SetUpLate
  <2>4. \E a \in BOOLEAN : mail' = [of |-> cmd, ack |-> a, full |-> TRUE]
    BY <1>23, ConstantsAre DEF ChipAnswer
  <2>5. MailTypes'
    BY <2>1, <2>4 DEF IInv, MailTypes
  <2>6. \/ kb' = [[[kb EXCEPT !.address = 0] EXCEPT !.configured = FALSE]
                  EXCEPT !.bit = 0]
        \/ \E n \in BOOLEAN : kb' = [kb EXCEPT !.news = n]
    <3>1. CASE cmd = "reset"
      BY <1>23, <3>1 DEF ChipAnswer
    <3>2. CASE cmd # "reset"
      <4>1. kb.here \in BOOLEAN
        BY DEF IInv, KeyboardTypes, Keyboards
      <4>2. (Notices /\ kb.here) \in BOOLEAN
        OBVIOUS
      <4>. QED
        BY <1>23, <3>2, <4>2 DEF ChipAnswer
    <3>. QED
      BY <3>1, <3>2
  <2>7. KeyboardTypes'
    <3>1. kb \in Keyboards
      BY DEF IInv, KeyboardTypes
    <3>2. [kb EXCEPT !.address = 0] \in Keyboards
      BY <3>1, FieldIs
    <3>3. [[kb EXCEPT !.address = 0] EXCEPT !.configured = FALSE] \in Keyboards
      BY <3>2, FieldIs
    <3>4. [[[kb EXCEPT !.address = 0] EXCEPT !.configured = FALSE]
             EXCEPT !.bit = 0] \in Keyboards
      BY <3>3, BitIs
    <3>. HIDE DEF Keyboards
    <3>5. kb' \in Keyboards
      <4>1. \A b \in BOOLEAN : [kb EXCEPT !.news = b] \in Keyboards
        BY <3>1, FieldIs
      <4>. QED
        BY <2>6, <3>4, <4>1, Zenon
    <3>. QED
      BY <3>5 DEF KeyboardTypes
  <2>8. ~ kb'.configured /\ ~ kb'.pending
    BY <2>3, <2>6 DEF IInv, KeyboardTypes, Keyboards
  <2>9. SetUpLate'
    BY <2>8 DEF SetUpLate
  <2>10. CommandsFirst'
    BY <2>1 DEF CommandsFirst
  <2>11. MainTypes' /\ PortTypes' /\ ListTypes' /\ MessageTypes'
    BY DEF IInv, MainTypes, PortTypes, ListTypes, MessageTypes
  <2>12. RunsItsList' /\ DoneIsOfTheList' /\ ResultIsOfTheList' /\ HalfWritten'
    BY DEF IInv, RunsItsList, DoneIsOfTheList, ResultIsOfTheList, HalfWritten, List
  <2>13. OneReport' /\ StartsAtOne' /\ PollsAreNotRetried' /\ SetUpBySixth'
    BY DEF IInv, OneReport, StartsAtOne, PollsAreNotRetried, SetUpBySixth
  <2>. QED
    BY <2>5, <2>7, <2>9, <2>10, <2>11, <2>12, <2>13 DEF IInv
<1>24. CASE ChipFirst
  <2>. UNCHANGED <<pc, step, tries, toggle, ports, mail, cmd, msg, flag, buf, kb>>
    BY <1>24 DEF ChipFirst, main
  <2>1. Undisturbed /\ cmd = "none" /\ run.at = "first"
    BY <1>24 DEF ChipFirst
  <2>2. /\ pc \in {"flag", "wait", "erase more"}
        /\ run.list = List /\ mem.list = List
    BY <2>1, OnItsList
  <2>3. PICK c \in 0 .. 3 : mem' = [mem EXCEPT !.ctl = c]
    BY <1>24, ConstantsAre DEF ChipFirst, Good
  <2>4. /\ mem' \in [list : Names, ctl : 0 .. 19, bit : 0 .. 1]
        /\ mem'.list = mem.list /\ mem'.ctl = c
    BY <2>3, MemIs DEF IInv
  <2>5. /\ run' \in [at : {"off", "first", "rest"}, list : Names]
        /\ run'.at = "rest" /\ run'.list = run.list
    BY <1>24 DEF IInv, ListTypes, ChipFirst
  <2>6. ListTypes'
    BY <2>4, <2>5 DEF ListTypes
  <2>7. RunsItsList'
    <3>1. mem'.ctl # Active
      BY <2>4 DEF Active
    <3>. QED
      BY <2>2, <2>4, <2>5, <3>1 DEF RunsItsList, List
  <2>8. "done" \notin msg
    BY <2>1 DEF IInv, DoneIsOfTheList
  <2>9. DoneIsOfTheList' /\ ResultIsOfTheList' /\ CommandsFirst'
    BY <2>1, <2>2, <2>8 DEF DoneIsOfTheList, ResultIsOfTheList, CommandsFirst
  <2>10. SetUpBySixth'
    BY <2>1, <2>5 DEF IInv, SetUpBySixth
  <2>11. MainTypes' /\ PortTypes' /\ MailTypes' /\ MessageTypes' /\ KeyboardTypes'
    BY DEF IInv, MainTypes, PortTypes, MailTypes, MessageTypes, KeyboardTypes
  <2>12. /\ HalfWritten' /\ OneReport' /\ StartsAtOne'
         /\ PollsAreNotRetried' /\ SetUpLate'
    BY DEF IInv, HalfWritten, OneReport, StartsAtOne, PollsAreNotRetried, SetUpLate
  <2>. QED
    BY <2>6, <2>7, <2>9, <2>10, <2>11, <2>12 DEF IInv
<1>25. CASE ChipRest
  <2>. UNCHANGED <<pc, step, tries, toggle, ports, mail, cmd, mem, buf>>
    BY <1>25 DEF ChipRest, main
  <2>1. Undisturbed /\ run.at = "rest"
    BY <1>25 DEF ChipRest
  <2>2. /\ pc \in {"flag", "wait", "erase more"}
        /\ run.list = List /\ mem.list = List /\ mem.ctl # Active
    BY <2>1, OnItsList
  <2>3. run' = Off /\ msg' = msg \cup {"done"} /\ flag' = TRUE
    BY <1>25 DEF ChipRest, Post
  <2>4. cmd = "none"
    BY <2>1 DEF IInv, CommandsFirst
  <2>5. /\ KeyboardTypes'
        /\ SetUpLate'
    <3>1. kb \in Keyboards
      BY DEF IInv, KeyboardTypes
    <3>2. CASE kb' = kb
      BY <3>2 DEF IInv, KeyboardTypes, SetUpLate
    <3>3. CASE Answers /\ kb' = Obeys(kb)
      <4>1. CASE run.list = "set address"
        <5>1. kb' = [kb EXCEPT !.address = 2]
          BY <3>3, <4>1 DEF Obeys
        <5>. QED
          BY <3>1, <5>1, FieldIs DEF IInv, KeyboardTypes, SetUpLate, Keyboards
      <4>2. CASE run.list = "set config"
        <5>1. kb' = [[[kb EXCEPT !.configured = TRUE] EXCEPT !.bit = 0]
                     EXCEPT !.pending = FALSE]
          BY <3>3, <4>2 DEF Obeys
        <5>2. KeyboardTypes'
          <6>1. [kb EXCEPT !.configured = TRUE] \in Keyboards
            BY <3>1, FieldIs
          <6>2. [[kb EXCEPT !.configured = TRUE] EXCEPT !.bit = 0] \in Keyboards
            BY <6>1, BitIs
          <6>. QED
            BY <5>1, <6>2, FieldIs DEF KeyboardTypes
        <5>3. step = 6
          BY <2>1, <4>2 DEF IInv, SetUpBySixth
        <5>4. kb.here /\ kb.address = 2
          BY <3>3, <4>2 DEF Answers
        <5>5. kb'.here /\ kb'.address = 2 /\ ~ kb'.pending
          BY <3>1, <5>1, <5>4 DEF Keyboards
        <5>6. step' = 6 /\ pc' \notin {"removed", "hotplug"}
          BY <2>2, <5>3
        <5>7. SetUpLate'
          BY <5>5, <5>6 DEF SetUpLate
        <5>. QED
          BY <5>2, <5>7
      <4>3. CASE run.list \notin {"set address", "set config"}
        BY <3>2, <3>3, <4>3 DEF Obeys
      <4>. QED
        BY <4>1, <4>2, <4>3
    <3>. QED
      BY <1>25, <3>2, <3>3 DEF ChipRest
  <2>6. ListTypes' /\ RunsItsList' /\ SetUpBySixth'
    BY <2>3, RunIs DEF IInv, ListTypes, RunsItsList, SetUpBySixth
  <2>7. MessageTypes'
    BY <2>3 DEF IInv, MessageTypes
  <2>8. DoneIsOfTheList'
    BY <2>2, <2>3, RunIs DEF DoneIsOfTheList, List
  <2>9. CommandsFirst' /\ ResultIsOfTheList'
    BY <2>2, <2>4 DEF CommandsFirst, ResultIsOfTheList
  <2>10. MainTypes' /\ PortTypes' /\ MailTypes'
    BY DEF IInv, MainTypes, PortTypes, MailTypes
  <2>11. HalfWritten' /\ OneReport' /\ StartsAtOne' /\ PollsAreNotRetried'
    BY DEF IInv, HalfWritten, OneReport, StartsAtOne, PollsAreNotRetried
  <2>. QED
    BY <2>5, <2>6, <2>7, <2>8, <2>9, <2>10, <2>11 DEF IInv
<1>26. CASE ChipNoAnswer
  <2>. UNCHANGED <<pc, step, tries, toggle, ports, mail, cmd, buf, kb>>
    BY <1>26 DEF ChipNoAnswer, main
  <2>1. Undisturbed /\ run.at = "first" /\ run.list = "poll"
    BY <1>26 DEF ChipNoAnswer
  <2>2. /\ pc \in {"flag", "wait", "erase more"}
        /\ run.list = List /\ mem.list = List
    BY <2>1, OnItsList
  <2>3. run' = Off /\ msg' = msg \cup {"done"} /\ flag' = TRUE
    BY <1>26 DEF ChipNoAnswer, Post
  <2>4. /\ mem' \in [list : Names, ctl : 0 .. 19, bit : 0 .. 1]
        /\ mem'.list = mem.list /\ mem'.ctl = 0
    BY <1>26, MemIs DEF IInv, ChipNoAnswer
  <2>5. cmd = "none"
    <3>1. step = 10
      BY <2>1, <2>2, ListsAre DEF IInv, MainTypes, List
    <3>. QED
      BY <3>1 DEF IInv, CommandsFirst
  <2>6. ListTypes' /\ RunsItsList' /\ SetUpBySixth'
    BY <2>3, <2>4, RunIs DEF IInv, ListTypes, RunsItsList, SetUpBySixth
  <2>7. MessageTypes'
    BY <2>3 DEF IInv, MessageTypes
  <2>8. DoneIsOfTheList'
    <3>1. mem'.list = List'
      BY <2>2, <2>4 DEF List
    <3>2. mem'.ctl # Active
      BY <2>4 DEF Active
    <3>3. run'.at = "off"
      BY <2>3, RunIs
    <3>. QED
      BY <2>2, <2>3, <3>1, <3>3, <3>2 DEF DoneIsOfTheList
  <2>9. CommandsFirst' /\ ResultIsOfTheList'
    BY <2>2, <2>5 DEF CommandsFirst, ResultIsOfTheList
  <2>10. MainTypes' /\ PortTypes' /\ MailTypes' /\ KeyboardTypes' /\ SetUpLate'
    BY DEF IInv, MainTypes, PortTypes, MailTypes, KeyboardTypes, SetUpLate
  <2>11. HalfWritten' /\ OneReport' /\ StartsAtOne' /\ PollsAreNotRetried'
    BY DEF IInv, HalfWritten, OneReport, StartsAtOne, PollsAreNotRetried
  <2>. QED
    BY <2>6, <2>7, <2>8, <2>9, <2>10, <2>11 DEF IInv
<1>27. CASE ChipReport
  <2>. UNCHANGED <<pc, step, tries, toggle, ports, mail, cmd>>
    BY <1>27 DEF ChipReport, main
  <2>1. Undisturbed /\ run.at = "first" /\ run.list = "poll"
    BY <1>27 DEF ChipReport
  <2>2. /\ pc \in {"flag", "wait", "erase more"}
        /\ run.list = List /\ mem.list = List
    BY <2>1, OnItsList
  <2>3. kb \in Keyboards /\ 1 - kb.bit \in 0 .. 1
    BY DEF IInv, KeyboardTypes, Keyboards
  <2>4. kb' = [[kb EXCEPT !.pending = FALSE] EXCEPT !.bit = 1 - kb.bit]
    BY <1>27, <2>3 DEF ChipReport
  <2>5. KeyboardTypes'
    BY <2>3, <2>4, FieldIs DEF KeyboardTypes
  <2>6. SetUpLate'
    BY <2>3, <2>4 DEF IInv, SetUpLate, Keyboards
  <2>7. cmd = "none"
    <3>1. step = 10
      BY <2>1, <2>2, ListsAre DEF IInv, MainTypes, List
    <3>. QED
      BY <3>1 DEF IInv, CommandsFirst
  <2>8. CommandsFirst' /\ ResultIsOfTheList'
    BY <2>2, <2>7 DEF CommandsFirst, ResultIsOfTheList
  <2>9. MainTypes' /\ PortTypes' /\ MailTypes'
    BY DEF IInv, MainTypes, PortTypes, MailTypes
  <2>10. HalfWritten' /\ OneReport' /\ StartsAtOne' /\ PollsAreNotRetried'
    BY <2>2 DEF IInv, HalfWritten, OneReport, StartsAtOne, PollsAreNotRetried
  <2>11. CASE UNCHANGED <<buf, run, mem, msg, flag>>
    <3>1. ListTypes' /\ MessageTypes' /\ SetUpBySixth'
      BY <2>11 DEF IInv, ListTypes, MessageTypes, SetUpBySixth
    <3>2. RunsItsList'
      BY <2>11 DEF IInv, RunsItsList, List
    <3>3. DoneIsOfTheList'
      BY <2>11 DEF IInv, DoneIsOfTheList, List
    <3>. QED
      BY <2>5, <2>6, <2>8, <2>9, <2>10, <3>1, <3>2, <3>3 DEF IInv
  <2>12. CASE /\ buf' = kb.report /\ run' = Off
              /\ mem' = [mem EXCEPT !.ctl = 3] /\ Post("done")
    <3>1. msg' = msg \cup {"done"} /\ flag' = TRUE
      BY <2>12 DEF Post
    <3>2. /\ mem' \in [list : Names, ctl : 0 .. 19, bit : 0 .. 1]
          /\ mem'.list = mem.list /\ mem'.ctl = 3
      BY <2>12, MemIs DEF IInv
    <3>3. ListTypes' /\ RunsItsList' /\ SetUpBySixth'
      BY <2>12, <3>2, RunIs DEF ListTypes, RunsItsList, SetUpBySixth
    <3>4. kb.report \in Reports
      BY <2>3 DEF Keyboards
    <3>5. MessageTypes'
      BY <2>12, <3>1, <3>4 DEF IInv, MessageTypes
    <3>6. DoneIsOfTheList'
      <4>1. mem'.list = List'
        BY <2>2, <3>2 DEF List
      <4>2. mem'.ctl # Active
        BY <3>2 DEF Active
      <4>3. run'.at = "off"
        BY <2>12, RunIs
      <4>. QED
        BY <2>2, <3>1, <4>1, <4>3, <4>2 DEF DoneIsOfTheList
    <3>. QED
      BY <2>5, <2>6, <2>8, <2>9, <2>10, <3>3, <3>5, <3>6 DEF IInv
  <2>. QED
    BY <1>27, <2>11, <2>12 DEF ChipReport, Good
<1>28. CASE ChipNotice
  <2>. UNCHANGED <<pc, step, tries, toggle, ports, mail, cmd, mem, run, buf>>
    BY <1>28 DEF ChipNotice, main
  <2>1. msg' = msg \cup {"other"} /\ flag' = TRUE
    BY <1>28 DEF ChipNotice, Post
  <2>2. kb' = [kb EXCEPT !.news = FALSE] /\ kb \in Keyboards
    BY <1>28 DEF ChipNotice, IInv, KeyboardTypes
  <2>3. KeyboardTypes'
    BY <2>2, FieldIs DEF KeyboardTypes
  <2>4. SetUpLate'
    BY <2>2 DEF IInv, SetUpLate, Keyboards
  <2>5. MessageTypes'
    BY <2>1 DEF IInv, MessageTypes
  <2>6. DoneIsOfTheList' /\ CommandsFirst'
    BY <2>1 DEF IInv, DoneIsOfTheList, CommandsFirst, List
  <2>7. MainTypes' /\ PortTypes' /\ MailTypes' /\ ListTypes'
    BY DEF IInv, MainTypes, PortTypes, MailTypes, ListTypes
  <2>8. RunsItsList' /\ ResultIsOfTheList' /\ HalfWritten'
    BY DEF IInv, RunsItsList, ResultIsOfTheList, HalfWritten, List
  <2>9. OneReport' /\ StartsAtOne' /\ PollsAreNotRetried' /\ SetUpBySixth'
    BY DEF IInv, OneReport, StartsAtOne, PollsAreNotRetried, SetUpBySixth
  <2>. QED
    BY <2>3, <2>4, <2>5, <2>6, <2>7, <2>8, <2>9 DEF IInv
<1>29. CASE Press
  <2>1. UNCHANGED <<pc, step, tries, toggle, ports>>
    BY <1>29 DEF Press, main
  <2>2. UNCHANGED <<mail, cmd, mem, run, msg, flag, buf>>
    BY <1>29 DEF Press, chip
  <2>3. PICK r \in Reports :
          kb' = [[kb EXCEPT !.report = r] EXCEPT !.pending = TRUE]
    BY <1>29 DEF Press
  <2>4. KeyboardTypes'
    BY <2>3, FieldIs DEF IInv, KeyboardTypes
  <2>5. SetUpLate'
    BY <1>29, <2>1, <2>3 DEF IInv, SetUpLate, KeyboardTypes, Keyboards, Press
  <2>. QED
    BY <2>1, <2>2, <2>4, <2>5, Untouched DEF IInv
<1>30. CASE Pull
  <2>1. UNCHANGED <<pc, step, tries, toggle, ports>>
    BY <1>30 DEF Pull, main
  <2>2. UNCHANGED <<mail, cmd, mem, run, msg, flag, buf>>
    BY <1>30 DEF Pull, chip
  <2>3. kb' = [Away EXCEPT !.news = Notices]
    BY <1>30 DEF Pull
  <2>4. KeyboardTypes'
    BY <2>3, AwayIs, FieldIs, ConstantsAre DEF KeyboardTypes
  <2>5. SetUpLate'
    BY <2>3, AwayIs DEF SetUpLate, Keyboards
  <2>. QED
    BY <2>1, <2>2, <2>4, <2>5, Untouched DEF IInv
<1>31. CASE Plug
  <2>1. UNCHANGED <<pc, step, tries, toggle, ports>>
    BY <1>31 DEF Plug, main
  <2>2. UNCHANGED <<mail, cmd, mem, run, msg, flag, buf>>
    BY <1>31 DEF Plug, chip
  <2>3. kb' = [[Away EXCEPT !.here = TRUE] EXCEPT !.news = Notices]
    BY <1>31 DEF Plug
  <2>4. KeyboardTypes'
    BY <2>3, AwayIs, FieldIs, ConstantsAre DEF KeyboardTypes
  <2>5. SetUpLate'
    BY <2>3, AwayIs DEF SetUpLate, Keyboards
  <2>. QED
    BY <2>1, <2>2, <2>4, <2>5, Untouched DEF IInv
<1>32. CASE UNCHANGED vars
  <2>1. UNCHANGED <<pc, step, tries, toggle, ports, kb>>
    BY <1>32 DEF vars, main
  <2>2. UNCHANGED <<mail, cmd, mem, run, msg, flag, buf>>
    BY <1>32 DEF vars, chip
  <2>3. KeyboardTypes' /\ SetUpLate'
    BY <2>1 DEF IInv, KeyboardTypes, SetUpLate
  <2>. QED
    BY <2>1, <2>2, <2>3, Untouched DEF IInv
<1>. QED
  BY <1>1, <1>2, <1>3, <1>4, <1>5, <1>6, <1>7, <1>8, <1>9, <1>10, <1>11, <1>12,
     <1>13, <1>14, <1>15, <1>15a, <1>16, <1>17, <1>18, <1>19, <1>20, <1>21, <1>22,
     <1>23, <1>24, <1>25, <1>26, <1>27, <1>28, <1>29, <1>30, <1>31, <1>32
     DEF Next, Main, Start, Transfer, Loop, Chip

\* Under a controller that gets on with a list only while the program sleeps,
\* the inductive invariant holds throughout.
THEOREM HostIsInStep == Prompt /\ Spec => []IInv
<1>. SUFFICES ASSUME Prompt PROVE Spec => []IInv
  OBVIOUS
<1>1. Init => IInv
  BY InitIInv
<1>2. IInv /\ [Next]_vars => IInv'
  BY StepIInv
<1>. QED
  BY <1>1, <1>2, PTL DEF Spec

\* A step of main judges the finished result of its own list: UsbWaitTDListDone
\* never takes the message of another list, or of an earlier sending, for it.
THEOREM JudgesRight == Prompt /\ Spec => []JudgesItsOwnList
<1>1. IInv => JudgesItsOwnList
  BY DEF IInv, JudgesItsOwnList, RunsItsList, ResultIsOfTheList
<1>. QED
  BY <1>1, HostIsInStep, PTL

\* What the game reads from the two ports, once both are written, is one report
\* of the keyboard.
THEOREM ShowsOneReport == Prompt /\ Spec => []OneReport
<1>1. IInv => OneReport
  BY DEF IInv
<1>. QED
  BY <1>1, HostIsInStep, PTL

-----------------------------------------------------------------------------
(* A controller of any speed, on which transfers meet no errors *)

\* Where main is once it has seen a keyboard.
Sending == {"write", "kick", "flag", "wait", "erase", "erase more", "check",
            "retry", "retry erase", "retry wait", "recheck"}

\* Before the first list is sent the controller is on none.
LateStarts == /\ pc \in Starting => step = 1 /\ run.at = "off" /\ "done" \notin msg
              /\ pc = "hotplug" => step \in {1, 10}
              /\ pc \in {"retry", "retry erase", "retry wait", "recheck"} => step < 10
              /\ pc \in {"poll", "port 1", "port 2", "still", "removed"}
                   => step = 10
\* A command is carried out before the first list gets anywhere.
LateCommands == cmd # "none" => /\ step = 1 /\ run.at # "rest"
                                /\ "done" \notin msg
                                /\ pc \notin {"erase", "check"}
\* During the first list the keyboard stays, and the controller is on no other.
LateFirst ==
  step = 1 => /\ pc \in Sending => kb.here
              /\ pc \in Sending \ {"write"} => mem.list = "set address"
              /\ run.at # "off" => /\ kb.here /\ mem.list = "set address"
                                   /\ run.list = "set address"
              /\ run.at = "rest" /\ mem.ctl = 0 => kb.address = 2
              /\ "done" \in msg \/ pc \in {"erase", "check"} => kb.address = 2
\* When main looks at a result, a done message is the last.
LastMessage ==
  /\ pc \in {"check", "retry", "recheck"} /\ "done" \in msg => run.at = "off"
  /\ pc \in {"retry erase", "retry wait"} => run.at = "off"
LateAddressed == step \in 2 .. 9 => kb.address = 2
\* A list that sets the keyboard up is left behind by the next step's.
LateSixth == run.at # "off" /\ run.list = "set config" =>
               \/ step = 6
               \/ step = 7 /\ pc \in {"write", "kick"}

LateInv == /\ MainTypes /\ MailTypes /\ ListTypes /\ MessageTypes
           /\ KeyboardTypes
           /\ LateStarts /\ LateCommands /\ LateFirst /\ LastMessage
           /\ SetUpLate /\ LateSixth /\ LateAddressed /\ OnlyANoticeEndsIt

LEMMA LateIs ==
  /\ Late!Lists = Lists /\ Late!Poll = 10 /\ Late!List = List
  /\ Late!Polling <=> Polling
  /\ Late!Off = Off /\ Late!Away = Away
  /\ Late!Active = Active /\ Late!Good = Good /\ Late!Done = Done
<1>1. Late!Lists = Lists
  BY DEF Late!Lists, Lists
<1>2. Late!Poll = 10
  BY DEF Late!Poll, Late!Lists
<1>3. /\ Late!List = List
      /\ Late!Polling <=> Polling
  BY <1>1, <1>2, ListsAre DEF Late!List, List, Late!Polling, Polling
<1>4. Late!Off = Off /\ Late!Away = Away
  BY DEF Late!Off, Off, Late!Away, Away
<1>5. /\ Late!Active = Active /\ Late!Good = Good /\ Late!Done = Done
  BY DEF Late!Active, Active, Late!Good, Good, Late!Done, Done
<1>. QED
  BY <1>1, <1>2, <1>3, <1>4, <1>5

\* What is of main, and of the keyboard, does not depend on the controller.
LEMMA LateMainIs == Late!Main => Main
<1>1. Late!Start => Start
  BY LateIs DEF Late!Start, Start, Late!SoftReset, SoftReset, Late!InitSie, InitSie,
     Late!InitWait, InitWait, Late!InitRead, InitRead, Late!ResetUsb, ResetUsb,
     Late!ResetRead, ResetRead, Late!LookFor, LookFor, Late!Absent, Absent,
     Late!Execute, Execute, Late!ReadMailbox, ReadMailbox, Late!Goto, Goto,
     Late!chip, chip
<1>2. Late!Advance => Advance
  BY LateIs, ListsAre DEF Late!Advance, Advance, Late!Goto, Goto
<1>3. Late!Transfer => Transfer
  BY <1>2, LateIs DEF Late!Transfer, Transfer, Late!WriteList, WriteList,
     Late!Kick, Kick, Late!LookAtFlag, LookAtFlag, Late!WaitRead, WaitRead,
     Late!WaitErase, WaitErase, Late!Check, Check, Late!GetRetryCnt, GetRetryCnt,
     Late!RetryErase, RetryErase,
     Late!RetryWait, RetryWait, Late!Recheck, Recheck, Late!Goto, Goto,
     Late!chip, chip
<1>4. Late!Loop => Loop
  BY LateIs DEF Late!Loop, Loop, Late!NextPoll, NextPoll, Late!Port1, Port1,
     Late!Port2, Port2, Late!StillThere, StillThere, Late!Removed, Removed,
     Late!Goto, Goto, Late!chip, chip
<1>. QED
  BY <1>1, <1>3, <1>4 DEF Late!Main, Main

LEMMA LateOthersAre == /\ Late!ChipAnswer => ChipAnswer
                       /\ Late!ChipNotice => ChipNotice
                       /\ Late!Press => Press
                       /\ Late!Init => Init
BY LateIs DEF Late!ChipAnswer, ChipAnswer, Late!ChipNotice, ChipNotice,
   Late!Press, Press, Late!Post, Post, Late!main, main, Late!chip, chip,
   Late!Init, Init

LEMMA PollIs == Poll = 10
BY ListsAre

LEMMA FirstIs == step = 1 => List = "set address"
BY DEF List, Lists

LEMMA SixthIs ==
  ASSUME MainTypes PROVE List = "set config" <=> step = 6
BY ListsAre DEF MainTypes, List

\* A step on the slow controller.
LateStep == \/ Main \/ ChipAnswer \/ ChipNotice \/ Press
            \/ Late!ChipFirst \/ Late!ChipRest \/ Late!ChipNoAnswer
            \/ Late!ChipReport \/ Late!Pull \/ Late!Plug
            \/ UNCHANGED vars

\* What only concerns the keyboard.
LEMMA LateUntouched ==
  ASSUME LateInv, UNCHANGED <<pc, step, tries, toggle, ports>>,
         UNCHANGED <<mail, cmd, mem, run, msg, flag, buf>>
  PROVE  /\ MainTypes' /\ MailTypes' /\ ListTypes' /\ MessageTypes'
         /\ LateStarts' /\ LateCommands' /\ LateSixth' /\ LastMessage'
         /\ OnlyANoticeEndsIt'
         /\ kb'.here = kb.here /\ kb'.address = kb.address
              => LateFirst' /\ LateAddressed'
<1>1. MainTypes' /\ MailTypes' /\ ListTypes' /\ MessageTypes'
  BY DEF LateInv, MainTypes, MailTypes, ListTypes, MessageTypes
<1>2. /\ LateStarts' /\ LateCommands' /\ LateSixth' /\ LastMessage'
      /\ OnlyANoticeEndsIt'
  BY DEF LateInv, LateStarts, LateCommands, LateSixth, LastMessage, OnlyANoticeEndsIt
<1>3. ASSUME kb'.here = kb.here, kb'.address = kb.address
      PROVE  LateFirst' /\ LateAddressed'
  BY <1>3 DEF LateInv, LateFirst, LateAddressed
<1>. QED
  BY <1>1, <1>2, <1>3

LEMMA LateInit == Init => LateInv
<1>. SUFFICES ASSUME Init PROVE LateInv
  OBVIOUS
<1>1. IInv
  BY InitIInv
<1>2. run.at = "off" /\ pc = "hotplug" /\ step = 1 /\ msg = {} /\ cmd = "none"
  BY RunIs DEF Init
<1>3. LateStarts /\ LateCommands /\ LateFirst /\ LastMessage
  BY <1>2 DEF LateStarts, LateCommands, LateFirst, LastMessage, Starting, Sending
<1>4. SetUpLate /\ LateSixth /\ LateAddressed /\ OnlyANoticeEndsIt
  BY <1>1, <1>2 DEF IInv, LateSixth, LateAddressed, OnlyANoticeEndsIt
<1>. QED
  BY <1>1, <1>3, <1>4 DEF IInv, LateInv

LEMMA LateStepInv == ASSUME LateInv, LateStep PROVE LateInv'
<1>1. CASE SoftReset
  <2>1. MainTypes'
    BY <1>1 DEF LateInv, MainTypes, LateStarts, Locations, SoftReset, Off,
       Goto
  <2>2. MailTypes'
    BY <1>1 DEF LateInv, MailTypes, SoftReset, Off
  <2>3. MessageTypes'
    BY <1>1 DEF LateInv, MessageTypes, SoftReset, Off
  <2>4. ListTypes'
    BY <1>1, RunIs DEF LateInv, ListTypes, SoftReset
  <2>5. LateStarts' /\ LateCommands'
    BY <1>1, RunIs DEF LateInv, LateStarts, LateCommands, MainTypes, Starting,
       SoftReset, Off, Goto
  <2>6. LateFirst'
    BY <1>1, RunIs DEF LateInv, LateFirst, MainTypes, LateStarts, LateCommands,
       Sending, SoftReset, Off, Goto
  <2>7. SetUpLate' /\ LateSixth'
    BY <1>1, RunIs DEF LateInv, SetUpLate, LateSixth, MainTypes, LateStarts,
       KeyboardTypes, Keyboards, ListTypes, SoftReset, Off, Goto
  <2>8. LastMessage' /\ LateAddressed' /\ OnlyANoticeEndsIt'
    BY <1>1 DEF LateInv, LastMessage, LateAddressed, OnlyANoticeEndsIt,
       LateStarts, MainTypes, SoftReset, Off, Goto
  <2>9. (KeyboardTypes)'
    BY <1>1 DEF LateInv, KeyboardTypes, Keyboards, SoftReset
  <2>. QED
    BY <2>1, <2>2, <2>3, <2>4, <2>5, <2>6, <2>7, <2>8, <2>9 DEF LateInv
<1>2. CASE InitSie
  <2>1. MainTypes'
    BY <1>2 DEF LateInv, MainTypes, LateStarts, Locations, InitSie, Execute,
       Goto
  <2>2. MailTypes'
    BY <1>2 DEF LateInv, MailTypes, InitSie, Execute
  <2>3. LateStarts' /\ LateCommands'
    BY <1>2, RunIs DEF LateInv, LateStarts, LateCommands, MainTypes, Starting,
       InitSie, Execute, Goto
  <2>4. LateFirst'
    BY <1>2, RunIs DEF LateInv, LateFirst, MainTypes, LateStarts, LateCommands,
       Sending, InitSie, Execute, Goto
  <2>5. SetUpLate' /\ LateSixth'
    BY <1>2, RunIs DEF LateInv, SetUpLate, LateSixth, MainTypes, LateStarts,
       KeyboardTypes, Keyboards, ListTypes, InitSie, Execute, Goto
  <2>6. LastMessage' /\ OnlyANoticeEndsIt'
    <3>1. LastMessage'
      BY <1>2 DEF LateInv, LastMessage, LateStarts, InitSie, Execute, Goto
    <3>2. OnlyANoticeEndsIt'
      BY <1>2 DEF LateInv, OnlyANoticeEndsIt, LateStarts, InitSie, Execute, Goto
    <3>. QED
      BY <3>1, <3>2
  <2>7. (ListTypes /\ MessageTypes /\ KeyboardTypes)'
    <3>1. ListTypes'
      BY <1>2 DEF LateInv, ListTypes, InitSie, Execute
    <3>2. MessageTypes'
      BY <1>2 DEF LateInv, MessageTypes, InitSie, Execute
    <3>3. KeyboardTypes'
      BY <1>2 DEF LateInv, KeyboardTypes, InitSie, Execute
    <3>. QED
      BY <3>1, <3>2, <3>3
  <2>8. (LateAddressed)'
    BY <1>2 DEF LateInv, LateAddressed, InitSie, Execute
  <2>. QED
    BY <2>1, <2>2, <2>3, <2>4, <2>5, <2>6, <2>7, <2>8 DEF LateInv
<1>3. CASE InitWait
  <2>1. MainTypes'
    BY <1>3 DEF LateInv, MainTypes, LateStarts, Locations, InitWait, Goto,
       chip
  <2>2. LateStarts' /\ LateCommands'
    BY <1>3, RunIs DEF LateInv, LateStarts, LateCommands, MainTypes, Starting,
       InitWait, Goto, chip
  <2>3. LateFirst'
    BY <1>3, RunIs DEF LateInv, LateFirst, MainTypes, LateStarts, LateCommands,
       Sending, InitWait, Goto, chip
  <2>4. SetUpLate' /\ LateSixth'
    BY <1>3, RunIs DEF LateInv, SetUpLate, LateSixth, MainTypes, LateStarts,
       KeyboardTypes, Keyboards, ListTypes, InitWait, Goto, chip
  <2>5. LastMessage' /\ OnlyANoticeEndsIt'
    <3>1. LastMessage'
      BY <1>3 DEF LateInv, LastMessage, LateStarts, InitWait, Goto, chip
    <3>2. OnlyANoticeEndsIt'
      BY <1>3 DEF LateInv, OnlyANoticeEndsIt, LateStarts, InitWait, Goto, chip
    <3>. QED
      BY <3>1, <3>2
  <2>6. (MailTypes /\ ListTypes /\ MessageTypes /\ KeyboardTypes)'
    <3>1. MailTypes'
      BY <1>3 DEF LateInv, MailTypes, InitWait, chip
    <3>2. ListTypes'
      BY <1>3 DEF LateInv, ListTypes, InitWait, chip
    <3>3. MessageTypes'
      BY <1>3 DEF LateInv, MessageTypes, InitWait, chip
    <3>4. KeyboardTypes'
      BY <1>3 DEF LateInv, KeyboardTypes, InitWait, chip
    <3>. QED
      BY <3>1, <3>2, <3>3, <3>4
  <2>7. (LateAddressed)'
    BY <1>3 DEF LateInv, LateAddressed, InitWait, chip
  <2>. QED
    BY <2>1, <2>2, <2>3, <2>4, <2>5, <2>6, <2>7 DEF LateInv
<1>4. CASE InitRead
  <2>1. MainTypes'
    BY <1>4 DEF LateInv, MainTypes, LateStarts, Locations, InitRead,
       ReadMailbox, Goto
  <2>2. MailTypes'
    BY <1>4 DEF LateInv, MailTypes, InitRead, ReadMailbox
  <2>3. LateStarts' /\ LateCommands'
    BY <1>4, RunIs DEF LateInv, LateStarts, LateCommands, MainTypes, Starting,
       InitRead, ReadMailbox, Goto
  <2>4. LateFirst'
    BY <1>4, RunIs DEF LateInv, LateFirst, MainTypes, LateStarts, LateCommands,
       Sending, InitRead, ReadMailbox, Goto
  <2>5. SetUpLate'
    <3>1. step = 1
      BY <1>4 DEF LateInv, LateStarts, Starting, InitRead
    <3>2. ~ kb.configured
      BY <3>1 DEF LateInv, SetUpLate
    <3>. QED
      BY <1>4, <3>2 DEF LateInv, SetUpLate, InitRead, ReadMailbox
  <2>6. LateSixth'
    BY <1>4, RunIs DEF LateInv, LateSixth, MainTypes, LateStarts, ListTypes,
       InitRead, ReadMailbox, Goto
  <2>7. LastMessage' /\ OnlyANoticeEndsIt'
    <3>1. LastMessage'
      BY <1>4 DEF LateInv, LastMessage, LateStarts, InitRead, ReadMailbox, Goto
    <3>2. OnlyANoticeEndsIt'
      BY <1>4 DEF LateInv, OnlyANoticeEndsIt, LateStarts, InitRead, ReadMailbox,
         Goto
    <3>. QED
      BY <3>1, <3>2
  <2>8. (ListTypes /\ MessageTypes /\ KeyboardTypes)'
    <3>1. ListTypes'
      BY <1>4 DEF LateInv, ListTypes, InitRead, ReadMailbox
    <3>2. MessageTypes'
      BY <1>4 DEF LateInv, MessageTypes, InitRead, ReadMailbox
    <3>3. KeyboardTypes'
      BY <1>4 DEF LateInv, KeyboardTypes, InitRead, ReadMailbox
    <3>. QED
      BY <3>1, <3>2, <3>3
  <2>9. (LateAddressed)'
    BY <1>4 DEF LateInv, LateAddressed, InitRead, ReadMailbox
  <2>. QED
    BY <2>1, <2>2, <2>3, <2>4, <2>5, <2>6, <2>7, <2>8, <2>9 DEF LateInv
<1>5. CASE ResetUsb
  <2>1. MainTypes'
    BY <1>5 DEF LateInv, MainTypes, LateStarts, Locations, ResetUsb, Execute,
       Goto
  <2>2. MailTypes'
    BY <1>5 DEF LateInv, MailTypes, ResetUsb, Execute
  <2>3. LateStarts' /\ LateCommands'
    BY <1>5, RunIs DEF LateInv, LateStarts, LateCommands, MainTypes, Starting,
       ResetUsb, Execute, Goto
  <2>4. LateFirst'
    BY <1>5, RunIs DEF LateInv, LateFirst, MainTypes, LateStarts, LateCommands,
       Sending, ResetUsb, Execute, Goto
  <2>5. SetUpLate' /\ LateSixth'
    BY <1>5, RunIs DEF LateInv, SetUpLate, LateSixth, MainTypes, LateStarts,
       KeyboardTypes, Keyboards, ListTypes, ResetUsb, Execute, Goto
  <2>6. LastMessage' /\ OnlyANoticeEndsIt'
    <3>1. LastMessage'
      BY <1>5 DEF LateInv, LastMessage, LateStarts, ResetUsb, Execute, Goto
    <3>2. OnlyANoticeEndsIt'
      BY <1>5 DEF LateInv, OnlyANoticeEndsIt, LateStarts, ResetUsb, Execute, Goto
    <3>. QED
      BY <3>1, <3>2
  <2>7. (ListTypes /\ MessageTypes /\ KeyboardTypes)'
    <3>1. ListTypes'
      BY <1>5 DEF LateInv, ListTypes, ResetUsb, Execute
    <3>2. MessageTypes'
      BY <1>5 DEF LateInv, MessageTypes, ResetUsb, Execute
    <3>3. KeyboardTypes'
      BY <1>5 DEF LateInv, KeyboardTypes, ResetUsb, Execute
    <3>. QED
      BY <3>1, <3>2, <3>3
  <2>8. (LateAddressed)'
    BY <1>5 DEF LateInv, LateAddressed, ResetUsb, Execute
  <2>. QED
    BY <2>1, <2>2, <2>3, <2>4, <2>5, <2>6, <2>7, <2>8 DEF LateInv
<1>6. CASE ResetRead
  <2>1. MainTypes'
    BY <1>6 DEF LateInv, MainTypes, LateStarts, Locations, ResetRead,
       ReadMailbox, Goto
  <2>2. MailTypes'
    BY <1>6 DEF LateInv, MailTypes, ResetRead, ReadMailbox
  <2>3. LateStarts' /\ LateCommands'
    BY <1>6, RunIs DEF LateInv, LateStarts, LateCommands, MainTypes, Starting,
       ResetRead, ReadMailbox, Goto
  <2>4. LateFirst'
    BY <1>6, RunIs DEF LateInv, LateFirst, MainTypes, LateStarts, LateCommands,
       Sending, ResetRead, ReadMailbox, Goto
  <2>5. SetUpLate'
    <3>1. step = 1
      BY <1>6 DEF LateInv, LateStarts, Starting, ResetRead
    <3>2. ~ kb.configured
      BY <3>1 DEF LateInv, SetUpLate
    <3>. QED
      BY <1>6, <3>2 DEF LateInv, SetUpLate, ResetRead, ReadMailbox
  <2>6. LateSixth'
    BY <1>6, RunIs DEF LateInv, LateSixth, MainTypes, LateStarts, ListTypes,
       ResetRead, ReadMailbox, Goto
  <2>7. LastMessage' /\ OnlyANoticeEndsIt'
    <3>1. LastMessage'
      BY <1>6 DEF LateInv, LastMessage, LateStarts, ResetRead, ReadMailbox, Goto
    <3>2. OnlyANoticeEndsIt'
      BY <1>6 DEF LateInv, OnlyANoticeEndsIt, LateStarts, ResetRead, ReadMailbox,
         Goto
    <3>. QED
      BY <3>1, <3>2
  <2>8. (ListTypes /\ MessageTypes /\ KeyboardTypes)'
    <3>1. ListTypes'
      BY <1>6 DEF LateInv, ListTypes, ResetRead, ReadMailbox
    <3>2. MessageTypes'
      BY <1>6 DEF LateInv, MessageTypes, ResetRead, ReadMailbox
    <3>3. KeyboardTypes'
      BY <1>6 DEF LateInv, KeyboardTypes, ResetRead, ReadMailbox
    <3>. QED
      BY <3>1, <3>2, <3>3
  <2>9. (LateAddressed)'
    BY <1>6 DEF LateInv, LateAddressed, ResetRead, ReadMailbox
  <2>. QED
    BY <2>1, <2>2, <2>3, <2>4, <2>5, <2>6, <2>7, <2>8, <2>9 DEF LateInv
<1>7. CASE LookFor
  <2>1. MainTypes'
    <3>1. CASE kb.here
      BY <1>7, <3>1 DEF LateInv, MainTypes, Locations, LookFor, Goto
    <3>2. CASE ~ kb.here /\ tries < 5
      BY <1>7, <3>2 DEF LateInv, MainTypes, Locations, LookFor, Goto
    <3>3. CASE ~ kb.here /\ ~ (tries < 5)
      BY <1>7, <3>3 DEF LateInv, MainTypes, Locations, LookFor, Goto
    <3>. QED
      BY <3>1, <3>2, <3>3
  <2>2. LateStarts' /\ LateCommands'
    BY <1>7, RunIs DEF LateInv, LateStarts, LateCommands, MainTypes, Starting,
       LookFor, Goto, chip
  <2>3. LateFirst'
    BY <1>7, RunIs DEF LateInv, LateFirst, MainTypes, LateStarts, LateCommands,
       Sending, LookFor, Goto, chip
  <2>4. SetUpLate' /\ LateSixth'
    BY <1>7, RunIs DEF LateInv, SetUpLate, LateSixth, MainTypes, LateStarts,
       KeyboardTypes, Keyboards, ListTypes, LookFor, Goto, chip
  <2>5. LastMessage' /\ OnlyANoticeEndsIt'
    <3>1. LastMessage'
      BY <1>7 DEF LateInv, LastMessage, LateStarts, LookFor, Goto, chip
    <3>2. OnlyANoticeEndsIt'
      BY <1>7 DEF LateInv, OnlyANoticeEndsIt, LateStarts, LookFor, Goto, chip
    <3>. QED
      BY <3>1, <3>2
  <2>6. (MailTypes /\ ListTypes /\ MessageTypes /\ KeyboardTypes)'
    <3>1. MailTypes'
      BY <1>7 DEF LateInv, MailTypes, LookFor, chip
    <3>2. ListTypes'
      BY <1>7 DEF LateInv, ListTypes, LookFor, chip
    <3>3. MessageTypes'
      BY <1>7 DEF LateInv, MessageTypes, LookFor, chip
    <3>4. KeyboardTypes'
      BY <1>7 DEF LateInv, KeyboardTypes, LookFor, chip
    <3>. QED
      BY <3>1, <3>2, <3>3, <3>4
  <2>7. (LateAddressed)'
    BY <1>7 DEF LateInv, LateAddressed, LookFor, chip
  <2>. QED
    BY <2>1, <2>2, <2>3, <2>4, <2>5, <2>6, <2>7 DEF LateInv
<1>8. CASE Absent
  <2>1. MainTypes'
    BY <1>8 DEF LateInv, MainTypes, LateStarts, Locations, Absent, Goto, chip
  <2>2. LateStarts' /\ LateCommands'
    BY <1>8, RunIs DEF LateInv, LateStarts, LateCommands, MainTypes, Starting,
       Absent, Goto, chip
  <2>3. LateFirst'
    BY <1>8, RunIs DEF LateInv, LateFirst, MainTypes, LateStarts, LateCommands,
       Sending, Absent, Goto, chip
  <2>4. SetUpLate'
    <3>1. step = 1
      BY <1>8 DEF LateInv, LateStarts, Starting, Absent
    <3>2. ~ kb.configured
      BY <3>1 DEF LateInv, SetUpLate
    <3>. QED
      BY <1>8, <3>2 DEF LateInv, SetUpLate, Absent, chip
  <2>5. LateSixth'
    BY <1>8, RunIs DEF LateInv, LateSixth, MainTypes, LateStarts, ListTypes,
       Absent, Goto, chip
  <2>6. LastMessage' /\ OnlyANoticeEndsIt'
    <3>1. LastMessage'
      BY <1>8 DEF LateInv, LastMessage, LateStarts, Absent, Goto, chip
    <3>2. OnlyANoticeEndsIt'
      BY <1>8 DEF LateInv, OnlyANoticeEndsIt, LateStarts, Absent, Goto, chip
    <3>. QED
      BY <3>1, <3>2
  <2>7. (MailTypes /\ ListTypes /\ MessageTypes /\ KeyboardTypes)'
    <3>1. MailTypes'
      BY <1>8 DEF LateInv, MailTypes, Absent, chip
    <3>2. ListTypes'
      BY <1>8 DEF LateInv, ListTypes, Absent, chip
    <3>3. MessageTypes'
      BY <1>8 DEF LateInv, MessageTypes, Absent, chip
    <3>4. KeyboardTypes'
      BY <1>8 DEF LateInv, KeyboardTypes, Absent, chip
    <3>. QED
      BY <3>1, <3>2, <3>3, <3>4
  <2>8. (LateAddressed)'
    BY <1>8 DEF LateInv, LateAddressed, Absent, chip
  <2>. QED
    BY <2>1, <2>2, <2>3, <2>4, <2>5, <2>6, <2>7, <2>8 DEF LateInv
<1>9. CASE WriteList
  <2>1. MainTypes'
    BY <1>9 DEF LateInv, MainTypes, LateStarts, Locations, WriteList, List,
       Goto
  <2>2. ListTypes'
    <3>1. List \in Names
      BY ListsAre DEF LateInv, MainTypes, List
    <3>2. toggle \in 0 .. 1
      BY DEF LateInv, MainTypes
    <3>. QED
      BY <1>9, <3>1, <3>2 DEF LateInv, ListTypes, WriteList, Active
  <2>3. LateStarts' /\ LateCommands'
    BY <1>9, RunIs DEF LateInv, LateStarts, LateCommands, MainTypes, Starting,
       WriteList, List, Goto
  <2>4. LateFirst'
    <3>1. mem'.ctl # 0
      BY <1>9 DEF WriteList, Active
    <3>2. step = 1 => mem'.list = "set address"
      BY <1>9, FirstIs DEF WriteList
    <3>. QED
      BY <1>9, <3>1, <3>2 DEF LateInv, LateFirst, Sending, WriteList, Goto
  <2>5. SetUpLate' /\ LateSixth'
    BY <1>9, RunIs DEF LateInv, SetUpLate, LateSixth, MainTypes, LateStarts,
       KeyboardTypes, Keyboards, ListTypes, WriteList, List, Goto
  <2>6. LastMessage' /\ OnlyANoticeEndsIt'
    <3>1. LastMessage'
      BY <1>9 DEF LateInv, LastMessage, LateStarts, WriteList, List, Goto
    <3>2. OnlyANoticeEndsIt'
      BY <1>9 DEF LateInv, OnlyANoticeEndsIt, LateStarts, WriteList, List, Goto
    <3>. QED
      BY <3>1, <3>2
  <2>7. (MailTypes /\ MessageTypes /\ KeyboardTypes)'
    <3>1. MailTypes'
      BY <1>9 DEF LateInv, MailTypes, WriteList
    <3>2. MessageTypes'
      BY <1>9 DEF LateInv, MessageTypes, WriteList
    <3>3. KeyboardTypes'
      BY <1>9 DEF LateInv, KeyboardTypes, WriteList
    <3>. QED
      BY <3>1, <3>2, <3>3
  <2>8. (LateAddressed)'
    BY <1>9 DEF LateInv, LateAddressed, WriteList
  <2>. QED
    BY <2>1, <2>2, <2>3, <2>4, <2>5, <2>6, <2>7, <2>8 DEF LateInv
<1>10. CASE Kick
  <2>1. MainTypes'
    BY <1>10 DEF LateInv, MainTypes, LateStarts, Locations, Kick, List, Goto
  <2>2. ListTypes'
    <3>1. List \in Names
      BY ListsAre DEF LateInv, MainTypes, List
    <3>. QED
      BY <1>10, <3>1, RunIs DEF LateInv, ListTypes, Kick
  <2>3. LateStarts' /\ LateCommands'
    BY <1>10, RunIs DEF LateInv, LateStarts, LateCommands, MainTypes, Starting,
       Kick, List, Goto
  <2>4. LateFirst'
    BY <1>10, FirstIs, RunIs DEF LateInv, LateFirst, MainTypes, LateStarts,
       LateCommands, Sending, Kick, List, Goto
  <2>5. LateSixth'
    <3>1. List = "set config" <=> step = 6
      BY SixthIs DEF LateInv
    <3>. QED
      BY <1>10, <3>1, RunIs DEF LateInv, MainTypes, LateSixth, Kick
  <2>6. SetUpLate'
    BY <1>10 DEF LateInv, SetUpLate, MainTypes, LateStarts, KeyboardTypes,
       Keyboards, Kick, List, Goto
  <2>7. LastMessage' /\ OnlyANoticeEndsIt'
    <3>1. LastMessage'
      BY <1>10 DEF LateInv, LastMessage, LateStarts, Kick, List, Goto
    <3>2. OnlyANoticeEndsIt'
      BY <1>10 DEF LateInv, OnlyANoticeEndsIt, LateStarts, Kick, List, Goto
    <3>. QED
      BY <3>1, <3>2
  <2>8. (MailTypes /\ MessageTypes /\ KeyboardTypes)'
    <3>1. MailTypes'
      BY <1>10 DEF LateInv, MailTypes, Kick
    <3>2. MessageTypes'
      BY <1>10 DEF LateInv, MessageTypes, Kick
    <3>3. KeyboardTypes'
      BY <1>10 DEF LateInv, KeyboardTypes, Kick
    <3>. QED
      BY <3>1, <3>2, <3>3
  <2>9. (LateAddressed)'
    BY <1>10 DEF LateInv, LateAddressed, Kick
  <2>. QED
    BY <2>1, <2>2, <2>3, <2>4, <2>5, <2>6, <2>7, <2>8, <2>9 DEF LateInv
<1>11. CASE LookAtFlag
  <2>1. MainTypes'
    BY <1>11 DEF LateInv, MainTypes, LateStarts, Locations, LookAtFlag, Goto,
       chip
  <2>2. LateStarts' /\ LateCommands'
    BY <1>11, RunIs DEF LateInv, LateStarts, LateCommands, MainTypes, Starting,
       LookAtFlag, Goto, chip
  <2>3. LateFirst'
    BY <1>11, RunIs DEF LateInv, LateFirst, MainTypes, LateStarts,
       LateCommands, Sending, LookAtFlag, Goto, chip
  <2>4. SetUpLate' /\ LateSixth'
    BY <1>11, RunIs DEF LateInv, SetUpLate, LateSixth, MainTypes, LateStarts,
       KeyboardTypes, Keyboards, ListTypes, LookAtFlag, Goto, chip
  <2>5. LastMessage' /\ OnlyANoticeEndsIt'
    <3>1. LastMessage'
      BY <1>11 DEF LateInv, LastMessage, LateStarts, LookAtFlag, Goto, chip
    <3>2. OnlyANoticeEndsIt'
      BY <1>11 DEF LateInv, OnlyANoticeEndsIt, LateStarts, LookAtFlag, Goto, chip
    <3>. QED
      BY <3>1, <3>2
  <2>6. (MailTypes /\ ListTypes /\ MessageTypes /\ KeyboardTypes)'
    <3>1. MailTypes'
      BY <1>11 DEF LateInv, MailTypes, LookAtFlag, chip
    <3>2. ListTypes'
      BY <1>11 DEF LateInv, ListTypes, LookAtFlag, chip
    <3>3. MessageTypes'
      BY <1>11 DEF LateInv, MessageTypes, LookAtFlag, chip
    <3>4. KeyboardTypes'
      BY <1>11 DEF LateInv, KeyboardTypes, LookAtFlag, chip
    <3>. QED
      BY <3>1, <3>2, <3>3, <3>4
  <2>7. (LateAddressed)'
    BY <1>11 DEF LateInv, LateAddressed, LookAtFlag, chip
  <2>. QED
    BY <2>1, <2>2, <2>3, <2>4, <2>5, <2>6, <2>7 DEF LateInv
<1>12. CASE WaitRead
  <2>1. MainTypes'
    BY <1>12 DEF LateInv, MainTypes, LateStarts, Locations, WaitRead, Done,
       Goto
  <2>2. MessageTypes'
    BY <1>12 DEF LateInv, MessageTypes, WaitRead, Done
  <2>3. LateStarts' /\ LateCommands'
    BY <1>12, RunIs DEF LateInv, LateStarts, LateCommands, MainTypes, Starting,
       WaitRead, Done, Goto
  <2>4. LateFirst'
    BY <1>12, RunIs DEF LateInv, LateFirst, MainTypes, LateStarts,
       LateCommands, Sending, WaitRead, Done, Goto
  <2>5. SetUpLate' /\ LateSixth'
    BY <1>12, RunIs DEF LateInv, SetUpLate, LateSixth, MainTypes, LateStarts,
       KeyboardTypes, Keyboards, ListTypes, WaitRead, Done, Goto
  <2>6. LastMessage' /\ OnlyANoticeEndsIt'
    <3>1. LastMessage'
      BY <1>12 DEF LateInv, LastMessage, LateStarts, WaitRead, Done, Goto
    <3>2. OnlyANoticeEndsIt'
      BY <1>12 DEF LateInv, OnlyANoticeEndsIt, LateStarts, WaitRead, Done, Goto
    <3>. QED
      BY <3>1, <3>2
  <2>7. (MailTypes /\ ListTypes /\ KeyboardTypes)'
    <3>1. MailTypes'
      BY <1>12 DEF LateInv, MailTypes, WaitRead
    <3>2. ListTypes'
      BY <1>12 DEF LateInv, ListTypes, WaitRead
    <3>3. KeyboardTypes'
      BY <1>12 DEF LateInv, KeyboardTypes, WaitRead
    <3>. QED
      BY <3>1, <3>2, <3>3
  <2>8. (LateAddressed)'
    BY <1>12 DEF LateInv, LateAddressed, WaitRead
  <2>. QED
    BY <2>1, <2>2, <2>3, <2>4, <2>5, <2>6, <2>7, <2>8 DEF LateInv
<1>13. CASE WaitErase
  <2>1. MainTypes'
    BY <1>13 DEF LateInv, MainTypes, LateStarts, Locations, WaitErase, Goto
  <2>2. MessageTypes'
    BY <1>13 DEF LateInv, MessageTypes, WaitErase
  <2>3. LateStarts' /\ LateCommands'
    BY <1>13, RunIs DEF LateInv, LateStarts, LateCommands, MainTypes, Starting,
       WaitErase, Goto
  <2>4. LateFirst'
    BY <1>13, RunIs DEF LateInv, LateFirst, MainTypes, LateStarts,
       LateCommands, Sending, WaitErase, Goto
  <2>5. SetUpLate' /\ LateSixth'
    BY <1>13, RunIs DEF LateInv, SetUpLate, LateSixth, MainTypes, LateStarts,
       KeyboardTypes, Keyboards, ListTypes, WaitErase, Goto
  <2>6. LastMessage' /\ OnlyANoticeEndsIt'
    <3>1. LastMessage'
      BY <1>13 DEF LateInv, LastMessage, LateStarts, WaitErase, Goto
    <3>2. OnlyANoticeEndsIt'
      BY <1>13 DEF LateInv, OnlyANoticeEndsIt, LateStarts, WaitErase, Goto
    <3>. QED
      BY <3>1, <3>2
  <2>7. (MailTypes /\ ListTypes /\ KeyboardTypes)'
    <3>1. MailTypes'
      BY <1>13 DEF LateInv, MailTypes, WaitErase
    <3>2. ListTypes'
      BY <1>13 DEF LateInv, ListTypes, WaitErase
    <3>3. KeyboardTypes'
      BY <1>13 DEF LateInv, KeyboardTypes, WaitErase
    <3>. QED
      BY <3>1, <3>2, <3>3
  <2>8. (LateAddressed)'
    BY <1>13 DEF LateInv, LateAddressed, WaitErase
  <2>. QED
    BY <2>1, <2>2, <2>3, <2>4, <2>5, <2>6, <2>7, <2>8 DEF LateInv
<1>14. CASE Check
  <2>1. \/ pc' = "port 1" /\ step = 10 /\ step' = step /\ run' = run
        \/ pc' = "retry" /\ step < 10 /\ step' = step /\ run' = run
        \/ step < 10 /\ Advance
    <3>1. Polling <=> step = 10
      BY ListsAre DEF Polling
    <3>2. step \in 1 .. 10
      BY DEF LateInv, MainTypes
    <3>3. CASE Polling
      BY <1>14, <3>1, <3>3 DEF Check, Goto
    <3>4. CASE ~ Polling
      <4>1. step < 10
        BY <3>1, <3>2, <3>4
      <4>. QED
        BY <1>14, <3>4, <4>1 DEF Check, Goto
    <3>. QED
      BY <3>3, <3>4
  <2>. UNCHANGED <<tries, toggle, ports, mail, cmd, mem, msg, flag, buf, kb>>
    BY <1>14 DEF Check
  <2>2. step \in 1 .. 10
    BY DEF LateInv, MainTypes
  <2>3. (MailTypes /\ MessageTypes /\ KeyboardTypes)'
    <3>1. MailTypes'
      BY DEF LateInv, MailTypes
    <3>2. MessageTypes'
      BY DEF LateInv, MessageTypes
    <3>3. KeyboardTypes'
      BY DEF LateInv, KeyboardTypes
    <3>. QED
      BY <3>1, <3>2, <3>3
  <2>4. CASE step' = step /\ run' = run /\ pc' \in {"port 1", "retry", "hotplug"}
    <3>1. MainTypes' /\ ListTypes' /\ LateStarts' /\ LateCommands'
      BY <2>1, <2>4, <2>2, AdvanceIs DEF LateInv, MainTypes, Locations, ListTypes,
         LateStarts, LateCommands, Starting
    <3>2. LateFirst'
      BY <1>14, <2>4 DEF LateInv, LateFirst, Sending, Check
    <3>3. pc' # "removed" /\ (pc' = "hotplug" => step = 1)
      BY <2>1, <2>4, AdvanceIs DEF LateInv
    <3>4. SetUpLate'
      <4>1. step = 1 => ~ (step >= 6)
        OBVIOUS
      <4>2. kb.configured => pc' \notin {"removed", "hotplug"}
        BY <3>3, <4>1 DEF LateInv, SetUpLate
      <4>. QED
        BY <2>4, <4>2 DEF LateInv, SetUpLate
    <3>5. SetUpLate' /\ LateSixth'
      BY <1>14, <2>2, <2>4, <3>4 DEF LateInv, LateSixth, Check
    <3>6. LastMessage' /\ LateAddressed' /\ OnlyANoticeEndsIt'
      BY <1>14, <2>4 DEF LateInv, LastMessage, LateAddressed, OnlyANoticeEndsIt,
         Check
    <3>. QED
      BY <2>3, <3>1, <3>2, <3>6, <3>5 DEF LateInv
  <2>5. CASE step < 10 /\ Advance
    <3>1. /\ step' = step + 1 /\ step' \in 1 .. 10 /\ step' # 1
          /\ \/ pc' \in {"write", "poll"} /\ run' = run
             \/ pc' = "write" /\ run' = [at |-> "rest", list |-> "stray"]
      BY <2>2, <2>5, AdvanceIs DEF LateInv
    <3>2. pc' = "poll" => step' = 10
      BY <2>5, ListsAre DEF Advance, Goto
    <3>3. MainTypes' /\ ListTypes'
      BY <3>1, RunIs, NamesAre DEF LateInv, MainTypes, Locations, ListTypes
    <3>4. kb.address = 2
      <4>1. CASE step = 1
        BY <1>14, <4>1 DEF LateInv, LateFirst, Check
      <4>2. CASE step # 1
        BY <2>2, <2>5, <4>2 DEF LateInv, LateAddressed
      <4>. QED
        BY <4>1, <4>2
    <3>5. cmd = "none"
      BY <1>14 DEF LateInv, LateCommands, Check
    <3>6. LateStarts' /\ LateCommands'
      BY <3>1, <3>2, <3>5 DEF LateStarts, LateCommands, Starting
    <3>7. LateFirst' /\ LastMessage' /\ LateAddressed' /\ OnlyANoticeEndsIt'
      BY <3>1, <3>4 DEF LateFirst, LastMessage, LateAddressed, OnlyANoticeEndsIt
    <3>8. SetUpLate'
      BY <2>2, <3>1 DEF LateInv, SetUpLate
    <3>9. LateSixth'
      <4>1. CASE run' = run
        <5>1. run.at # "off" /\ run.list = "set config" => step = 6
          BY <1>14 DEF LateInv, LateSixth, Check
        <5>2. step = 6 => step' = 7 /\ pc' # "poll"
          BY <3>1, <3>2
        <5>. QED
          BY <3>1, <4>1, <5>1, <5>2 DEF LateSixth
      <4>2. CASE run' = [at |-> "rest", list |-> "stray"]
        BY <4>2 DEF LateSixth
      <4>. QED
        BY <3>1, <4>1, <4>2
    <3>. QED
      BY <2>3, <3>3, <3>6, <3>7, <3>8, <3>9 DEF LateInv
  <2>. QED
    BY <2>1, <2>4, <2>5
<1>15. CASE GetRetryCnt
  <2>1. MainTypes'
    BY <1>15 DEF LateInv, MainTypes, LateStarts, Locations, GetRetryCnt, Done,
       Goto
  <2>2. MessageTypes'
    BY <1>15 DEF LateInv, MessageTypes, GetRetryCnt, Done
  <2>3. LateStarts' /\ LateCommands'
    BY <1>15, RunIs DEF LateInv, LateStarts, LateCommands, MainTypes, Starting,
       GetRetryCnt, Done, Goto
  <2>4. LateFirst'
    BY <1>15, RunIs DEF LateInv, LateFirst, MainTypes, LateStarts,
       LateCommands, Sending, GetRetryCnt, Done, Goto
  <2>5. SetUpLate' /\ LateSixth'
    BY <1>15, RunIs DEF LateInv, SetUpLate, LateSixth, MainTypes, LateStarts,
       KeyboardTypes, Keyboards, ListTypes, GetRetryCnt, Done, Goto
  <2>6. LastMessage' /\ OnlyANoticeEndsIt'
    <3>1. LastMessage'
      BY <1>15 DEF LateInv, LastMessage, LateStarts, GetRetryCnt, Done, Goto
    <3>2. OnlyANoticeEndsIt'
      <4>1. \/ pc' = "retry erase" /\ pc = "retry" /\ "done" \in msg
            \/ pc' = "recheck"
        BY <1>15 DEF GetRetryCnt, Done, Goto
      <4>2. pc' \in {"retry erase", "retry wait"} => run.at = "off"
        BY <4>1 DEF LateInv, LastMessage
      <4>3. run' = run
        BY <1>15 DEF GetRetryCnt
      <4>. QED
        BY <4>2, <4>3 DEF OnlyANoticeEndsIt
    <3>. QED
      BY <3>1, <3>2
  <2>7. (MailTypes /\ ListTypes /\ KeyboardTypes)'
    <3>1. MailTypes'
      BY <1>15 DEF LateInv, MailTypes, GetRetryCnt
    <3>2. ListTypes'
      BY <1>15 DEF LateInv, ListTypes, GetRetryCnt
    <3>3. KeyboardTypes'
      BY <1>15 DEF LateInv, KeyboardTypes, GetRetryCnt
    <3>. QED
      BY <3>1, <3>2, <3>3
  <2>8. (LateAddressed)'
    BY <1>15 DEF LateInv, LateAddressed, GetRetryCnt
  <2>. QED
    BY <2>1, <2>2, <2>3, <2>4, <2>5, <2>6, <2>7, <2>8 DEF LateInv
<1>15a. CASE RetryErase
  <2>1. MainTypes'
    BY <1>15a DEF LateInv, MainTypes, LateStarts, Locations, RetryErase,
       Goto
  <2>2. MessageTypes'
    BY <1>15a DEF LateInv, MessageTypes, RetryErase
  <2>3. LateStarts' /\ LateCommands'
    BY <1>15a, RunIs DEF LateInv, LateStarts, LateCommands, MainTypes, Starting,
       RetryErase, Goto
  <2>4. LateFirst'
    BY <1>15a, RunIs DEF LateInv, LateFirst, MainTypes, LateStarts,
       LateCommands, Sending, RetryErase, Goto
  <2>5. SetUpLate' /\ LateSixth'
    BY <1>15a, RunIs DEF LateInv, SetUpLate, LateSixth, MainTypes, LateStarts,
       KeyboardTypes, Keyboards, ListTypes, RetryErase, Goto
  <2>6. LastMessage' /\ OnlyANoticeEndsIt'
    <3>1. LastMessage'
      BY <1>15a DEF LateInv, LastMessage, LateStarts, RetryErase, Goto
    <3>2. OnlyANoticeEndsIt'
      <4>1. pc = "retry erase"
        BY <1>15a DEF RetryErase
      <4>2. run.at = "off"
        BY <4>1 DEF LateInv, LastMessage
      <4>3. run' = run
        BY <1>15a DEF RetryErase
      <4>. QED
        BY <4>2, <4>3 DEF OnlyANoticeEndsIt
    <3>. QED
      BY <3>1, <3>2
  <2>7. (MailTypes /\ ListTypes /\ KeyboardTypes)'
    <3>1. MailTypes'
      BY <1>15a DEF LateInv, MailTypes, RetryErase
    <3>2. ListTypes'
      BY <1>15a DEF LateInv, ListTypes, RetryErase
    <3>3. KeyboardTypes'
      BY <1>15a DEF LateInv, KeyboardTypes, RetryErase
    <3>. QED
      BY <3>1, <3>2, <3>3
  <2>8. (LateAddressed)'
    BY <1>15a DEF LateInv, LateAddressed, RetryErase
  <2>. QED
    BY <2>1, <2>2, <2>3, <2>4, <2>5, <2>6, <2>7, <2>8 DEF LateInv
<1>16. CASE RetryWait
  <2>1. MainTypes'
    BY <1>16 DEF LateInv, MainTypes, LateStarts, Locations, RetryWait, Goto,
       chip
  <2>2. LateStarts' /\ LateCommands'
    BY <1>16, RunIs DEF LateInv, LateStarts, LateCommands, MainTypes, Starting,
       RetryWait, Goto, chip
  <2>3. LateFirst'
    BY <1>16, RunIs DEF LateInv, LateFirst, MainTypes, LateStarts,
       LateCommands, Sending, RetryWait, Goto, chip
  <2>4. SetUpLate' /\ LateSixth'
    BY <1>16, RunIs DEF LateInv, SetUpLate, LateSixth, MainTypes, LateStarts,
       KeyboardTypes, Keyboards, ListTypes, RetryWait, Goto, chip
  <2>5. LastMessage' /\ OnlyANoticeEndsIt'
    <3>1. LastMessage'
      BY <1>16 DEF LateInv, LastMessage, LateStarts, RetryWait, Goto, chip
    <3>2. OnlyANoticeEndsIt'
      BY <1>16 DEF LateInv, OnlyANoticeEndsIt, LateStarts, RetryWait, Goto, chip
    <3>. QED
      BY <3>1, <3>2
  <2>6. (MailTypes /\ ListTypes /\ MessageTypes /\ KeyboardTypes)'
    <3>1. MailTypes'
      BY <1>16 DEF LateInv, MailTypes, RetryWait, chip
    <3>2. ListTypes'
      BY <1>16 DEF LateInv, ListTypes, RetryWait, chip
    <3>3. MessageTypes'
      BY <1>16 DEF LateInv, MessageTypes, RetryWait, chip
    <3>4. KeyboardTypes'
      BY <1>16 DEF LateInv, KeyboardTypes, RetryWait, chip
    <3>. QED
      BY <3>1, <3>2, <3>3, <3>4
  <2>7. (LateAddressed)'
    BY <1>16 DEF LateInv, LateAddressed, RetryWait, chip
  <2>. QED
    BY <2>1, <2>2, <2>3, <2>4, <2>5, <2>6, <2>7 DEF LateInv
<1>17. CASE Recheck
  <2>1. \/ pc' = "hotplug" /\ step = 1 /\ step' = step /\ run' = run
        \/ pc' = "retry" /\ step < 10 /\ step' = step /\ run' = run
        \/ step # 1 /\ step < 10 /\ Advance
    BY <1>17 DEF LateInv, LateStarts, Recheck, Goto
  <2>. UNCHANGED <<tries, toggle, ports, mail, cmd, mem, msg, flag, buf, kb>>
    BY <1>17 DEF Recheck
  <2>2. step \in 1 .. 10
    BY DEF LateInv, MainTypes
  <2>3. (MailTypes /\ MessageTypes /\ KeyboardTypes)'
    <3>1. MailTypes'
      BY DEF LateInv, MailTypes
    <3>2. MessageTypes'
      BY DEF LateInv, MessageTypes
    <3>3. KeyboardTypes'
      BY DEF LateInv, KeyboardTypes
    <3>. QED
      BY <3>1, <3>2, <3>3
  <2>4. CASE step' = step /\ run' = run /\ pc' \in {"port 1", "retry", "hotplug"}
    <3>1. MainTypes' /\ ListTypes' /\ LateStarts' /\ LateCommands'
      BY <2>1, <2>4, AdvanceIs DEF LateInv, MainTypes, Locations, ListTypes,
         LateStarts, LateCommands, Starting
    <3>2. LateFirst'
      BY <1>17, <2>4 DEF LateInv, LateFirst, Sending, Recheck
    <3>3. pc' # "removed" /\ (pc' = "hotplug" => step = 1)
      BY <2>1, <2>4, AdvanceIs DEF LateInv
    <3>4. SetUpLate'
      <4>1. step = 1 => ~ (step >= 6)
        OBVIOUS
      <4>2. kb.configured => pc' \notin {"removed", "hotplug"}
        BY <3>3, <4>1 DEF LateInv, SetUpLate
      <4>. QED
        BY <2>4, <4>2 DEF LateInv, SetUpLate
    <3>5. SetUpLate' /\ LateSixth'
      BY <1>17, <2>2, <2>4, <3>4 DEF LateInv, LateSixth, Recheck
    <3>6. LastMessage' /\ LateAddressed' /\ OnlyANoticeEndsIt'
      BY <1>17, <2>4 DEF LateInv, LastMessage, LateAddressed, OnlyANoticeEndsIt,
         Recheck
    <3>. QED
      BY <2>3, <3>1, <3>2, <3>6, <3>5 DEF LateInv
  <2>5. CASE step < 10 /\ Advance
    <3>1. /\ step' = step + 1 /\ step' \in 1 .. 10 /\ step' # 1
          /\ \/ pc' \in {"write", "poll"} /\ run' = run
             \/ pc' = "write" /\ run' = [at |-> "rest", list |-> "stray"]
      BY <2>2, <2>5, AdvanceIs DEF LateInv
    <3>2. pc' = "poll" => step' = 10
      BY <2>5, ListsAre DEF Advance, Goto
    <3>3. MainTypes' /\ ListTypes'
      BY <3>1, RunIs, NamesAre DEF LateInv, MainTypes, Locations, ListTypes
    <3>4. step # 1
      BY <1>17, <2>1, <2>5, <3>1 DEF Goto
    <3>5. kb.address = 2
      BY <2>2, <2>5, <3>4 DEF LateInv, LateAddressed
    <3>6. cmd = "none"
      BY <3>4 DEF LateInv, LateCommands
    <3>7. LateStarts' /\ LateCommands'
      BY <3>1, <3>2, <3>6 DEF LateStarts, LateCommands, Starting
    <3>8. LateFirst' /\ LastMessage' /\ LateAddressed' /\ OnlyANoticeEndsIt'
      BY <3>1, <3>5 DEF LateFirst, LastMessage, LateAddressed, OnlyANoticeEndsIt
    <3>9. SetUpLate'
      BY <2>2, <3>1 DEF LateInv, SetUpLate
    <3>10. LateSixth'
      <4>1. CASE run' = run
        <5>1. run.at # "off" /\ run.list = "set config" => step = 6
          BY <1>17 DEF LateInv, LateSixth, Recheck
        <5>2. step = 6 => step' = 7 /\ pc' # "poll"
          BY <3>1, <3>2
        <5>. QED
          BY <3>1, <4>1, <5>1, <5>2 DEF LateSixth
      <4>2. CASE run' = [at |-> "rest", list |-> "stray"]
        BY <4>2 DEF LateSixth
      <4>. QED
        BY <3>1, <4>1, <4>2
    <3>. QED
      BY <2>3, <3>3, <3>7, <3>8, <3>9, <3>10 DEF LateInv
  <2>. QED
    BY <2>1, <2>4, <2>5
<1>18. CASE NextPoll
  <2>1. MainTypes'
    BY <1>18 DEF LateInv, MainTypes, LateStarts, Locations, NextPoll, Goto,
       chip
  <2>2. LateStarts' /\ LateCommands'
    BY <1>18, RunIs DEF LateInv, LateStarts, LateCommands, MainTypes, Starting,
       NextPoll, Goto, chip
  <2>3. LateFirst'
    <3>1. step = 10 /\ step' = step
      BY <1>18 DEF LateInv, LateStarts, NextPoll
    <3>2. step' # 1
      BY <3>1
    <3>. QED
      BY <3>2 DEF LateFirst
  <2>4. SetUpLate' /\ LateSixth'
    BY <1>18, RunIs DEF LateInv, SetUpLate, LateSixth, MainTypes, LateStarts,
       KeyboardTypes, Keyboards, ListTypes, NextPoll, Goto, chip
  <2>5. LastMessage' /\ OnlyANoticeEndsIt'
    <3>1. LastMessage'
      BY <1>18 DEF LateInv, LastMessage, LateStarts, NextPoll, Goto, chip
    <3>2. OnlyANoticeEndsIt'
      BY <1>18 DEF LateInv, OnlyANoticeEndsIt, LateStarts, NextPoll, Goto, chip
    <3>. QED
      BY <3>1, <3>2
  <2>6. (MailTypes /\ ListTypes /\ MessageTypes /\ KeyboardTypes)'
    <3>1. MailTypes'
      BY <1>18 DEF LateInv, MailTypes, NextPoll, chip
    <3>2. ListTypes'
      BY <1>18 DEF LateInv, ListTypes, NextPoll, chip
    <3>3. MessageTypes'
      BY <1>18 DEF LateInv, MessageTypes, NextPoll, chip
    <3>4. KeyboardTypes'
      BY <1>18 DEF LateInv, KeyboardTypes, NextPoll, chip
    <3>. QED
      BY <3>1, <3>2, <3>3, <3>4
  <2>7. (LateAddressed)'
    BY <1>18 DEF LateInv, LateAddressed, NextPoll, chip
  <2>. QED
    BY <2>1, <2>2, <2>3, <2>4, <2>5, <2>6, <2>7 DEF LateInv
<1>19. CASE Port1
  <2>1. MainTypes'
    BY <1>19 DEF LateInv, MainTypes, LateStarts, Locations, Port1, Goto, chip
  <2>2. LateStarts' /\ LateCommands'
    BY <1>19, RunIs DEF LateInv, LateStarts, LateCommands, MainTypes, Starting,
       Port1, Goto, chip
  <2>3. LateFirst'
    BY <1>19, RunIs DEF LateInv, LateFirst, MainTypes, LateStarts,
       LateCommands, Sending, Port1, Goto, chip
  <2>4. SetUpLate' /\ LateSixth'
    BY <1>19, RunIs DEF LateInv, SetUpLate, LateSixth, MainTypes, LateStarts,
       KeyboardTypes, Keyboards, ListTypes, Port1, Goto, chip
  <2>5. LastMessage' /\ OnlyANoticeEndsIt'
    <3>1. LastMessage'
      BY <1>19 DEF LateInv, LastMessage, LateStarts, Port1, Goto, chip
    <3>2. OnlyANoticeEndsIt'
      BY <1>19 DEF LateInv, OnlyANoticeEndsIt, LateStarts, Port1, Goto, chip
    <3>. QED
      BY <3>1, <3>2
  <2>6. (MailTypes /\ ListTypes /\ MessageTypes /\ KeyboardTypes)'
    <3>1. MailTypes'
      BY <1>19 DEF LateInv, MailTypes, Port1, chip
    <3>2. ListTypes'
      BY <1>19 DEF LateInv, ListTypes, Port1, chip
    <3>3. MessageTypes'
      BY <1>19 DEF LateInv, MessageTypes, Port1, chip
    <3>4. KeyboardTypes'
      BY <1>19 DEF LateInv, KeyboardTypes, Port1, chip
    <3>. QED
      BY <3>1, <3>2, <3>3, <3>4
  <2>7. (LateAddressed)'
    BY <1>19 DEF LateInv, LateAddressed, Port1, chip
  <2>. QED
    BY <2>1, <2>2, <2>3, <2>4, <2>5, <2>6, <2>7 DEF LateInv
<1>20. CASE Port2
  <2>1. MainTypes'
    BY <1>20 DEF LateInv, MainTypes, LateStarts, Locations, Port2, Goto, chip
  <2>2. LateStarts' /\ LateCommands'
    BY <1>20, RunIs DEF LateInv, LateStarts, LateCommands, MainTypes, Starting,
       Port2, Goto, chip
  <2>3. LateFirst'
    BY <1>20, RunIs DEF LateInv, LateFirst, MainTypes, LateStarts,
       LateCommands, Sending, Port2, Goto, chip
  <2>4. SetUpLate' /\ LateSixth'
    BY <1>20, RunIs DEF LateInv, SetUpLate, LateSixth, MainTypes, LateStarts,
       KeyboardTypes, Keyboards, ListTypes, Port2, Goto, chip
  <2>5. LastMessage' /\ OnlyANoticeEndsIt'
    <3>1. LastMessage'
      BY <1>20 DEF LateInv, LastMessage, LateStarts, Port2, Goto, chip
    <3>2. OnlyANoticeEndsIt'
      BY <1>20 DEF LateInv, OnlyANoticeEndsIt, LateStarts, Port2, Goto, chip
    <3>. QED
      BY <3>1, <3>2
  <2>6. (MailTypes /\ ListTypes /\ MessageTypes /\ KeyboardTypes)'
    <3>1. MailTypes'
      BY <1>20 DEF LateInv, MailTypes, Port2, chip
    <3>2. ListTypes'
      BY <1>20 DEF LateInv, ListTypes, Port2, chip
    <3>3. MessageTypes'
      BY <1>20 DEF LateInv, MessageTypes, Port2, chip
    <3>4. KeyboardTypes'
      BY <1>20 DEF LateInv, KeyboardTypes, Port2, chip
    <3>. QED
      BY <3>1, <3>2, <3>3, <3>4
  <2>7. (LateAddressed)'
    BY <1>20 DEF LateInv, LateAddressed, Port2, chip
  <2>. QED
    BY <2>1, <2>2, <2>3, <2>4, <2>5, <2>6, <2>7 DEF LateInv
<1>21. CASE StillThere
  <2>1. MainTypes'
    <3>1. CASE kb.here
      BY <1>21, <3>1 DEF LateInv, MainTypes, Locations, StillThere, Goto
    <3>2. CASE ~ kb.here /\ tries < 7
      BY <1>21, <3>2 DEF LateInv, MainTypes, Locations, StillThere, Goto
    <3>3. CASE ~ kb.here /\ ~ (tries < 7)
      BY <1>21, <3>3 DEF LateInv, MainTypes, Locations, StillThere, Goto
    <3>. QED
      BY <3>1, <3>2, <3>3
  <2>2. LateStarts' /\ LateCommands'
    BY <1>21, RunIs DEF LateInv, LateStarts, LateCommands, MainTypes, Starting,
       StillThere, Goto, chip
  <2>3. LateFirst'
    BY <1>21, RunIs DEF LateInv, LateFirst, MainTypes, LateStarts,
       LateCommands, Sending, StillThere, Goto, chip
  <2>4. SetUpLate' /\ LateSixth'
    BY <1>21, RunIs DEF LateInv, SetUpLate, LateSixth, MainTypes, LateStarts,
       KeyboardTypes, Keyboards, ListTypes, StillThere, Goto, chip
  <2>5. LastMessage' /\ OnlyANoticeEndsIt'
    <3>1. LastMessage'
      BY <1>21 DEF LateInv, LastMessage, LateStarts, StillThere, Goto, chip
    <3>2. OnlyANoticeEndsIt'
      BY <1>21 DEF LateInv, OnlyANoticeEndsIt, LateStarts, StillThere, Goto, chip
    <3>. QED
      BY <3>1, <3>2
  <2>6. (MailTypes /\ ListTypes /\ MessageTypes /\ KeyboardTypes)'
    <3>1. MailTypes'
      BY <1>21 DEF LateInv, MailTypes, StillThere, chip
    <3>2. ListTypes'
      BY <1>21 DEF LateInv, ListTypes, StillThere, chip
    <3>3. MessageTypes'
      BY <1>21 DEF LateInv, MessageTypes, StillThere, chip
    <3>4. KeyboardTypes'
      BY <1>21 DEF LateInv, KeyboardTypes, StillThere, chip
    <3>. QED
      BY <3>1, <3>2, <3>3, <3>4
  <2>7. (LateAddressed)'
    BY <1>21 DEF LateInv, LateAddressed, StillThere, chip
  <2>. QED
    BY <2>1, <2>2, <2>3, <2>4, <2>5, <2>6, <2>7 DEF LateInv
<1>22. CASE Removed
  <2>1. MainTypes'
    BY <1>22 DEF LateInv, MainTypes, LateStarts, Locations, Removed, Goto,
       chip
  <2>2. LateStarts' /\ LateCommands'
    BY <1>22, RunIs DEF LateInv, LateStarts, LateCommands, MainTypes, Starting,
       Removed, Goto, chip
  <2>3. LateFirst'
    BY <1>22, RunIs DEF LateInv, LateFirst, MainTypes, LateStarts,
       LateCommands, Sending, Removed, Goto, chip
  <2>4. SetUpLate' /\ LateSixth'
    BY <1>22, RunIs DEF LateInv, SetUpLate, LateSixth, MainTypes, LateStarts,
       KeyboardTypes, Keyboards, ListTypes, Removed, Goto, chip
  <2>5. LastMessage' /\ OnlyANoticeEndsIt'
    <3>1. LastMessage'
      BY <1>22 DEF LateInv, LastMessage, LateStarts, Removed, Goto, chip
    <3>2. OnlyANoticeEndsIt'
      BY <1>22 DEF LateInv, OnlyANoticeEndsIt, LateStarts, Removed, Goto, chip
    <3>. QED
      BY <3>1, <3>2
  <2>6. (MailTypes /\ ListTypes /\ MessageTypes /\ KeyboardTypes)'
    <3>1. MailTypes'
      BY <1>22 DEF LateInv, MailTypes, Removed, chip
    <3>2. ListTypes'
      BY <1>22 DEF LateInv, ListTypes, Removed, chip
    <3>3. MessageTypes'
      BY <1>22 DEF LateInv, MessageTypes, Removed, chip
    <3>4. KeyboardTypes'
      BY <1>22 DEF LateInv, KeyboardTypes, Removed, chip
    <3>. QED
      BY <3>1, <3>2, <3>3, <3>4
  <2>7. (LateAddressed)'
    BY <1>22 DEF LateInv, LateAddressed, Removed, chip
  <2>. QED
    BY <2>1, <2>2, <2>3, <2>4, <2>5, <2>6, <2>7 DEF LateInv
<1>23. CASE ChipAnswer
  <2>. UNCHANGED <<pc, step, tries, toggle, ports, mem, run, msg, flag, buf>>
    BY <1>23 DEF ChipAnswer, main
  <2>1. cmd # "none" /\ cmd' = "none"
    BY <1>23 DEF ChipAnswer
  <2>2. /\ step = 1 /\ run.at # "rest" /\ "done" \notin msg
        /\ pc \notin {"erase", "check"}
    BY <2>1 DEF LateInv, LateCommands
  <2>3. \E a \in BOOLEAN : mail' = [of |-> cmd, ack |-> a, full |-> TRUE]
    BY <1>23, ConstantsAre DEF ChipAnswer
  <2>4. MailTypes'
    BY <2>1, <2>3 DEF LateInv, MailTypes
  <2>5. \/ kb' = [[[kb EXCEPT !.address = 0] EXCEPT !.configured = FALSE]
                  EXCEPT !.bit = 0]
        \/ \E n \in BOOLEAN : kb' = [kb EXCEPT !.news = n]
    <3>1. CASE cmd = "reset"
      BY <1>23, <3>1 DEF ChipAnswer
    <3>2. CASE cmd # "reset"
      <4>1. (Notices /\ kb.here) \in BOOLEAN
        OBVIOUS
      <4>. QED
        BY <1>23, <3>2, <4>1 DEF ChipAnswer
    <3>. QED
      BY <3>1, <3>2
  <2>6. KeyboardTypes'
    <3>1. kb \in Keyboards
      BY DEF LateInv, KeyboardTypes
    <3>2. [kb EXCEPT !.address = 0] \in Keyboards
      BY <3>1, FieldIs
    <3>3. [[kb EXCEPT !.address = 0] EXCEPT !.configured = FALSE] \in Keyboards
      BY <3>2, FieldIs
    <3>4. [[[kb EXCEPT !.address = 0] EXCEPT !.configured = FALSE]
             EXCEPT !.bit = 0] \in Keyboards
      BY <3>3, BitIs
    <3>. HIDE DEF Keyboards
    <3>5. kb' \in Keyboards
      <4>1. \A b \in BOOLEAN : [kb EXCEPT !.news = b] \in Keyboards
        BY <3>1, FieldIs
      <4>. QED
        BY <2>5, <3>4, <4>1, Zenon
    <3>. QED
      BY <3>5 DEF KeyboardTypes
  <2>7. /\ kb'.here = kb.here
        /\ SetUpLate'
    <3>1. ~ kb.configured /\ ~ kb.pending
      BY <2>2 DEF LateInv, SetUpLate
    <3>2. ~ kb'.configured /\ ~ kb'.pending /\ kb'.here = kb.here
      BY <2>5, <3>1 DEF LateInv, KeyboardTypes, Keyboards
    <3>. QED
      BY <3>2 DEF SetUpLate
  <2>8. LateFirst'
    BY <2>2, <2>7 DEF LateInv, LateFirst
  <2>9. /\ LateStarts' /\ LateSixth' /\ LastMessage' /\ OnlyANoticeEndsIt'
    BY <2>2 DEF LateInv, LateStarts, LateSixth, LastMessage, OnlyANoticeEndsIt
  <2>10. LateAddressed'
    BY <2>2 DEF LateAddressed
  <2>11. (MainTypes /\ ListTypes /\ MessageTypes /\ LateCommands)'
    BY <2>1 DEF LateInv, MainTypes, ListTypes, MessageTypes, LateCommands
  <2>. QED
    BY <2>4, <2>6, <2>7, <2>8, <2>9, <2>11, <2>10 DEF LateInv
<1>24. CASE Late!ChipFirst
  <2>. UNCHANGED <<pc, step, tries, toggle, ports, mail, cmd, msg, flag, buf, kb>>
    BY <1>24 DEF Late!ChipFirst, Late!main
  <2>1. cmd = "none" /\ run.at = "first"
    BY <1>24 DEF Late!ChipFirst
  <2>2. PICK c \in 0 .. 19 : /\ mem' = [mem EXCEPT !.ctl = c]
                             /\ c = 0 => ~ Late!Answers
    <3>1. CASE Late!Answers
      BY <1>24, <3>1, LateIs DEF Late!ChipFirst, Good
    <3>2. CASE ~ Late!Answers
      BY <1>24, <3>2 DEF Late!ChipFirst
    <3>. QED
      BY <3>1, <3>2
  <2>3. /\ mem' \in [list : Names, ctl : 0 .. 19, bit : 0 .. 1]
        /\ mem'.list = mem.list /\ mem'.ctl = c
    BY <2>2, MemIs DEF LateInv
  <2>4. /\ run' \in [at : {"off", "first", "rest"}, list : Names]
        /\ run'.at = "rest" /\ run'.list = run.list
    BY <1>24 DEF LateInv, ListTypes, Late!ChipFirst
  <2>5. ListTypes'
    BY <2>3, <2>4 DEF ListTypes
  <2>6. kb.address \in {0, 2}
    BY DEF LateInv, KeyboardTypes, Keyboards
  <2>7. LateFirst'
    BY <2>1, <2>2, <2>3, <2>4, <2>6 DEF LateInv, LateFirst, Late!Answers
  <2>8. /\ LateStarts' /\ LateCommands' /\ LateSixth' /\ LastMessage'
        /\ OnlyANoticeEndsIt'
    BY <2>1, <2>4 DEF LateInv, LateStarts, LateCommands, LateSixth, LastMessage,
       OnlyANoticeEndsIt
  <2>9. MainTypes' /\ MailTypes' /\ MessageTypes' /\ KeyboardTypes'
    BY DEF LateInv, MainTypes, MailTypes, MessageTypes, KeyboardTypes
  <2>10. SetUpLate' /\ LateAddressed'
    BY DEF LateInv, SetUpLate, LateAddressed
  <2>. QED
    BY <2>5, <2>7, <2>8, <2>9, <2>10 DEF LateInv
<1>25. CASE Late!ChipRest
  <2>. UNCHANGED <<pc, step, tries, toggle, ports, mail, cmd, mem, buf>>
    BY <1>25 DEF Late!ChipRest, Late!main
  <2>1. run.at = "rest"
    BY <1>25 DEF Late!ChipRest
  <2>2. run' = Off /\ msg' = msg \cup {"done"} /\ flag' = TRUE
    BY <1>25, LateIs DEF Late!ChipRest, Late!Post
  <2>3. \/ kb' = kb
        \/ run.list = "set address" /\ kb' = [kb EXCEPT !.address = 2]
        \/ /\ run.list = "set config" /\ kb.here /\ kb.address = 2
           /\ kb' = [[[kb EXCEPT !.configured = TRUE] EXCEPT !.bit = 0]
                       EXCEPT !.pending = FALSE]
    <3>1. kb' = kb \/ (Late!Answers /\ kb' = Late!Obeys(kb))
      BY <1>25 DEF Late!ChipRest
    <3>2. CASE run.list = "set address"
      BY <3>1, <3>2 DEF Late!Obeys
    <3>3. CASE run.list = "set config"
      BY <3>1, <3>3 DEF Late!Obeys, Late!Answers
    <3>4. CASE run.list \notin {"set address", "set config"}
      BY <3>1, <3>4 DEF Late!Obeys
    <3>. QED
      BY <3>2, <3>3, <3>4
  <2>4. kb \in Keyboards
    BY DEF LateInv, KeyboardTypes
  <2>5. KeyboardTypes'
    <3>1. [kb EXCEPT !.configured = TRUE] \in Keyboards
      BY <2>4, FieldIs
    <3>2. [[kb EXCEPT !.configured = TRUE] EXCEPT !.bit = 0] \in Keyboards
      BY <3>1, BitIs
    <3>3. [[[kb EXCEPT !.configured = TRUE] EXCEPT !.bit = 0]
             EXCEPT !.pending = FALSE] \in Keyboards
      BY <3>2, FieldIs
    <3>. QED
      BY <2>3, <2>4, <3>3, FieldIs DEF KeyboardTypes
  <2>6. /\ kb'.here = kb.here
        /\ kb'.address = kb.address \/ kb'.address = 2
    BY <2>3, <2>4 DEF Keyboards
  <2>7. SetUpLate'
    <3>1. CASE run.list = "set config" /\ kb' # kb
      <4>1. step \in {6, 7} /\ pc \notin {"removed", "hotplug"}
        <5>1. step = 6 \/ step = 7
          BY <2>1, <3>1 DEF LateInv, LateSixth
        <5>2. step # 1 /\ step # 10
          BY <5>1
        <5>. QED
          BY <5>1, <5>2 DEF LateInv, LateStarts
      <4>2. kb'.here /\ kb'.address = 2 /\ kb'.configured
        BY <2>3, <2>4, <3>1 DEF Keyboards
      <4>. QED
        BY <4>1, <4>2 DEF SetUpLate
    <3>2. CASE run.list # "set config" \/ kb' = kb
      <4>1. /\ kb'.configured = kb.configured /\ kb'.pending = kb.pending
        BY <2>3, <2>4, <3>2 DEF Keyboards
      <4>. QED
        BY <2>4, <2>6, <4>1 DEF LateInv, SetUpLate, Keyboards
    <3>. QED
      BY <3>1, <3>2
  <2>8. step = 1 => kb'.address = 2
    <3>1. CASE step = 1 /\ kb.address = 2
      BY <2>6, <3>1
    <3>2. CASE step = 1 /\ kb.address # 2
      <4>1. /\ run.list = "set address" /\ mem.list = run.list
            /\ kb.here /\ mem.ctl # 0
        BY <2>1, <3>2 DEF LateInv, LateFirst
      <4>2. Late!Answers
        BY <2>4, <3>2, <4>1 DEF Late!Answers, Keyboards
      <4>3. kb' = [kb EXCEPT !.address = 2]
        BY <1>25, <4>1, <4>2 DEF Late!ChipRest, Late!Obeys
      <4>. QED
        BY <2>4, <4>3 DEF Keyboards
    <3>. QED
      BY <3>1, <3>2
  <2>9. LateFirst'
    BY <2>2, <2>6, <2>8, RunIs DEF LateInv, LateFirst
  <2>10. LateCommands' /\ LateAddressed'
    BY <2>1, <2>6 DEF LateInv, LateCommands, LateAddressed
  <2>11. LateStarts' /\ LateSixth' /\ LastMessage' /\ OnlyANoticeEndsIt'
    BY <2>1, <2>2, RunIs DEF LateInv, LateStarts, LateSixth, LastMessage,
       OnlyANoticeEndsIt
  <2>12. MainTypes' /\ MailTypes' /\ ListTypes' /\ MessageTypes'
    BY <2>2, RunIs DEF LateInv, MainTypes, MailTypes, ListTypes, MessageTypes
  <2>. QED
    BY <2>5, <2>9, <2>10, <2>11, <2>12, <2>7 DEF LateInv
<1>26. CASE Late!ChipNoAnswer
  <2>. UNCHANGED <<pc, step, tries, toggle, ports, mail, cmd, buf, kb>>
    BY <1>26 DEF Late!ChipNoAnswer, Late!main
  <2>1. run.at = "first" /\ run.list = "poll"
    BY <1>26 DEF Late!ChipNoAnswer
  <2>2. run' = Off /\ msg' = msg \cup {"done"} /\ flag' = TRUE
    BY <1>26, LateIs DEF Late!ChipNoAnswer, Late!Post
  <2>3. mem' \in [list : Names, ctl : 0 .. 19, bit : 0 .. 1]
    BY <1>26, MemIs DEF LateInv, Late!ChipNoAnswer
  <2>4. step # 1
    BY <2>1 DEF LateInv, LateFirst
  <2>5. LateStarts' /\ LateCommands' /\ LateFirst'
    BY <2>2, <2>4, RunIs DEF LateInv, LateStarts, LateCommands, LateFirst
  <2>6. /\ LastMessage' /\ OnlyANoticeEndsIt' /\ LateAddressed' /\ SetUpLate'
        /\ LateSixth'
    BY <2>2, RunIs DEF LateInv, LastMessage, OnlyANoticeEndsIt, LateAddressed,
       SetUpLate, LateSixth
  <2>7. ListTypes' /\ MessageTypes'
    BY <2>2, <2>3, RunIs DEF LateInv, ListTypes, MessageTypes
  <2>8. MainTypes' /\ MailTypes' /\ KeyboardTypes'
    BY DEF LateInv, MainTypes, MailTypes, KeyboardTypes
  <2>. QED
    BY <2>5, <2>6, <2>7, <2>8 DEF LateInv
<1>27. CASE Late!ChipReport
  <2>. UNCHANGED <<pc, step, tries, toggle, ports, mail, cmd>>
    BY <1>27 DEF Late!ChipReport, Late!main
  <2>1. run.at = "first" /\ run.list = "poll"
    BY <1>27 DEF Late!ChipReport
  <2>2. kb \in Keyboards /\ 1 - kb.bit \in 0 .. 1
    BY DEF LateInv, KeyboardTypes, Keyboards
  <2>3. kb' = [[kb EXCEPT !.pending = FALSE] EXCEPT !.bit = 1 - kb.bit]
    BY <1>27, <2>2 DEF Late!ChipReport
  <2>4. KeyboardTypes'
    BY <2>2, <2>3, FieldIs DEF KeyboardTypes
  <2>5. /\ SetUpLate' /\ kb'.here = kb.here /\ kb'.address = kb.address
        /\ kb.report \in Reports
    BY <2>2, <2>3 DEF LateInv, SetUpLate, Keyboards
  <2>6. step # 1
    BY <2>1 DEF LateInv, LateFirst
  <2>7. LateFirst' /\ LateAddressed'
    BY <2>5, <2>6 DEF LateInv, LateFirst, LateAddressed
  <2>8. MainTypes' /\ MailTypes'
    BY DEF LateInv, MainTypes, MailTypes
  <2>9. CASE UNCHANGED <<buf, run, mem, msg, flag>>
    <3>1. ListTypes' /\ MessageTypes' /\ LateStarts' /\ LateCommands'
      BY <2>9 DEF LateInv, ListTypes, MessageTypes, LateStarts, LateCommands
    <3>2. LastMessage' /\ OnlyANoticeEndsIt' /\ LateSixth'
      BY <2>9 DEF LateInv, LastMessage, OnlyANoticeEndsIt, LateSixth
    <3>. QED
      BY <2>4, <2>5, <2>7, <2>8, <3>1, <3>2 DEF LateInv
  <2>10. CASE /\ buf' = kb.report /\ run' = Off
              /\ mem' = [mem EXCEPT !.ctl = 3] /\ Late!Post("done")
    <3>1. msg' = msg \cup {"done"} /\ flag' = TRUE
      BY <2>10 DEF Late!Post
    <3>2. mem' \in [list : Names, ctl : 0 .. 19, bit : 0 .. 1]
      BY <2>10, MemIs DEF LateInv
    <3>3. ListTypes' /\ MessageTypes'
      BY <2>5, <2>10, <3>1, <3>2, RunIs DEF LateInv, ListTypes, MessageTypes
    <3>4. LateStarts' /\ LateCommands' /\ LastMessage' /\ OnlyANoticeEndsIt'
      BY <2>6, <2>10, <3>1, RunIs DEF LateInv, LateStarts, LateCommands,
         LastMessage, OnlyANoticeEndsIt
    <3>5. LateSixth'
      BY <2>10, RunIs DEF LateSixth
    <3>. QED
      BY <2>4, <2>5, <2>7, <2>8, <3>3, <3>4, <3>5 DEF LateInv
  <2>. QED
    BY <1>27, <2>9, <2>10, LateIs DEF Late!ChipReport, Good
<1>28. CASE ChipNotice
  <2>. UNCHANGED <<pc, step, tries, toggle, ports, mail, cmd, mem, run, buf>>
    BY <1>28 DEF ChipNotice, main
  <2>1. msg' = msg \cup {"other"} /\ flag' = TRUE
    BY <1>28 DEF ChipNotice, Post
  <2>2. kb' = [kb EXCEPT !.news = FALSE] /\ kb \in Keyboards
    BY <1>28 DEF ChipNotice, LateInv, KeyboardTypes
  <2>3. KeyboardTypes'
    BY <2>2, FieldIs DEF KeyboardTypes
  <2>4. kb'.here = kb.here /\ kb'.address = kb.address /\ SetUpLate'
    BY <2>2 DEF LateInv, SetUpLate, Keyboards
  <2>5. MessageTypes' /\ LateCommands' /\ LastMessage' /\ OnlyANoticeEndsIt'
    BY <2>1 DEF LateInv, MessageTypes, LateCommands, LastMessage, OnlyANoticeEndsIt
  <2>6. LateFirst' /\ LateAddressed'
    BY <2>1, <2>4 DEF LateInv, LateFirst, LateAddressed
  <2>7. MainTypes' /\ MailTypes' /\ ListTypes'
    BY DEF LateInv, MainTypes, MailTypes, ListTypes
  <2>8. LateStarts' /\ LateSixth'
    BY <2>1 DEF LateInv, LateStarts, LateSixth
  <2>. QED
    BY <2>3, <2>4, <2>5, <2>6, <2>7, <2>8 DEF LateInv
<1>29. CASE Press
  <2>1. UNCHANGED <<pc, step, tries, toggle, ports>>
    BY <1>29 DEF Press, main
  <2>2. UNCHANGED <<mail, cmd, mem, run, msg, flag, buf>>
    BY <1>29 DEF Press, chip
  <2>3. PICK r \in Reports :
          kb' = [[kb EXCEPT !.report = r] EXCEPT !.pending = TRUE]
    BY <1>29 DEF Press
  <2>4. KeyboardTypes'
    BY <2>3, FieldIs DEF LateInv, KeyboardTypes
  <2>5. /\ kb'.here = kb.here /\ kb'.address = kb.address
        /\ kb'.configured = kb.configured
    BY <2>3 DEF LateInv, KeyboardTypes, Keyboards
  <2>6. SetUpLate'
    BY <1>29, <2>1, <2>5 DEF LateInv, SetUpLate, Press
  <2>. QED
    BY <2>1, <2>2, <2>4, <2>5, <2>6, LateUntouched DEF LateInv
<1>30. CASE Late!Pull
  <2>1. UNCHANGED <<pc, step, tries, toggle, ports>>
    BY <1>30 DEF Late!Pull, Late!main
  <2>2. UNCHANGED <<mail, cmd, mem, run, msg, flag, buf>>
    BY <1>30 DEF Late!Pull, Late!chip
  <2>3. kb' = [Away EXCEPT !.news = Notices]
    BY <1>30, LateIs DEF Late!Pull
  <2>4. KeyboardTypes'
    BY <2>3, AwayIs, FieldIs, ConstantsAre DEF KeyboardTypes
  <2>5. SetUpLate'
    BY <2>3, AwayIs DEF SetUpLate, Keyboards
  <2>6. step = 10
    BY <1>30, LateIs, ListsAre DEF Late!Pull, Polling
  <2>7. LateFirst' /\ LateAddressed'
    BY <2>1, <2>6 DEF LateFirst, LateAddressed
  <2>. QED
    BY <2>1, <2>2, <2>4, <2>5, <2>7, LateUntouched DEF LateInv
<1>31. CASE Late!Plug
  <2>1. UNCHANGED <<pc, step, tries, toggle, ports>>
    BY <1>31 DEF Late!Plug, Late!main
  <2>2. UNCHANGED <<mail, cmd, mem, run, msg, flag, buf>>
    BY <1>31 DEF Late!Plug, Late!chip
  <2>3. kb' = [[Away EXCEPT !.here = TRUE] EXCEPT !.news = Notices]
    BY <1>31, LateIs DEF Late!Plug
  <2>4. KeyboardTypes'
    BY <2>3, AwayIs, FieldIs, ConstantsAre DEF KeyboardTypes
  <2>5. SetUpLate'
    BY <2>3, AwayIs DEF SetUpLate, Keyboards
  <2>6. ~ kb.here /\ pc \in {"absent", "removed"}
    BY <1>31 DEF Late!Plug
  <2>7. step \in {1, 10}
    BY <2>6 DEF LateInv, LateStarts, Starting
  <2>8. LateFirst' /\ LateAddressed'
    <3>1. CASE step = 10
      BY <2>1, <3>1 DEF LateFirst, LateAddressed
    <3>2. CASE step = 1
      <4>1. run.at = "off" /\ "done" \notin msg
        <5>1. step # 10
          BY <3>2
        <5>2. pc = "absent"
          BY <2>6, <5>1 DEF LateInv, LateStarts
        <5>. QED
          BY <5>2 DEF LateInv, LateStarts, Starting
      <4>2. pc \notin Sending
        BY <2>6 DEF Sending
      <4>3. pc' \notin {"erase", "check"}
        BY <2>1, <2>6
      <4>4. step' \notin 2 .. 9
        BY <2>1, <3>2
      <4>. QED
        BY <2>1, <2>2, <4>1, <4>2, <4>3, <4>4 DEF LateFirst, LateAddressed
    <3>. QED
      BY <2>7, <3>1, <3>2
  <2>. QED
    BY <2>1, <2>2, <2>4, <2>5, <2>8, LateUntouched DEF LateInv
<1>32. CASE UNCHANGED vars
  <2>1. UNCHANGED <<pc, step, tries, toggle, ports, kb>>
    BY <1>32 DEF vars, main
  <2>2. UNCHANGED <<mail, cmd, mem, run, msg, flag, buf>>
    BY <1>32 DEF vars, chip
  <2>. QED
    BY <2>1, <2>2, LateUntouched DEF LateInv, KeyboardTypes, SetUpLate
<1>. QED
  BY <1>1, <1>2, <1>3, <1>4, <1>5, <1>6, <1>7, <1>8, <1>9, <1>10, <1>11, <1>12,
     <1>13, <1>14, <1>15, <1>15a, <1>16, <1>17, <1>18, <1>19, <1>20, <1>21, <1>22,
     <1>23, <1>24, <1>25, <1>26, <1>27, <1>28, <1>29, <1>30, <1>31, <1>32
     DEF LateStep, Main, Start, Transfer, Loop

LEMMA LateNextIs == Late!Next \/ UNCHANGED vars => LateStep
BY LateMainIs, LateOthersAre DEF Late!Next, Late!Chip, LateStep

-----------------------------------------------------------------------------
(* The program and the controller among the levels of a run *)

LevelInv == /\ Prompt /\ level = "host" => IInv
            /\ level = "late" => LateInv

LEMMA LevelsAre == MCSpec => []LevelInv
<1>1. MCInit => LevelInv
  BY InitIInv, LateInit, LateOthersAre DEF MCInit, LevelInv
<1>2. LevelInv /\ [MCNext]_<<vars, level, walk, wires>> => LevelInv'
  <2>. SUFFICES ASSUME LevelInv, [MCNext]_<<vars, level, walk, wires>>
                PROVE  LevelInv'
    OBVIOUS
  <2>1. level' = level
    BY DEF MCNext
  <2>2. ASSUME Prompt, level = "host" PROVE IInv'
    <3>1. IInv
      BY <2>2 DEF LevelInv
    <3>2. [Next]_vars
      BY <2>2 DEF MCNext
    <3>. QED
      BY <2>2, <3>1, <3>2, StepIInv
  <2>3. ASSUME level = "late" PROVE LateInv'
    <3>1. LateInv
      BY <2>3 DEF LevelInv
    <3>2. Late!Next \/ UNCHANGED vars
      BY <2>3 DEF MCNext
    <3>. QED
      BY <3>1, <3>2, LateNextIs, LateStepInv
  <2>. QED
    BY <2>1, <2>2, <2>3 DEF LevelInv
<1>. QED
  BY <1>1, <1>2, PTL DEF MCSpec

\* The types, and that a keyboard is set up only where it is there.
LEMMA TypesAre ==
  ASSUME MainTypes, MailTypes, ListTypes, MessageTypes, KeyboardTypes, SetUpLate
  PROVE  TypeOK
<1>1. step \in 1 .. Poll /\ tries \in 0 .. 7 /\ toggle \in 0 .. 1
  BY ListsAre DEF MainTypes
<1>2. /\ mail.of \in {"none", "init", "reset"}
      /\ cmd \in {"none", "init", "reset"}
  BY DEF MailTypes
<1>3. /\ mem.ctl \in 0 .. Active /\ mem.bit \in 0 .. 1
      /\ run.at \in {"off", "first", "rest"}
  BY DEF ListTypes, Active
<1>4. msg \subseteq {"done", "other"} /\ flag \in BOOLEAN /\ buf \in Reports
  BY DEF MessageTypes
<1>5. kb.report \in Reports
  BY DEF KeyboardTypes, Keyboards
<1>6. /\ kb.configured => kb.here /\ kb.address = 2
      /\ kb.pending => kb.configured
  BY DEF SetUpLate
<1>. QED
  BY <1>1, <1>2, <1>3, <1>4, <1>5, <1>6 DEF TypeOK

\* A step of main judges the finished result of its own list on a controller
\* that works only while the program sleeps: UsbWaitTDListDone never takes the
\* message of another list, or of an earlier sending, for it.  On a controller
\* of any speed, without errors, the keyboard has its address before it is
\* asked for anything else.
THEOREM GoInStep == Prompt /\ MCSpec => []InStep
<1>1. Prompt /\ LevelInv => InStep
  <2>. SUFFICES ASSUME Prompt, LevelInv PROVE InStep
    OBVIOUS
  <2>1. ASSUME level = "host" PROVE TypeOK /\ JudgesItsOwnList
    <3>1. IInv
      BY <2>1 DEF LevelInv
    <3>2. TypeOK
      BY <3>1, TypesAre DEF IInv
    <3>3. JudgesItsOwnList
      BY <3>1 DEF IInv, JudgesItsOwnList, RunsItsList, ResultIsOfTheList
    <3>. QED
      BY <3>2, <3>3
  <2>2. ASSUME level = "late" PROVE Late!TypeOK /\ Late!AddressedFirst
    <3>1. LateInv
      BY <2>2 DEF LevelInv
    <3>2. TypeOK
      BY <3>1, TypesAre DEF LateInv
    <3>3. Late!TypeOK
      BY <3>2, LateIs, PollIs DEF TypeOK, Late!TypeOK
    <3>4. Late!AddressedFirst
      BY <3>1, LateIs DEF LateInv, LateAddressed, Late!AddressedFirst
    <3>. QED
      BY <3>3, <3>4
  <2>. QED
    BY <2>1, <2>2 DEF InStep
<1>2. ASSUME Prompt PROVE MCSpec => []InStep
  <2>1. LevelInv => InStep
    BY <1>1, <1>2
  <2>. QED
    BY <2>1, LevelsAre, PTL
<1>. QED
  BY <1>2

\* What the game reads from the two ports, once both are written, is one report
\* of the keyboard, if the controller works only while the program sleeps.
THEOREM PortsDoAgree == Prompt /\ MCSpec => []PortsAgree
<1>1. Prompt /\ LevelInv => PortsAgree
  BY DEF LevelInv, IInv, PortsAgree
<1>2. ASSUME Prompt PROVE MCSpec => []PortsAgree
  <2>1. LevelInv => PortsAgree
    BY <1>1, <1>2
  <2>. QED
    BY <2>1, LevelsAre, PTL
<1>. QED
  BY <1>2

\* Who waits in UsbGetRetryCnt for one more message waits for a notice: on a
\* controller of any speed no list is left that could give it.
THEOREM OnlyNoticeEndsIt == MCSpec => []NoticeEndsIt
<1>1. LevelInv => NoticeEndsIt
  BY DEF LevelInv, LateInv, LastMessage, NoticeEndsIt, Late!OnlyANoticeEndsIt
<1>. QED
  BY <1>1, LevelsAre, PTL

-----------------------------------------------------------------------------
(* A keyboard that is pulled out only while it is polled *)

\* The polling loop is entered after the last list.
LoopIsLast ==
  pc \in {"poll", "port 1", "port 2", "still", "removed"} => step = 10
\* From the second list on the keyboard is there under its address, and from
\* the seventh on it is set up, until it is pulled out while it is polled.
SetUpInTime ==
  /\ step = 1 /\ pc \in Sending => kb.here
  /\ step \in 2 .. 9 => kb.here /\ kb.address = 2
  /\ step \in 7 .. 9 => kb.configured
  /\ step = 10 /\ kb.here => kb.configured \/ pc \in {"removed", "hotplug"}
\* A success stands for what the keyboard has done.
SuccessMeans ==
  mem.ctl = 3 =>
    /\ "done" \in msg \/ pc \in {"erase", "check"} =>
         /\ step = 1 => kb.address = 2
         /\ step = 6 => kb.configured
    /\ run.at = "rest" /\ step = 1 => kb.here /\ kb.address = 0
    /\ pc \notin {"retry", "retry erase", "retry wait", "recheck"}
\* A poll is a list of one transfer.
PollIsShort == step = 10 => run.at # "rest"

\* A keyboard that stays in is never missed, ...
NeverMissed == /\ kb.here /\ pc # "removed"
               /\ pc = "hotplug" => step = 1
\* ... and its data bit is that of the list main writes next, until it has sent
\* a report under it.
BitsInStep ==
  /\ step # 10 => toggle = 0 /\ kb.bit = 0
  /\ step = 10 =>
       /\ pc \in {"poll", "erase", "check", "port 1", "port 2", "still"}
            => kb.bit = toggle
       /\ pc \in {"write", "kick"} => kb.bit = 1 - toggle
       /\ pc = "flag" => run.at = "first" \/ "done" \in msg
       /\ "done" \in msg => kb.bit = toggle
       /\ run.at = "first" => kb.bit = 1 - toggle
       /\ pc \in {"kick", "flag", "wait", "erase more"} => mem.bit = 1 - toggle

LiveInv == /\ IInv
           /\ LoopIsLast /\ SetUpInTime /\ SuccessMeans /\ PollIsShort
           /\ stays => NeverMissed /\ BitsInStep

\* A step of which the lists and the data bit are no part.
LEMMA KeyboardOnly ==
  ASSUME LiveInv, UNCHANGED <<pc, step, toggle, mem, run>>,
         "done" \in msg' <=> "done" \in msg,
         kb'.here = kb.here, kb'.address = kb.address,
         kb'.configured = kb.configured, kb'.bit = kb.bit
  PROVE  /\ LoopIsLast' /\ SetUpInTime' /\ SuccessMeans' /\ PollIsShort'
         /\ stays => NeverMissed' /\ BitsInStep'
<1>1. LoopIsLast' /\ PollIsShort'
  BY DEF LiveInv, LoopIsLast, PollIsShort
<1>2. SetUpInTime'
  BY DEF LiveInv, SetUpInTime
<1>3. SuccessMeans'
  BY DEF LiveInv, SuccessMeans
<1>4. ASSUME stays PROVE NeverMissed' /\ BitsInStep'
  BY <1>4 DEF LiveInv, NeverMissed, BitsInStep
<1>. QED
  BY <1>1, <1>2, <1>3, <1>4

LEMMA LiveStepIs ==
  ASSUME Prompt, Patient, LiveInv, [Next]_vars, stays => kb'.here
  PROVE  /\ LoopIsLast' /\ SetUpInTime' /\ SuccessMeans' /\ PollIsShort'
         /\ stays => NeverMissed' /\ BitsInStep'
<1>1. CASE SoftReset
  <2>1. LoopIsLast' /\ PollIsShort'
    BY <1>1 DEF LiveInv, LoopIsLast, PollIsShort, SoftReset, Off, Goto
  <2>2. SetUpInTime'
    BY <1>1 DEF LiveInv, SetUpInTime, LoopIsLast, StartsAtOne, Starting, IInv,
       Sending, SoftReset, Off, Goto
  <2>3. SuccessMeans'
    BY <1>1 DEF LiveInv, SuccessMeans, SoftReset, Off, Goto
  <2>4. ASSUME stays PROVE NeverMissed' /\ BitsInStep'
    <3>1. NeverMissed'
      BY <1>1, <2>4 DEF LiveInv, NeverMissed, SoftReset, Off, Goto
    <3>2. BitsInStep'
      <4>1. step = 1
        BY <1>1, <2>4 DEF LiveInv, NeverMissed, SoftReset
      <4>2. step' = 1 /\ toggle' = toggle /\ kb' = kb
        BY <1>1 DEF SoftReset
      <4>3. step # 10 /\ step' # 10
        BY <4>1, <4>2
      <4>. QED
        BY <2>4, <4>2, <4>3 DEF LiveInv, BitsInStep
    <3>. QED
      BY <3>1, <3>2
  <2>. QED
    BY <2>1, <2>2, <2>3, <2>4
<1>2. CASE InitSie
  <2>1. LoopIsLast' /\ PollIsShort'
    BY <1>2 DEF LiveInv, LoopIsLast, PollIsShort, InitSie, Execute, Goto
  <2>2. SetUpInTime'
    BY <1>2 DEF LiveInv, SetUpInTime, LoopIsLast, StartsAtOne, Starting, IInv,
       Sending, InitSie, Execute, Goto
  <2>3. SuccessMeans'
    BY <1>2 DEF LiveInv, SuccessMeans, InitSie, Execute, Goto
  <2>4. ASSUME stays PROVE NeverMissed' /\ BitsInStep'
    <3>1. NeverMissed'
      BY <1>2, <2>4 DEF LiveInv, NeverMissed, InitSie, Execute, Goto
    <3>2. BitsInStep'
      BY <1>2, <2>4 DEF LiveInv, BitsInStep, LoopIsLast, InitSie, Execute,
         Goto
    <3>. QED
      BY <3>1, <3>2
  <2>. QED
    BY <2>1, <2>2, <2>3, <2>4
<1>3. CASE InitWait
  <2>1. LoopIsLast' /\ PollIsShort'
    BY <1>3 DEF LiveInv, LoopIsLast, PollIsShort, InitWait, Goto, chip
  <2>2. SetUpInTime'
    BY <1>3 DEF LiveInv, SetUpInTime, LoopIsLast, StartsAtOne, Starting, IInv,
       Sending, InitWait, Goto, chip
  <2>3. SuccessMeans'
    BY <1>3 DEF LiveInv, SuccessMeans, InitWait, Goto, chip
  <2>4. ASSUME stays PROVE NeverMissed' /\ BitsInStep'
    <3>1. NeverMissed'
      BY <1>3, <2>4 DEF LiveInv, NeverMissed, InitWait, Goto, chip
    <3>2. BitsInStep'
      BY <1>3, <2>4 DEF LiveInv, BitsInStep, LoopIsLast, InitWait, Goto, chip
    <3>. QED
      BY <3>1, <3>2
  <2>. QED
    BY <2>1, <2>2, <2>3, <2>4
<1>4. CASE InitRead
  <2>1. LoopIsLast' /\ PollIsShort'
    BY <1>4 DEF LiveInv, LoopIsLast, PollIsShort, InitRead, ReadMailbox, Goto
  <2>2. SetUpInTime'
    BY <1>4 DEF LiveInv, SetUpInTime, LoopIsLast, StartsAtOne, Starting, IInv,
       Sending, InitRead, ReadMailbox, Goto
  <2>3. SuccessMeans'
    BY <1>4 DEF LiveInv, SuccessMeans, InitRead, ReadMailbox, Goto
  <2>4. ASSUME stays PROVE NeverMissed' /\ BitsInStep'
    <3>1. step = 1
      BY <1>4 DEF LiveInv, IInv, StartsAtOne, Starting, InitRead
    <3>2. /\ pc' \notin {"removed"} /\ step' = step /\ kb' = kb
          /\ toggle' = toggle
      BY <1>4 DEF InitRead, ReadMailbox, Goto
    <3>3. step # 10
      BY <3>1
    <3>. QED
      BY <2>4, <3>1, <3>2, <3>3 DEF LiveInv, NeverMissed, BitsInStep
  <2>. QED
    BY <2>1, <2>2, <2>3, <2>4
<1>5. CASE ResetUsb
  <2>1. LoopIsLast' /\ PollIsShort'
    BY <1>5 DEF LiveInv, LoopIsLast, PollIsShort, ResetUsb, Execute, Goto
  <2>2. SetUpInTime'
    BY <1>5 DEF LiveInv, SetUpInTime, LoopIsLast, StartsAtOne, Starting, IInv,
       Sending, ResetUsb, Execute, Goto
  <2>3. SuccessMeans'
    BY <1>5 DEF LiveInv, SuccessMeans, ResetUsb, Execute, Goto
  <2>4. ASSUME stays PROVE NeverMissed' /\ BitsInStep'
    <3>1. NeverMissed'
      BY <1>5, <2>4 DEF LiveInv, NeverMissed, ResetUsb, Execute, Goto
    <3>2. BitsInStep'
      BY <1>5, <2>4 DEF LiveInv, BitsInStep, LoopIsLast, ResetUsb, Execute,
         Goto
    <3>. QED
      BY <3>1, <3>2
  <2>. QED
    BY <2>1, <2>2, <2>3, <2>4
<1>6. CASE ResetRead
  <2>1. LoopIsLast' /\ PollIsShort'
    BY <1>6 DEF LiveInv, LoopIsLast, PollIsShort, ResetRead, ReadMailbox, Goto
  <2>2. SetUpInTime'
    BY <1>6 DEF LiveInv, SetUpInTime, LoopIsLast, StartsAtOne, Starting, IInv,
       Sending, ResetRead, ReadMailbox, Goto
  <2>3. SuccessMeans'
    BY <1>6 DEF LiveInv, SuccessMeans, ResetRead, ReadMailbox, Goto
  <2>4. ASSUME stays PROVE NeverMissed' /\ BitsInStep'
    <3>1. step = 1
      BY <1>6 DEF LiveInv, IInv, StartsAtOne, Starting, ResetRead
    <3>2. /\ pc' \notin {"removed"} /\ step' = step /\ kb' = kb
          /\ toggle' = toggle
      BY <1>6 DEF ResetRead, ReadMailbox, Goto
    <3>3. step # 10
      BY <3>1
    <3>. QED
      BY <2>4, <3>1, <3>2, <3>3 DEF LiveInv, NeverMissed, BitsInStep
  <2>. QED
    BY <2>1, <2>2, <2>3, <2>4
<1>7. CASE LookFor
  <2>1. LoopIsLast' /\ PollIsShort'
    BY <1>7 DEF LiveInv, LoopIsLast, PollIsShort, LookFor, Goto, chip
  <2>2. SetUpInTime'
    BY <1>7 DEF LiveInv, SetUpInTime, LoopIsLast, StartsAtOne, Starting, IInv,
       Sending, LookFor, Goto, chip
  <2>3. SuccessMeans'
    BY <1>7 DEF LiveInv, SuccessMeans, LookFor, Goto, chip
  <2>4. ASSUME stays PROVE NeverMissed' /\ BitsInStep'
    <3>1. step = 1
      BY <1>7 DEF LiveInv, IInv, StartsAtOne, Starting, LookFor
    <3>2. /\ pc' \notin {"removed"} /\ step' = step /\ kb' = kb
          /\ toggle' = toggle
      BY <1>7 DEF LookFor, Goto
    <3>3. step # 10
      BY <3>1
    <3>. QED
      BY <2>4, <3>1, <3>2, <3>3 DEF LiveInv, NeverMissed, BitsInStep
  <2>. QED
    BY <2>1, <2>2, <2>3, <2>4
<1>8. CASE Absent
  <2>1. LoopIsLast' /\ PollIsShort'
    BY <1>8 DEF LiveInv, LoopIsLast, PollIsShort, Absent, Goto, chip
  <2>2. SetUpInTime'
    BY <1>8 DEF LiveInv, SetUpInTime, LoopIsLast, StartsAtOne, Starting, IInv,
       Sending, Absent, Goto, chip
  <2>3. SuccessMeans'
    BY <1>8 DEF LiveInv, SuccessMeans, Absent, Goto, chip
  <2>4. ASSUME stays PROVE NeverMissed' /\ BitsInStep'
    <3>1. step = 1
      BY <1>8 DEF LiveInv, IInv, StartsAtOne, Starting, Absent
    <3>2. /\ pc' \notin {"removed"} /\ step' = step /\ kb' = kb
          /\ toggle' = toggle
      BY <1>8 DEF Absent, Goto
    <3>3. step # 10
      BY <3>1
    <3>. QED
      BY <2>4, <3>1, <3>2, <3>3 DEF LiveInv, NeverMissed, BitsInStep
  <2>. QED
    BY <2>1, <2>2, <2>3, <2>4
<1>9. CASE WriteList
  <2>1. LoopIsLast' /\ PollIsShort'
    BY <1>9 DEF LiveInv, LoopIsLast, PollIsShort, WriteList, List, Goto
  <2>2. SetUpInTime'
    BY <1>9 DEF LiveInv, SetUpInTime, LoopIsLast, StartsAtOne, Starting, IInv,
       Sending, WriteList, List, Goto
  <2>3. SuccessMeans'
    <3>1. mem'.ctl = 19
      BY <1>9 DEF WriteList, Active
    <3>2. mem'.ctl # 3
      BY <3>1
    <3>. QED
      BY <3>2 DEF SuccessMeans
  <2>4. ASSUME stays PROVE NeverMissed' /\ BitsInStep'
    <3>1. NeverMissed'
      BY <1>9, <2>4 DEF LiveInv, NeverMissed, WriteList, List, Goto
    <3>2. BitsInStep'
      <4>1. /\ pc = "write" /\ pc' = "kick" /\ step' = step
            /\ toggle' = toggle /\ kb' = kb /\ run' = run /\ msg' = msg
        BY <1>9 DEF WriteList, Goto
      <4>2. step = 10 => mem'.bit = 1 - toggle
        BY <1>9, PollIs DEF WriteList, Polling
      <4>. QED
        BY <2>4, <4>1, <4>2 DEF LiveInv, BitsInStep
    <3>. QED
      BY <3>1, <3>2
  <2>. QED
    BY <2>1, <2>2, <2>3, <2>4
<1>10. CASE Kick
  <2>1. LoopIsLast' /\ PollIsShort'
    BY <1>10 DEF LiveInv, LoopIsLast, PollIsShort, Kick, List, Goto
  <2>2. SetUpInTime'
    BY <1>10 DEF LiveInv, SetUpInTime, LoopIsLast, StartsAtOne, Starting, IInv,
       Sending, Kick, List, Goto
  <2>3. SuccessMeans'
    BY <1>10 DEF LiveInv, SuccessMeans, Kick, List, Goto
  <2>4. ASSUME stays PROVE NeverMissed' /\ BitsInStep'
    <3>1. NeverMissed'
      BY <1>10, <2>4 DEF LiveInv, NeverMissed, Kick, List, Goto
    <3>2. BitsInStep'
      BY <1>10, <2>4 DEF LiveInv, BitsInStep, LoopIsLast, Kick, List, Goto
    <3>. QED
      BY <3>1, <3>2
  <2>. QED
    BY <2>1, <2>2, <2>3, <2>4
<1>11. CASE LookAtFlag
  <2>1. LoopIsLast' /\ PollIsShort'
    BY <1>11 DEF LiveInv, LoopIsLast, PollIsShort, LookAtFlag, Goto, chip
  <2>2. SetUpInTime'
    BY <1>11 DEF LiveInv, SetUpInTime, LoopIsLast, StartsAtOne, Starting, IInv,
       Sending, LookAtFlag, Goto, chip
  <2>3. SuccessMeans'
    BY <1>11 DEF LiveInv, SuccessMeans, LookAtFlag, Goto, chip
  <2>4. ASSUME stays PROVE NeverMissed' /\ BitsInStep'
    <3>1. NeverMissed'
      BY <1>11, <2>4 DEF LiveInv, NeverMissed, LookAtFlag, Goto, chip
    <3>2. BitsInStep'
      <4>1. /\ pc = "flag" /\ step' = step /\ toggle' = toggle /\ kb' = kb
            /\ run' = run /\ msg' = msg /\ mem' = mem
            /\ pc' = IF flag THEN "wait" ELSE "write"
        BY <1>11 DEF LookAtFlag, Goto, chip
      <4>2. ~ flag => "done" \notin msg
        BY <4>1 DEF LiveInv, IInv, DoneIsOfTheList
      <4>. QED
        BY <2>4, <4>1, <4>2 DEF LiveInv, BitsInStep
    <3>. QED
      BY <3>1, <3>2
  <2>. QED
    BY <2>1, <2>2, <2>3, <2>4
<1>12. CASE WaitRead
  <2>1. LoopIsLast' /\ PollIsShort'
    BY <1>12 DEF LiveInv, LoopIsLast, PollIsShort, WaitRead, Done, Goto
  <2>2. SetUpInTime'
    BY <1>12 DEF LiveInv, SetUpInTime, LoopIsLast, StartsAtOne, Starting, IInv,
       Sending, WaitRead, Done, Goto
  <2>3. SuccessMeans'
    BY <1>12 DEF LiveInv, SuccessMeans, WaitRead, Done, Goto
  <2>4. ASSUME stays PROVE NeverMissed' /\ BitsInStep'
    <3>1. NeverMissed'
      BY <1>12, <2>4 DEF LiveInv, NeverMissed, WaitRead, Done, Goto
    <3>2. BitsInStep'
      BY <1>12, <2>4 DEF LiveInv, BitsInStep, LoopIsLast, WaitRead, Done, Goto
    <3>. QED
      BY <3>1, <3>2
  <2>. QED
    BY <2>1, <2>2, <2>3, <2>4
<1>13. CASE WaitErase
  <2>1. LoopIsLast' /\ PollIsShort'
    BY <1>13 DEF LiveInv, LoopIsLast, PollIsShort, WaitErase, Goto
  <2>2. SetUpInTime'
    BY <1>13 DEF LiveInv, SetUpInTime, LoopIsLast, StartsAtOne, Starting, IInv,
       Sending, WaitErase, Goto
  <2>3. SuccessMeans'
    BY <1>13 DEF LiveInv, SuccessMeans, WaitErase, Goto
  <2>4. ASSUME stays PROVE NeverMissed' /\ BitsInStep'
    <3>1. NeverMissed'
      BY <1>13, <2>4 DEF LiveInv, NeverMissed, WaitErase, Goto
    <3>2. BitsInStep'
      BY <1>13, <2>4 DEF LiveInv, BitsInStep, LoopIsLast, WaitErase, Goto
    <3>. QED
      BY <3>1, <3>2
  <2>. QED
    BY <2>1, <2>2, <2>3, <2>4
<1>14. CASE Check
  <2>1. /\ pc = "check" /\ run.at = "off" /\ "done" \notin msg
        /\ UNCHANGED <<toggle, kb, mem, msg>>
    BY <1>14 DEF Check, LiveInv, IInv, RunsItsList, DoneIsOfTheList
  <2>2. CASE pc' \in {"port 1", "retry"} /\ step' = step /\ run' = run
    <3>1. pc' = "port 1" => step = 10
      BY <1>14, PollIs, <2>2 DEF Check, Goto, Polling, Advance, ListsAre
    <3>2. pc' = "retry" => mem.ctl # 3 /\ step # 10
      BY <1>14, PollIs, <2>2 DEF Check, Goto, Polling, Good, Advance
    <3>3. LoopIsLast' /\ PollIsShort'
      BY <2>1, <2>2, <3>1 DEF LiveInv, LoopIsLast, PollIsShort
    <3>4. SetUpInTime'
      BY <2>1, <2>2 DEF LiveInv, SetUpInTime, Sending
    <3>5. SuccessMeans'
      BY <2>1, <2>2, <3>2 DEF LiveInv, SuccessMeans
    <3>6. ASSUME stays PROVE NeverMissed' /\ BitsInStep'
      BY <2>1, <2>2, <3>2, <3>6 DEF LiveInv, NeverMissed, BitsInStep
    <3>. QED
      BY <3>3, <3>4, <3>5, <3>6
  <2>3. CASE ~ Polling /\ mem.ctl = Good /\ Advance
    <3>1. step \in 1 .. 9
      BY <2>3, PollIs DEF LiveInv, IInv, MainTypes, Polling
    <3>2. MainTypes /\ step < 10
      BY <3>1 DEF LiveInv, IInv
    <3>3. /\ step' = step + 1 /\ step' \in 2 .. 10
          /\ pc' = IF step' = 10 THEN "poll" ELSE "write"
      <4>1. step' = step + 1
        BY <2>3 DEF Advance
      <4>2. step' \in 2 .. 10
        BY <3>1, <4>1
      <4>3. pc' = IF step + 1 = 10 THEN "poll" ELSE "write"
        BY <2>3, PollIs DEF Advance, Goto
      <4>. QED
        BY <4>1, <4>2, <4>3
    <3>4. run'.at = "off" \/ step' = 6
      <4>1. CASE List = "config 2"
        <5>1. step = 5
          BY <4>1, <3>2, ListsAre DEF List, MainTypes
        <5>. QED
          BY <3>3, <5>1
      <4>2. CASE List # "config 2"
        BY <2>1, <2>3, <4>2 DEF Advance
      <4>. QED
        BY <4>1, <4>2
    <3>5. /\ step' # 1 /\ step # 10 /\ (step' = 10 => step' # 6)
          /\ (step' \in 2 .. 9 => step = 1 \/ step \in 2 .. 9)
          /\ (step' \in 7 .. 9 => step = 6 \/ step \in 7 .. 9)
          /\ (step' = 10 => step \in 7 .. 9)
          /\ (step = 6 => step \in 2 .. 9) /\ (step \in 7 .. 9 => step \in 2 .. 9)
      BY <3>1, <3>3
    <3>6. kb.here /\ kb.address = 2
      BY <2>1, <2>3, <3>1 DEF LiveInv, SetUpInTime, SuccessMeans, Sending, Good
    <3>7. step = 6 \/ step \in 7 .. 9 => kb.configured
      BY <2>1, <2>3 DEF LiveInv, SetUpInTime, SuccessMeans, Good
    <3>8. LoopIsLast'
      BY <3>3 DEF LoopIsLast
    <3>9. PollIsShort'
      BY <3>4, <3>5 DEF PollIsShort
    <3>10. SetUpInTime'
      BY <2>1, <3>5, <3>6, <3>7 DEF SetUpInTime
    <3>11. SuccessMeans'
      BY <2>1, <3>3, <3>5 DEF SuccessMeans
    <3>12. ASSUME stays PROVE NeverMissed' /\ BitsInStep'
      <4>1. NeverMissed'
        BY <2>1, <3>3, <3>6 DEF NeverMissed
      <4>2. toggle = 0 /\ kb.bit = 0
        BY <3>5, <3>12 DEF LiveInv, BitsInStep
      <4>3. step' = 10 => pc' = "poll" /\ run'.at = "off"
        BY <3>3, <3>4, <3>5
      <4>. QED
        BY <2>1, <4>1, <4>2, <4>3 DEF BitsInStep
    <3>. QED
      BY <3>8, <3>9, <3>10, <3>11, <3>12
  <2>. QED
    BY <1>14, <2>2, <2>3 DEF Check, Goto
<1>15. CASE GetRetryCnt
  <2>1. LoopIsLast' /\ PollIsShort'
    BY <1>15 DEF LiveInv, LoopIsLast, PollIsShort, GetRetryCnt, Done, Goto
  <2>2. SetUpInTime'
    BY <1>15 DEF LiveInv, SetUpInTime, LoopIsLast, StartsAtOne, Starting, IInv,
       Sending, GetRetryCnt, Done, Goto
  <2>3. SuccessMeans'
    BY <1>15 DEF LiveInv, SuccessMeans, GetRetryCnt, Done, Goto
  <2>4. ASSUME stays PROVE NeverMissed' /\ BitsInStep'
    <3>1. NeverMissed'
      BY <1>15, <2>4 DEF LiveInv, NeverMissed, GetRetryCnt, Done, Goto
    <3>2. BitsInStep'
      BY <1>15, <2>4 DEF LiveInv, BitsInStep, LoopIsLast, GetRetryCnt, Done,
         Goto
    <3>. QED
      BY <3>1, <3>2
  <2>. QED
    BY <2>1, <2>2, <2>3, <2>4
<1>15a. CASE RetryErase
  <2>1. LoopIsLast' /\ PollIsShort'
    BY <1>15a DEF LiveInv, LoopIsLast, PollIsShort, RetryErase, Goto
  <2>2. SetUpInTime'
    BY <1>15a DEF LiveInv, SetUpInTime, LoopIsLast, StartsAtOne, Starting, IInv,
       Sending, RetryErase, Goto
  <2>3. SuccessMeans'
    BY <1>15a DEF LiveInv, SuccessMeans, RetryErase, Goto
  <2>4. ASSUME stays PROVE NeverMissed' /\ BitsInStep'
    <3>1. NeverMissed'
      BY <1>15a, <2>4 DEF LiveInv, NeverMissed, RetryErase, Goto
    <3>2. BitsInStep'
      BY <1>15a, <2>4 DEF LiveInv, BitsInStep, LoopIsLast, RetryErase,
         Goto
    <3>. QED
      BY <3>1, <3>2
  <2>. QED
    BY <2>1, <2>2, <2>3, <2>4
<1>16. CASE RetryWait
  <2>1. LoopIsLast' /\ PollIsShort'
    BY <1>16 DEF LiveInv, LoopIsLast, PollIsShort, RetryWait, Goto, chip
  <2>2. SetUpInTime'
    BY <1>16 DEF LiveInv, SetUpInTime, LoopIsLast, StartsAtOne, Starting, IInv,
       Sending, RetryWait, Goto, chip
  <2>3. SuccessMeans'
    BY <1>16 DEF LiveInv, SuccessMeans, RetryWait, Goto, chip
  <2>4. ASSUME stays PROVE NeverMissed' /\ BitsInStep'
    <3>1. NeverMissed'
      BY <1>16, <2>4 DEF LiveInv, NeverMissed, RetryWait, Goto, chip
    <3>2. BitsInStep'
      BY <1>16, <2>4 DEF LiveInv, BitsInStep, LoopIsLast, RetryWait, Goto,
         chip
    <3>. QED
      BY <3>1, <3>2
  <2>. QED
    BY <2>1, <2>2, <2>3, <2>4
<1>17. CASE Recheck
  <2>1. mem.ctl # 3 /\ step # 10 /\ pc = "recheck"
    <3>1. pc = "recheck"
      BY <1>17 DEF Recheck
    <3>2. step < 10
      BY <3>1 DEF LiveInv, IInv, PollsAreNotRetried
    <3>. QED
      BY <3>1, <3>2 DEF LiveInv, SuccessMeans
  <2>2. /\ \/ pc' = "hotplug" /\ step = 1
           \/ pc' = "retry"
        /\ UNCHANGED <<step, run, toggle, mem, msg, kb>>
    BY <1>17, <2>1 DEF Recheck, Goto, Good
  <2>3. LoopIsLast' /\ PollIsShort'
    BY <2>2 DEF LiveInv, LoopIsLast, PollIsShort
  <2>4. SetUpInTime'
    BY <2>1, <2>2 DEF LiveInv, SetUpInTime, Sending
  <2>5. SuccessMeans'
    BY <2>1, <2>2 DEF SuccessMeans
  <2>6. ASSUME stays PROVE NeverMissed' /\ BitsInStep'
    BY <2>1, <2>2, <2>6 DEF LiveInv, NeverMissed, BitsInStep
  <2>. QED
    BY <2>3, <2>4, <2>5, <2>6
<1>18. CASE NextPoll
  <2>1. LoopIsLast' /\ PollIsShort'
    BY <1>18 DEF LiveInv, LoopIsLast, PollIsShort, NextPoll, Goto, chip
  <2>2. SetUpInTime'
    BY <1>18 DEF LiveInv, SetUpInTime, LoopIsLast, StartsAtOne, Starting, IInv,
       Sending, NextPoll, Goto, chip
  <2>3. SuccessMeans'
    BY <1>18 DEF LiveInv, SuccessMeans, NextPoll, Goto, chip
  <2>4. ASSUME stays PROVE NeverMissed' /\ BitsInStep'
    <3>1. NeverMissed'
      BY <1>18, <2>4 DEF LiveInv, NeverMissed, NextPoll, Goto, chip
    <3>2. BitsInStep'
      <4>1. /\ pc = "poll" /\ pc' = "write" /\ step' = step
            /\ toggle' = 1 - toggle /\ UNCHANGED <<kb, run, msg>>
        BY <1>18 DEF NextPoll, Goto, chip
      <4>2. step = 10 /\ kb.bit = toggle
        BY <2>4, <4>1 DEF LiveInv, LoopIsLast, BitsInStep
      <4>3. kb'.bit = 1 - toggle'
        BY <4>1, <4>2 DEF LiveInv, IInv, MainTypes
      <4>4. run'.at = "off" /\ "done" \notin msg'
        BY <4>1 DEF LiveInv, IInv, RunsItsList, DoneIsOfTheList
      <4>. QED
        BY <4>1, <4>2, <4>3, <4>4 DEF BitsInStep
    <3>. QED
      BY <3>1, <3>2
  <2>. QED
    BY <2>1, <2>2, <2>3, <2>4
<1>19. CASE Port1
  <2>1. LoopIsLast' /\ PollIsShort'
    BY <1>19 DEF LiveInv, LoopIsLast, PollIsShort, Port1, Goto, chip
  <2>2. SetUpInTime'
    BY <1>19 DEF LiveInv, SetUpInTime, LoopIsLast, StartsAtOne, Starting, IInv,
       Sending, Port1, Goto, chip
  <2>3. SuccessMeans'
    BY <1>19 DEF LiveInv, SuccessMeans, Port1, Goto, chip
  <2>4. ASSUME stays PROVE NeverMissed' /\ BitsInStep'
    <3>1. NeverMissed'
      BY <1>19, <2>4 DEF LiveInv, NeverMissed, Port1, Goto, chip
    <3>2. BitsInStep'
      BY <1>19, <2>4 DEF LiveInv, BitsInStep, LoopIsLast, Port1, Goto, chip
    <3>. QED
      BY <3>1, <3>2
  <2>. QED
    BY <2>1, <2>2, <2>3, <2>4
<1>20. CASE Port2
  <2>1. LoopIsLast' /\ PollIsShort'
    BY <1>20 DEF LiveInv, LoopIsLast, PollIsShort, Port2, Goto, chip
  <2>2. SetUpInTime'
    BY <1>20 DEF LiveInv, SetUpInTime, LoopIsLast, StartsAtOne, Starting, IInv,
       Sending, Port2, Goto, chip
  <2>3. SuccessMeans'
    BY <1>20 DEF LiveInv, SuccessMeans, Port2, Goto, chip
  <2>4. ASSUME stays PROVE NeverMissed' /\ BitsInStep'
    <3>1. NeverMissed'
      BY <1>20, <2>4 DEF LiveInv, NeverMissed, Port2, Goto, chip
    <3>2. BitsInStep'
      BY <1>20, <2>4 DEF LiveInv, BitsInStep, LoopIsLast, Port2, Goto, chip
    <3>. QED
      BY <3>1, <3>2
  <2>. QED
    BY <2>1, <2>2, <2>3, <2>4
<1>21. CASE StillThere
  <2>1. LoopIsLast' /\ PollIsShort'
    BY <1>21 DEF LiveInv, LoopIsLast, PollIsShort, StillThere, Goto, chip
  <2>2. SetUpInTime'
    BY <1>21 DEF LiveInv, SetUpInTime, LoopIsLast, StartsAtOne, Starting, IInv,
       Sending, StillThere, Goto, chip
  <2>3. SuccessMeans'
    BY <1>21 DEF LiveInv, SuccessMeans, StillThere, Goto, chip
  <2>4. ASSUME stays PROVE NeverMissed' /\ BitsInStep'
    <3>1. NeverMissed'
      BY <1>21, <2>4 DEF LiveInv, NeverMissed, StillThere, Goto, chip
    <3>2. BitsInStep'
      BY <1>21, <2>4 DEF LiveInv, BitsInStep, LoopIsLast, StillThere, Goto,
         chip
    <3>. QED
      BY <3>1, <3>2
  <2>. QED
    BY <2>1, <2>2, <2>3, <2>4
<1>22. CASE Removed
  <2>1. LoopIsLast' /\ PollIsShort'
    BY <1>22 DEF LiveInv, LoopIsLast, PollIsShort, Removed, Goto, chip
  <2>2. SetUpInTime'
    BY <1>22 DEF LiveInv, SetUpInTime, LoopIsLast, StartsAtOne, Starting, IInv,
       Sending, Removed, Goto, chip
  <2>3. SuccessMeans'
    BY <1>22 DEF LiveInv, SuccessMeans, Removed, Goto, chip
  <2>4. ASSUME stays PROVE NeverMissed' /\ BitsInStep'
    <3>1. NeverMissed'
      BY <1>22, <2>4 DEF LiveInv, NeverMissed, Removed, Goto, chip
    <3>2. BitsInStep'
      BY <1>22, <2>4 DEF LiveInv, BitsInStep, LoopIsLast, Removed, Goto, chip
    <3>. QED
      BY <3>1, <3>2
  <2>. QED
    BY <2>1, <2>2, <2>3, <2>4
<1>23. CASE ChipAnswer
  <2>1. /\ run.at # "rest" /\ "done" \notin msg
        /\ pc \notin {"erase", "check", "retry", "retry erase", "retry wait", "recheck"}
    BY <1>23 DEF ChipAnswer, LiveInv, IInv, CommandsFirst
  <2>2. step = 1
    BY <1>23 DEF ChipAnswer, LiveInv, IInv, CommandsFirst
  <2>3. UNCHANGED <<pc, step, toggle, mem, run, msg>>
    BY <1>23 DEF ChipAnswer, main
  <2>4. /\ kb'.here = kb.here
        /\ kb'.bit = 0 \/ kb'.bit = kb.bit
    BY <1>23 DEF ChipAnswer, LiveInv, IInv, KeyboardTypes, Keyboards
  <2>5. step # 10 /\ step \notin 2 .. 9 /\ step \notin 7 .. 9
    BY <2>2
  <2>6. LoopIsLast' /\ PollIsShort'
    BY <2>3 DEF LiveInv, LoopIsLast, PollIsShort
  <2>7. SetUpInTime'
    BY <2>3, <2>4, <2>5 DEF LiveInv, SetUpInTime
  <2>8. SuccessMeans'
    BY <2>1, <2>3 DEF SuccessMeans
  <2>9. ASSUME stays PROVE NeverMissed' /\ BitsInStep'
    BY <2>3, <2>4, <2>5, <2>9 DEF LiveInv, NeverMissed, BitsInStep
  <2>. QED
    BY <2>6, <2>7, <2>8, <2>9
<1>24. CASE ChipFirst
  <2>1. /\ run.at = "first" /\ run.list = List /\ run.list # "poll"
        /\ pc \in {"flag", "wait", "erase more"}
    BY <1>24, OnItsList DEF ChipFirst, LiveInv
  <2>2. step # 10
    BY <2>1, ListsAre DEF List, LiveInv, IInv, MainTypes
  <2>3. /\ UNCHANGED <<pc, step, toggle, msg, kb>>
        /\ mem'.ctl = 3 => Answers
    BY <1>24 DEF ChipFirst, main, Good, LiveInv, IInv, ListTypes
  <2>4. step = 1 /\ Answers => kb.here /\ kb.address = 0
    BY <2>1, FirstIs DEF Answers
  <2>5. "done" \notin msg
    BY <2>1 DEF LiveInv, IInv, DoneIsOfTheList
  <2>6. LoopIsLast' /\ PollIsShort'
    BY <2>2, <2>3 DEF LiveInv, LoopIsLast, PollIsShort
  <2>7. SetUpInTime'
    BY <2>3 DEF LiveInv, SetUpInTime
  <2>8. SuccessMeans'
    BY <2>1, <2>3, <2>4, <2>5 DEF SuccessMeans
  <2>9. ASSUME stays PROVE NeverMissed' /\ BitsInStep'
    BY <2>2, <2>3, <2>9 DEF LiveInv, NeverMissed, BitsInStep
  <2>. QED
    BY <2>6, <2>7, <2>8, <2>9
<1>25. CASE ChipRest
  <2>1. /\ run.at = "rest" /\ run.list = List /\ mem.list = run.list
        /\ pc \in {"flag", "wait", "erase more"}
    BY <1>25, OnItsList DEF ChipRest, LiveInv
  <2>2. step # 10
    BY <2>1 DEF LiveInv, PollIsShort
  <2>3. /\ UNCHANGED <<pc, step, toggle, mem>> /\ run' = Off
        /\ kb' = IF Answers /\ mem.ctl # 0 THEN Obeys(kb) ELSE kb
    BY <1>25, <2>1 DEF ChipRest, main
  <2>4. /\ run'.at = "off"
        /\ kb'.here = kb.here
        /\ kb'.address = kb.address \/ kb'.address = 2
        /\ kb.configured => kb'.configured
        /\ kb'.bit = kb.bit \/ kb'.bit = 0
    BY <2>3 DEF Obeys, Off, LiveInv, IInv, KeyboardTypes, Keyboards
  <2>5. LoopIsLast' /\ PollIsShort'
    BY <2>2, <2>3, <2>4 DEF LiveInv, LoopIsLast, PollIsShort
  <2>6. SetUpInTime'
    BY <2>2, <2>3, <2>4 DEF LiveInv, SetUpInTime
  <2>7. SuccessMeans'
    <3>1. ASSUME mem.ctl = 3, step = 1 PROVE kb'.address = 2
      <4>1. mem.ctl # 0
        BY <3>1
      <4>2. run.list = "set address" /\ Answers
        BY <2>1, <3>1, FirstIs DEF LiveInv, SuccessMeans, Answers
      <4>3. kb' = [kb EXCEPT !.address = 2]
        BY <2>3, <4>2, <4>1 DEF Obeys
      <4>. QED
        BY <4>3 DEF LiveInv, IInv, KeyboardTypes, Keyboards
    <3>2. ASSUME mem.ctl = 3, step = 6 PROVE kb'.configured
      <4>1. run.list = "set config"
        BY <2>1, <3>2, SixthIs DEF LiveInv, IInv
      <4>2. step \in 2 .. 9
        BY <3>2
      <4>3. Answers
        BY <4>1, <4>2 DEF LiveInv, SetUpInTime, Answers
      <4>4. mem.ctl # 0
        BY <3>2
      <4>5. kb' = [kb EXCEPT !.configured = TRUE, !.bit = 0, !.pending = FALSE]
        BY <2>3, <4>1, <4>3, <4>4 DEF Obeys
      <4>. QED
        BY <4>5 DEF LiveInv, IInv, KeyboardTypes, Keyboards
    <3>. QED
      BY <2>1, <2>3, <2>4, <3>1, <3>2 DEF SuccessMeans
  <2>8. ASSUME stays PROVE NeverMissed' /\ BitsInStep'
    BY <2>2, <2>3, <2>4, <2>8 DEF LiveInv, NeverMissed, BitsInStep
  <2>. QED
    BY <2>5, <2>6, <2>7, <2>8
<1>26. CASE ChipNoAnswer
  <2>1. /\ run.at = "first" /\ run.list = List /\ run.list = "poll"
        /\ pc \in {"flag", "wait", "erase more"}
    BY <1>26, OnItsList DEF ChipNoAnswer, LiveInv
  <2>2. step = 10
    BY <2>1, ListsAre DEF List, LiveInv, IInv, MainTypes
  <2>3. /\ UNCHANGED <<pc, step, toggle, kb>>
        /\ run'.at = "off" /\ mem'.ctl = 0
    BY <1>26 DEF ChipNoAnswer, main, Off, LiveInv, IInv, ListTypes
  <2>4. mem'.ctl # 3
    BY <2>3
  <2>5. LoopIsLast' /\ PollIsShort'
    BY <2>2, <2>3 DEF LoopIsLast, PollIsShort
  <2>6. SetUpInTime'
    BY <2>3 DEF LiveInv, SetUpInTime
  <2>7. SuccessMeans'
    BY <2>4 DEF SuccessMeans
  <2>8. ~ stays
    <3>1. ASSUME stays PROVE FALSE
      <4>1. kb.here /\ kb.configured
        BY <2>1, <2>2, <3>1 DEF LiveInv, NeverMissed, SetUpInTime
      <4>2. kb.address = 2
        BY <4>1 DEF LiveInv, IInv, SetUpLate
      <4>3. Answers
        BY <2>1, <4>1, <4>2 DEF Answers
      <4>. QED
        BY <1>26, <4>1, <4>3 DEF ChipNoAnswer
    <3>. QED
      BY <3>1
  <2>. QED
    BY <2>5, <2>6, <2>7, <2>8
<1>27. CASE ChipReport
  <2>1. /\ run.at = "first" /\ run.list = List /\ run.list = "poll"
        /\ pc \in {"flag", "wait", "erase more"}
    BY <1>27, OnItsList DEF ChipReport, LiveInv
  <2>2. step = 10
    BY <2>1, ListsAre DEF List, LiveInv, IInv, MainTypes
  <2>3. /\ UNCHANGED <<pc, step, toggle>>
        /\ kb'.here = kb.here /\ kb'.address = kb.address
        /\ kb'.configured = kb.configured
        /\ kb'.bit = 1 - kb.bit
    BY <1>27 DEF ChipReport, main, LiveInv, IInv, KeyboardTypes, Keyboards
  <2>4. run'.at \in {"off", "first"}
    <3>1. run' = Off \/ run' = run
      BY <1>27 DEF ChipReport
    <3>2. CASE run' = Off
      BY <3>2 DEF Off
    <3>3. CASE run' = run
      BY <2>1, <3>3
    <3>. QED
      BY <3>1, <3>2, <3>3
  <2>5. mem'.bit = mem.bit
    <3>1. mem' = [mem EXCEPT !.ctl = Good] \/ mem' = mem
      BY <1>27 DEF ChipReport
    <3>. QED
      BY <3>1 DEF LiveInv, IInv, ListTypes
  <2>6. step # 1 /\ step # 6 /\ step \notin 2 .. 9 /\ step \notin 7 .. 9
    BY <2>2
  <2>7. LoopIsLast' /\ PollIsShort'
    BY <2>2, <2>3, <2>4 DEF LoopIsLast, PollIsShort
  <2>8. SetUpInTime'
    BY <2>3, <2>6 DEF LiveInv, SetUpInTime
  <2>9. SuccessMeans'
    BY <2>1, <2>3, <2>6 DEF SuccessMeans
  <2>10. ASSUME stays PROVE NeverMissed' /\ BitsInStep'
    <3>1. NeverMissed'
      BY <2>3, <2>10 DEF LiveInv, NeverMissed
    <3>2. kb.bit = 1 - toggle /\ mem.bit = 1 - toggle
      BY <2>1, <2>2, <2>10 DEF LiveInv, BitsInStep
    <3>3. run' = Off /\ msg' = msg \cup {"done"}
      BY <1>27, <3>2 DEF ChipReport, Post
    <3>4. kb'.bit = toggle
      BY <2>3, <3>2 DEF LiveInv, IInv, MainTypes
    <3>5. run'.at = "off" /\ "done" \in msg'
      BY <3>3 DEF Off
    <3>6. BitsInStep'
      BY <2>1, <2>2, <2>3, <2>5, <3>2, <3>4, <3>5 DEF BitsInStep
    <3>. QED
      BY <3>1, <3>6
  <2>. QED
    BY <2>7, <2>8, <2>9, <2>10
<1>28. CASE ChipNotice
  <2>1. /\ UNCHANGED <<pc, step, toggle, mem, run>>
        /\ "done" \in msg' <=> "done" \in msg
    BY <1>28 DEF ChipNotice, Post, main
  <2>2. /\ kb'.here = kb.here /\ kb'.address = kb.address
        /\ kb'.configured = kb.configured /\ kb'.bit = kb.bit
    BY <1>28 DEF ChipNotice, LiveInv, IInv, KeyboardTypes, Keyboards
  <2>. QED
    BY <2>1, <2>2, KeyboardOnly
<1>29. CASE Press
  <2>1. /\ UNCHANGED <<pc, step, toggle, mem, run>>
        /\ "done" \in msg' <=> "done" \in msg
    BY <1>29 DEF Press, main, chip
  <2>2. /\ kb'.here = kb.here /\ kb'.address = kb.address
        /\ kb'.configured = kb.configured /\ kb'.bit = kb.bit
    BY <1>29 DEF Press, LiveInv, IInv, KeyboardTypes, Keyboards
  <2>. QED
    BY <2>1, <2>2, KeyboardOnly
<1>30. CASE Pull
  <2>1. step = 10 /\ UNCHANGED <<pc, step, toggle, mem, run, msg>>
    BY <1>30, PollIs DEF Pull, Polling, main, chip
  <2>2. kb'.here = FALSE
    BY <1>30 DEF Pull, Away
  <2>3. step # 1 /\ step # 6 /\ step \notin 2 .. 9 /\ step \notin 7 .. 9
    BY <2>1
  <2>4. LoopIsLast' /\ PollIsShort'
    BY <2>1 DEF LiveInv, LoopIsLast, PollIsShort
  <2>5. SetUpInTime'
    BY <2>1, <2>2, <2>3 DEF SetUpInTime
  <2>6. SuccessMeans'
    BY <2>1, <2>3 DEF LiveInv, SuccessMeans
  <2>. QED
    BY <2>2, <2>4, <2>5, <2>6
<1>31. CASE Plug
  <2>1. /\ pc \in {"absent", "removed"} /\ ~ kb.here
        /\ UNCHANGED <<pc, step, toggle, mem, run, msg>>
    BY <1>31 DEF Plug, main, chip
  <2>2. step = 1 \/ (step = 10 /\ pc = "removed")
    <3>1. pc = "absent" => step = 1
      BY DEF LiveInv, IInv, StartsAtOne, Starting
    <3>2. pc = "removed" => step = 10
      BY DEF LiveInv, LoopIsLast
    <3>3. CASE pc = "absent"
      BY <3>1, <3>3
    <3>4. CASE pc = "removed"
      BY <3>2, <3>4
    <3>. QED
      BY <2>1, <3>3, <3>4
  <2>3. step \notin 2 .. 9 /\ step \notin 7 .. 9 /\ (step = 10 => step # 1)
    BY <2>2
  <2>4. run.at = "off" /\ "done" \notin msg
    BY <2>1 DEF LiveInv, IInv, RunsItsList, DoneIsOfTheList
  <2>5. LoopIsLast' /\ PollIsShort'
    BY <2>1 DEF LiveInv, LoopIsLast, PollIsShort
  <2>6. SetUpInTime'
    BY <2>1, <2>2, <2>3 DEF SetUpInTime, Sending
  <2>7. SuccessMeans'
    BY <2>1, <2>4 DEF SuccessMeans
  <2>8. ~ stays
    BY <2>1 DEF LiveInv, NeverMissed
  <2>. QED
    BY <2>5, <2>6, <2>7, <2>8
<1>32. CASE UNCHANGED vars
  <2>. UNCHANGED <<pc, step, tries, toggle, ports, kb>>
    BY <1>32 DEF vars, main
  <2>. UNCHANGED <<mail, cmd, mem, run, msg, flag, buf>>
    BY <1>32 DEF vars, chip
  <2>1. LoopIsLast' /\ SetUpInTime' /\ SuccessMeans' /\ PollIsShort'
    BY DEF LiveInv, LoopIsLast, SetUpInTime, SuccessMeans, PollIsShort
  <2>2. ASSUME stays PROVE NeverMissed' /\ BitsInStep'
    BY <2>2 DEF LiveInv, NeverMissed, BitsInStep
  <2>. QED
    BY <2>1, <2>2
<1>. QED
  BY <1>1, <1>2, <1>3, <1>4, <1>5, <1>6, <1>7, <1>8, <1>9, <1>10, <1>11, <1>12,
     <1>13, <1>14, <1>15, <1>15a, <1>16, <1>17, <1>18, <1>19, <1>20, <1>21, <1>22,
     <1>23, <1>24, <1>25, <1>26, <1>27, <1>28, <1>29, <1>30, <1>31, <1>32
     DEF Next, Main, Start, Transfer, Loop, Chip

\* A keyboard that is polled has been set up, and the program and one that has
\* stayed in agree on the data bit of the next report: main turns its toggle
\* once for every report, and no report is taken for one already seen.
THEOREM PollsInStep == Prompt /\ Patient /\ LiveSafe => []PolledInStep
<1>. SUFFICES ASSUME Prompt, Patient PROVE LiveSafe => []PolledInStep
  OBVIOUS
<1>1. LiveInit => LiveInv
  <2>. SUFFICES ASSUME LiveInit PROVE LiveInv
    OBVIOUS
  <2>1. IInv
    BY InitIInv DEF LiveInit
  <2>2. /\ pc = "hotplug" /\ step = 1 /\ toggle = 0 /\ run.at = "off"
        /\ msg = {} /\ mem.ctl = 0
    BY DEF LiveInit, Init, Off
  <2>3. kb.bit = 0 /\ (stays => kb.here)
    BY DEF LiveInit, Init, Away
  <2>4. LoopIsLast /\ PollIsShort
    BY <2>2 DEF LoopIsLast, PollIsShort
  <2>5. SetUpInTime /\ SuccessMeans
    BY <2>2 DEF SetUpInTime, SuccessMeans, Sending
  <2>6. stays => NeverMissed /\ BitsInStep
    BY <2>2, <2>3 DEF NeverMissed, BitsInStep
  <2>. QED
    BY <2>1, <2>4, <2>5, <2>6 DEF LiveInv
<1>2. LiveInv /\ [LiveNext]_<<vars, stays>> => LiveInv'
  <2>. SUFFICES ASSUME LiveInv, [LiveNext]_<<vars, stays>> PROVE LiveInv'
    OBVIOUS
  <2>1. [Next]_vars /\ stays' = stays
    BY DEF LiveNext
  <2>2. stays => kb'.here
    BY DEF LiveNext, LiveInv, NeverMissed, vars
  <2>3. IInv'
    BY <2>1, StepIInv DEF LiveInv
  <2>. QED
    BY <2>1, <2>2, <2>3, LiveStepIs DEF LiveInv
<1>3. LiveInv => PolledInStep
  <2>. SUFFICES ASSUME LiveInv PROVE PolledInStep
    OBVIOUS
  <2>1. PollsConfigured
    BY PollIs DEF LiveInv, SetUpInTime, PollsConfigured, Polling
  <2>2. ASSUME stays PROVE TogglesAgree
    BY <2>2, PollIs DEF LiveInv, BitsInStep, TogglesAgree, Polling
  <2>. QED
    BY <2>1, <2>2 DEF PolledInStep
<1>. QED
  BY <1>1, <1>2, <1>3, PTL DEF LiveSafe

-----------------------------------------------------------------------------
(* The pins that carry one word *)

Data == Values \cup {Idle}
Levels == [address : Registers, r : 0 .. 1, w : 0 .. 1, cs : 0 .. 1, data : Data]
Calls == [what : {"init"}, count : {0}]
         \cup [what : {"write"}, address : Registers, data : Values, count : 0 .. 2]
         \cup [what : {"read"}, address : Registers, data : Data, count : 0 .. 2]
Accesses == {"address", "r", "w", "cs", "data", "temp", "zero"}
            \X (Registers \cup Data \cup (0 .. 1))
BusTypes == /\ pio \in Levels /\ pins \in Levels
            /\ data_in \in Data /\ held \in Data /\ temp \in Data
            /\ chip_ \in [Registers -> Data]
            /\ taken \in [address : Registers, data : Data, count : 0 .. 2]
            /\ call \in Calls /\ clocks \in 0 .. Gap
            /\ todo \in Seq(Accesses)

\* What is left to do is the end of the call under way.
Program == CASE call.what = "init"  -> Bus!IO_init
             [] call.what = "write" -> Bus!IO_write(call.address, call.data)
             [] OTHER               -> Bus!IO_read(call.address)
Left == Len(todo)
EndOfCall == /\ Left \in 0 .. Len(Program)
             /\ \A i \in 1 .. Left : todo[i] = Program[Len(Program) - Left + i]

\* The levels of the pins when k accesses are left.
Low01(within) == IF within THEN 0 ELSE 1
LevelsAt(p, k) ==
  /\ call.what = "init" => /\ k = 4 => p.w = 0
                           /\ k <= 3 => p.cs = 1
                           /\ k <= 2 => p.r = 1
                           /\ k <= 1 => p.w = 1
  /\ call.what = "write" => /\ p.r = 1
                            /\ p.w = Low01(k \in 2 .. 3)
                            /\ p.cs = Low01(k \in 1 .. 4)
                            /\ k <= 6 => p.address = call.address
                            /\ k <= 2 => p.data = call.data
  /\ call.what = "read" => /\ p.r = Low01(k \in 2 .. 3)
                           /\ p.w = 1
                           /\ p.cs = Low01(k \in 1 .. 4)
                           /\ k <= 6 => p.address = call.address
\* The board's registers follow the ports one clock later.
PortsFirst == LevelsAt(pio, Left)
PinsFollow == IF clocks = 0 THEN /\ call.what # "init" => Left < 7
                                 /\ call.what # "init" => LevelsAt(pins, Left + 1)
                            ELSE pins = pio

\* The word is on the bus for two clocks before it is taken, and is taken when
\* the write pin rises.
Rising == Left >= 2 \/ (Left = 1 /\ clocks = 0)
WordIsHeld ==
  call.what = "write" /\ (\/ Left = 2 /\ clocks >= 2
                          \/ Left = 1 /\ clocks = 0) => held = call.data
WordIsTaken ==
  IF call.what = "write" /\ ~ Rising
  THEN /\ taken.address = call.address /\ taken.data = call.data
       /\ taken.count = (call.count + 1) % 3
  ELSE taken.count = call.count
\* The word is in the program's register two clocks after it is asked for.
WordIsBack ==
  call.what = "read" => /\ call.data = chip_[call.address]
                        /\ Left = 3 /\ clocks >= 2 => data_in = call.data
                        /\ Left <= 2 => temp = call.data

BusInv == /\ BusTypes /\ EndOfCall /\ PortsFirst /\ PinsFollow
          /\ WordIsHeld /\ WordIsTaken /\ WordIsBack

LEMMA ProgramIs ==
  /\ call.what = "init" =>
       /\ Len(Program) = 4
       /\ Program[1] = <<"cs", 1>> /\ Program[2] = <<"r", 1>>
       /\ Program[3] = <<"w", 1>> /\ Program[4] = <<"zero", 0>>
  /\ call.what = "write" =>
       /\ Len(Program) = 7
       /\ Program[1] = <<"address", call.address>> /\ Program[2] = <<"r", 1>>
       /\ Program[3] = <<"cs", 0>> /\ Program[4] = <<"w", 0>>
       /\ Program[5] = <<"data", call.data>> /\ Program[6] = <<"w", 1>>
       /\ Program[7] = <<"cs", 1>>
  /\ call.what = "read" =>
       /\ Len(Program) = 7
       /\ Program[1] = <<"address", call.address>> /\ Program[2] = <<"w", 1>>
       /\ Program[3] = <<"cs", 0>> /\ Program[4] = <<"r", 0>>
       /\ Program[5] = <<"temp", 0>> /\ Program[6] = <<"r", 1>>
       /\ Program[7] = <<"cs", 1>>
<1>1. CASE call.what = "init"
  <2>1. Program = << <<"cs", 1>>, <<"r", 1>>, <<"w", 1>>, <<"zero", 0>> >>
    BY <1>1 DEF Program, Bus!IO_init
  <2>. QED
    BY <1>1, <2>1
<1>2. CASE call.what = "write"
  <2>1. Program = << <<"address", call.address>>, <<"r", 1>>, <<"cs", 0>>,
                     <<"w", 0>>, <<"data", call.data>>, <<"w", 1>>, <<"cs", 1>> >>
    BY <1>2 DEF Program, Bus!IO_write
  <2>. QED
    BY <1>2, <2>1
<1>3. CASE call.what = "read"
  <2>1. Program = << <<"address", call.address>>, <<"w", 1>>, <<"cs", 0>>,
                     <<"r", 0>>, <<"temp", 0>>, <<"r", 1>>, <<"cs", 1>> >>
    BY <1>3 DEF Program, Bus!IO_read
  <2>. QED
    BY <1>3, <2>1
<1>. QED
  BY <1>1, <1>2, <1>3

LEMMA CallIs == ASSUME BusTypes
                PROVE  /\ call.what \in {"init", "write", "read"}
                       /\ call.count \in 0 .. 2
                       /\ call.what # "init" => call.address \in Registers
                       /\ call.what = "write" => call.data \in Values
                       /\ call.what = "read" => call.data \in Data
                       /\ call.what = "init" => call.count = 0
BY DEF BusTypes, Calls

\* The next access, and what is left after it.
LEMMA NextAccess ==
  ASSUME BusTypes, EndOfCall, Bus!Access
  PROVE  /\ Left \in 1 .. Len(Program)
         /\ Head(todo) = Program[Len(Program) - Left + 1]
         /\ todo' \in Seq(Accesses) /\ Left' = Left - 1
         /\ EndOfCall' /\ Program' = Program
<1>1. todo \in Seq(Accesses) /\ todo # <<>> /\ todo' = Tail(todo) /\ call' = call
  BY DEF BusTypes, Bus!Access
<1>2. Left \in 1 .. Len(Program)
  BY <1>1 DEF EndOfCall, Left
<1>3. Head(todo) = todo[1]
  BY <1>1
<1>4. todo' \in Seq(Accesses) /\ Left' = Left - 1
  BY <1>1 DEF Left
<1>5. Program' = Program
  BY <1>1 DEF Program
<1>6. Len(Program) \in Nat
  BY ProgramIs, CallIs
<1>7. EndOfCall'
  <2>1. Left' \in 0 .. Len(Program')
    BY <1>2, <1>4, <1>5, <1>6
  <2>2. ASSUME NEW i \in 1 .. Left' PROVE todo'[i] = Program'[Len(Program') - Left' + i]
    <3>1. i \in 1 .. Left - 1 /\ i + 1 \in 1 .. Left
      BY <1>2, <1>4, <1>6
    <3>2. todo'[i] = todo[i + 1]
      BY <1>1, <3>1 DEF Left
    <3>3. todo[i + 1] = Program[Len(Program) - Left + (i + 1)]
      BY <3>1 DEF EndOfCall
    <3>4. Len(Program) - Left + (i + 1) = Len(Program') - Left' + i
      BY <1>2, <1>4, <1>5, <1>6, <3>1
    <3>. QED
      BY <1>5, <3>2, <3>3, <3>4
  <2>. QED
    BY <2>1, <2>2 DEF EndOfCall
<1>8. todo[1] = Program[Len(Program) - Left + 1]
  BY <1>2 DEF EndOfCall
<1>. QED
  BY <1>2, <1>3, <1>4, <1>5, <1>7, <1>8

\* What one access does to the ports.
LEMMA PortIs ==
  ASSUME BusTypes, EndOfCall, Bus!Access
  PROVE  /\ call.what = "init" =>
              /\ Left = 4 => pio' = [pio EXCEPT !.cs = 1]
              /\ Left = 3 => pio' = [pio EXCEPT !.r = 1]
              /\ Left = 2 => pio' = [pio EXCEPT !.w = 1]
              /\ Left = 1 => pio' = [pio EXCEPT !.data = Idle]
         /\ call.what = "write" =>
              /\ Left = 7 => pio' = [pio EXCEPT !.address = call.address]
              /\ Left = 6 => pio' = [pio EXCEPT !.r = 1]
              /\ Left = 5 => pio' = [pio EXCEPT !.cs = 0]
              /\ Left = 4 => pio' = [pio EXCEPT !.w = 0]
              /\ Left = 3 => pio' = [pio EXCEPT !.data = call.data]
              /\ Left = 2 => pio' = [pio EXCEPT !.w = 1]
              /\ Left = 1 => pio' = [pio EXCEPT !.cs = 1]
         /\ call.what = "read" =>
              /\ Left = 7 => pio' = [pio EXCEPT !.address = call.address]
              /\ Left = 6 => pio' = [pio EXCEPT !.w = 1]
              /\ Left = 5 => pio' = [pio EXCEPT !.cs = 0]
              /\ Left = 4 => pio' = [pio EXCEPT !.r = 0]
              /\ Left = 3 => pio' = pio
              /\ Left = 2 => pio' = [pio EXCEPT !.r = 1]
              /\ Left = 1 => pio' = [pio EXCEPT !.cs = 1]
         /\ temp' = IF call.what = "read" /\ Left = 3 THEN data_in ELSE temp
<1>1. Head(todo) = <<"temp", 0>> => pio' = pio /\ temp' = data_in
  BY DEF Bus!Access
<1>2. Head(todo) = <<"zero", 0>> => pio' = [pio EXCEPT !.data = Idle] /\ temp' = temp
  BY DEF Bus!Access
<1>3. ASSUME NEW v
      PROVE  /\ Head(todo) = <<"address", v>> => pio' = [pio EXCEPT !.address = v] /\ temp' = temp
             /\ Head(todo) = <<"r", v>> => pio' = [pio EXCEPT !.r = v] /\ temp' = temp
             /\ Head(todo) = <<"w", v>> => pio' = [pio EXCEPT !.w = v] /\ temp' = temp
             /\ Head(todo) = <<"cs", v>> => pio' = [pio EXCEPT !.cs = v] /\ temp' = temp
             /\ Head(todo) = <<"data", v>> => pio' = [pio EXCEPT !.data = v] /\ temp' = temp
  <2>1. Head(todo) = <<"address", v>> => pio' = [pio EXCEPT !.address = v] /\ temp' = temp
    BY DEF Bus!Access
  <2>2. Head(todo) = <<"r", v>> => pio' = [pio EXCEPT !.r = v] /\ temp' = temp
    BY DEF Bus!Access
  <2>3. Head(todo) = <<"w", v>> => pio' = [pio EXCEPT !.w = v] /\ temp' = temp
    BY DEF Bus!Access
  <2>4. Head(todo) = <<"cs", v>> => pio' = [pio EXCEPT !.cs = v] /\ temp' = temp
    BY DEF Bus!Access
  <2>5. Head(todo) = <<"data", v>> => pio' = [pio EXCEPT !.data = v] /\ temp' = temp
    BY DEF Bus!Access
  <2>. QED
    BY <2>1, <2>2, <2>3, <2>4, <2>5
<1>4. Head(todo) = Program[Len(Program) - Left + 1] /\ Left \in 1 .. Len(Program)
  BY NextAccess
<1>5. CASE call.what = "init"
  <2>1. Head(todo) = Program[5 - Left] /\ Left \in 1 .. 4
    <3>1. Len(Program) = 4
      BY <1>5, ProgramIs
    <3>2. Left \in 1 .. 4
      BY <1>4, <3>1
    <3>3. Len(Program) - Left + 1 = 5 - Left
      BY <3>1, <3>2
    <3>. QED
      BY <1>4, <3>2, <3>3
  <2>2. /\ Left = 4 => Head(todo) = <<"cs", 1>>
        /\ Left = 3 => Head(todo) = <<"r", 1>>
        /\ Left = 2 => Head(todo) = <<"w", 1>>
        /\ Left = 1 => Head(todo) = <<"zero", 0>>
    BY <1>5, <2>1, ProgramIs
  <2>. QED
    BY <1>2, <1>3, <1>5, <2>1, <2>2
<1>6. CASE call.what = "write"
  <2>1. Head(todo) = Program[8 - Left] /\ Left \in 1 .. 7
    <3>1. Len(Program) = 7
      BY <1>6, ProgramIs
    <3>2. Left \in 1 .. 7
      BY <1>4, <3>1
    <3>3. Len(Program) - Left + 1 = 8 - Left
      BY <3>1, <3>2
    <3>. QED
      BY <1>4, <3>2, <3>3
  <2>2. /\ Left = 7 => Head(todo) = <<"address", call.address>>
        /\ Left = 6 => Head(todo) = <<"r", 1>>
        /\ Left = 5 => Head(todo) = <<"cs", 0>>
        /\ Left = 4 => Head(todo) = <<"w", 0>>
        /\ Left = 3 => Head(todo) = <<"data", call.data>>
        /\ Left = 2 => Head(todo) = <<"w", 1>>
        /\ Left = 1 => Head(todo) = <<"cs", 1>>
    BY <1>6, <2>1, ProgramIs
  <2>. QED
    BY <1>3, <1>6, <2>1, <2>2
<1>7. CASE call.what = "read"
  <2>1. Head(todo) = Program[8 - Left] /\ Left \in 1 .. 7
    <3>1. Len(Program) = 7
      BY <1>7, ProgramIs
    <3>2. Left \in 1 .. 7
      BY <1>4, <3>1
    <3>3. Len(Program) - Left + 1 = 8 - Left
      BY <3>1, <3>2
    <3>. QED
      BY <1>4, <3>2, <3>3
  <2>2. /\ Left = 7 => Head(todo) = <<"address", call.address>>
        /\ Left = 6 => Head(todo) = <<"w", 1>>
        /\ Left = 5 => Head(todo) = <<"cs", 0>>
        /\ Left = 4 => Head(todo) = <<"r", 0>>
        /\ Left = 3 => Head(todo) = <<"temp", 0>>
        /\ Left = 2 => Head(todo) = <<"r", 1>>
        /\ Left = 1 => Head(todo) = <<"cs", 1>>
    BY <1>7, <2>1, ProgramIs
  <2>. QED
    BY <1>1, <1>3, <1>7, <2>1, <2>2
<1>. QED
  BY <1>5, <1>6, <1>7, CallIs

LEMMA BusConstants == Registers # {} /\ Gap \in Nat /\ Gap >= 2
BY BusAssumption DEF Bus!HpiAssumption

LEMMA BusInit == Bus!Init => BusInv
<1>. SUFFICES ASSUME Bus!Init PROVE BusInv
  OBVIOUS
<1>1. Bus!Low.address \in Registers
  BY BusConstants DEF Bus!Low
<1>2. /\ Bus!Low \in Levels /\ Bus!Low.w = 0
      /\ [Bus!Low EXCEPT !.r = 1, !.w = 1, !.cs = 1] \in Levels
  <2>1. Bus!Low \in Levels /\ Bus!Low.w = 0
    BY <1>1 DEF Bus!Low, Levels, Data
  <2>2. 0 .. 1 # {} /\ 1 \in 0 .. 1
    OBVIOUS
  <2>. QED
    BY <2>1, <2>2 DEF Levels
<1>3. call = [what |-> "init", count |-> 0]
  BY DEF Bus!Init
<1>4. call.what = "init" /\ call.count = 0 /\ call \in Calls
  BY <1>3 DEF Calls
<1>5. todo = << <<"cs", 1>>, <<"r", 1>>, <<"w", 1>>, <<"zero", 0>> >>
  BY DEF Bus!Init, Bus!IO_init
<1>6. todo \in Seq(Accesses) /\ Left = 4
  BY <1>5 DEF Accesses, Left
<1>7. BusTypes
  <2>1. pio \in Levels /\ pins \in Levels
    BY <1>2 DEF Bus!Init
  <2>2. /\ data_in \in Data /\ held \in Data /\ temp \in Data
        /\ chip_ \in [Registers -> Data]
    BY DEF Bus!Init, Data
  <2>3. taken \in [address : Registers, data : Data, count : 0 .. 2]
    BY <1>1 DEF Bus!Init, Data
  <2>4. clocks \in 0 .. Gap
    BY BusConstants DEF Bus!Init
  <2>. QED
    BY <1>4, <1>6, <2>1, <2>2, <2>3, <2>4 DEF BusTypes
<1>8. EndOfCall
  <2>1. Program = todo
    BY <1>4, <1>5 DEF Program, Bus!IO_init
  <2>2. Len(Program) = 4
    BY <1>4, ProgramIs
  <2>. QED
    BY <1>6, <2>1, <2>2 DEF EndOfCall
<1>9. PortsFirst
  BY <1>2, <1>4, <1>6 DEF PortsFirst, LevelsAt, Bus!Init
<1>10. PinsFollow
  BY <1>4 DEF PinsFollow, Bus!Init
<1>11. WordIsHeld /\ WordIsTaken /\ WordIsBack
  BY <1>4 DEF WordIsHeld, WordIsTaken, WordIsBack, Bus!Init
<1>. QED
  BY <1>7, <1>8, <1>9, <1>10, <1>11 DEF BusInv

\* One access of the program.
LEMMA AccessStep == ASSUME BusInv, Bus!Access PROVE BusInv'
<1>. USE DEF BusInv
<1>1. /\ Left \in 1 .. Len(Program) /\ Left' = Left - 1
      /\ todo' \in Seq(Accesses) /\ EndOfCall'
  BY NextAccess
<1>2. /\ clocks = Gap /\ clocks' = 0
      /\ UNCHANGED <<pins, data_in, held, chip_, taken, call>>
  BY DEF Bus!Access
<1>3. clocks # 0 /\ clocks >= 2 /\ clocks' \in 0 .. Gap
  BY <1>2, BusConstants
<1>4. pins = pio
  BY <1>3 DEF PinsFollow
<1>5. /\ call.what \in {"init", "write", "read"}
      /\ call.what # "init" => call.address \in Registers
      /\ call.what = "write" => call.data \in Data
      /\ Idle \in Data
  BY CallIs DEF Data
<1>6. CASE call.what = "init"
  <2>1. Left \in 1 .. 4
    <3>1. Len(Program) = 4
      BY <1>6, ProgramIs
    <3>. QED
      BY <1>1, <3>1
  <2>2. pio \in Levels /\ LevelsAt(pio, Left)
    BY DEF BusTypes, PortsFirst
  <2>3. /\ Left = 4 => pio' = [pio EXCEPT !.cs = 1]
        /\ Left = 3 => pio' = [pio EXCEPT !.r = 1]
        /\ Left = 2 => pio' = [pio EXCEPT !.w = 1]
        /\ Left = 1 => pio' = [pio EXCEPT !.data = Idle]
    BY <1>6, PortIs
  <2>4. pio' \in Levels
    BY <1>5, <2>1, <2>2, <2>3 DEF Levels
  <2>5. PortsFirst'
    BY <1>1, <1>2, <1>6, <2>1, <2>2, <2>3 DEF PortsFirst, LevelsAt, Levels
  <2>6. PinsFollow'
    BY <1>2, <1>6 DEF PinsFollow
  <2>7. temp' = temp
    BY <1>6, PortIs
  <2>8. BusTypes'
    BY <1>1, <1>2, <1>3, <2>4, <2>7 DEF BusTypes
  <2>9. WordIsHeld' /\ WordIsTaken' /\ WordIsBack'
    BY <1>2, <1>6 DEF WordIsHeld, WordIsTaken, WordIsBack
  <2>. QED
    BY <1>1, <2>5, <2>6, <2>8, <2>9
<1>7. CASE call.what # "init"
  <2>1. Left \in 1 .. 7
    <3>1. Len(Program) = 7
      BY <1>5, <1>7, ProgramIs
    <3>. QED
      BY <1>1, <3>1
  <2>2. pio \in Levels /\ LevelsAt(pio, Left)
    BY DEF BusTypes, PortsFirst
  <2>3. Left' \in 0 .. 6 /\ Left' + 1 = Left
    BY <1>1, <2>1
  <2>4. pio' \in Levels /\ PortsFirst'
    <3>1. CASE call.what = "write"
      <4>1. /\ Left = 7 => pio' = [pio EXCEPT !.address = call.address]
            /\ Left = 6 => pio' = [pio EXCEPT !.r = 1]
            /\ Left = 5 => pio' = [pio EXCEPT !.cs = 0]
            /\ Left = 4 => pio' = [pio EXCEPT !.w = 0]
            /\ Left = 3 => pio' = [pio EXCEPT !.data = call.data]
            /\ Left = 2 => pio' = [pio EXCEPT !.w = 1]
            /\ Left = 1 => pio' = [pio EXCEPT !.cs = 1]
        BY <3>1, PortIs
      <4>2. pio' \in Levels
        BY <1>5, <2>1, <2>2, <3>1, <4>1 DEF Levels
      <4>3. PortsFirst'
        BY <1>1, <1>2, <2>1, <2>2, <3>1, <4>1
           DEF PortsFirst, LevelsAt, Levels, Low01
      <4>. QED
        BY <4>2, <4>3
    <3>2. CASE call.what = "read"
      <4>1. /\ Left = 7 => pio' = [pio EXCEPT !.address = call.address]
            /\ Left = 6 => pio' = [pio EXCEPT !.w = 1]
            /\ Left = 5 => pio' = [pio EXCEPT !.cs = 0]
            /\ Left = 4 => pio' = [pio EXCEPT !.r = 0]
            /\ Left = 3 => pio' = pio
            /\ Left = 2 => pio' = [pio EXCEPT !.r = 1]
            /\ Left = 1 => pio' = [pio EXCEPT !.cs = 1]
        BY <3>2, PortIs
      <4>2. pio' \in Levels
        BY <1>5, <2>1, <2>2, <3>2, <4>1 DEF Levels
      <4>3. PortsFirst'
        BY <1>1, <1>2, <2>1, <2>2, <3>2, <4>1
           DEF PortsFirst, LevelsAt, Levels, Low01
      <4>. QED
        BY <4>2, <4>3
    <3>. QED
      BY <1>5, <1>7, <3>1, <3>2
  <2>5. PinsFollow'
    <3>1. LevelsAt(pins, Left + 1)'
      BY <1>2, <1>4, <2>2, <2>3 DEF LevelsAt, Low01
    <3>. QED
      BY <1>2, <2>3, <3>1 DEF PinsFollow
  <2>6. /\ temp' = IF call.what = "read" /\ Left = 3 THEN data_in ELSE temp
        /\ temp' \in Data
    BY PortIs DEF BusTypes
  <2>7. BusTypes'
    BY <1>1, <1>2, <1>3, <2>4, <2>6 DEF BusTypes
  <2>8. WordIsHeld'
    BY <1>1, <1>2, <1>3, <2>1 DEF WordIsHeld
  <2>9. WordIsTaken'
    BY <1>1, <1>2, <1>3, <2>1 DEF WordIsTaken, Rising
  <2>10. WordIsBack'
    BY <1>1, <1>2, <1>3, <2>1, <2>6 DEF WordIsBack
  <2>. QED
    BY <1>1, <2>4, <2>5, <2>7, <2>8, <2>9, <2>10
<1>. QED
  BY <1>6, <1>7

\* A call begins.
LEMMA CallStep == ASSUME BusInv, Bus!Call PROVE BusInv'
<1>. USE DEF BusInv
<1>1. /\ todo = <<>> /\ clocks = Gap
      /\ UNCHANGED <<pio, pins, data_in, held, chip_, taken, temp, clocks>>
  BY DEF Bus!Call
<1>2. Left = 0 /\ clocks # 0 /\ pins = pio
  <2>1. Left = 0 /\ clocks # 0
    BY <1>1, BusConstants DEF Left
  <2>. QED
    BY <2>1 DEF PinsFollow
<1>3. pio.r = 1 /\ pio.w = 1 /\ pio.cs = 1
  BY <1>2, CallIs DEF PortsFirst, LevelsAt, Low01
<1>4. taken.count \in 0 .. 2
  BY DEF BusTypes
<1>5. CASE \E a \in Registers, d \in Values :
             /\ todo' = Bus!IO_write(a, d)
             /\ call' = [what |-> "write", address |-> a, data |-> d,
                         count |-> taken.count]
  <2>1. PICK a \in Registers, d \in Values :
             /\ todo' = Bus!IO_write(a, d)
             /\ call' = [what |-> "write", address |-> a, data |-> d,
                         count |-> taken.count]
    BY <1>5
  <2>2. /\ call'.what = "write" /\ call'.address = a /\ call'.data = d
        /\ call'.count = taken.count /\ call' \in Calls
    BY <1>4, <2>1 DEF Calls
  <2>3. Program' = todo'
    BY <2>1, <2>2 DEF Program
  <2>4. todo' = << <<"address", a>>, <<"r", 1>>, <<"cs", 0>>, <<"w", 0>>,
                   <<"data", d>>, <<"w", 1>>, <<"cs", 1>> >>
    BY <2>1 DEF Bus!IO_write
  <2>5. d \in Data
    BY DEF Data
  <2>6. todo' \in Seq(Accesses) /\ Left' = 7
    BY <2>4, <2>5 DEF Accesses, Left
  <2>7. EndOfCall'
    BY <2>3, <2>6 DEF EndOfCall, Left
  <2>8. BusTypes'
    BY <1>1, <2>2, <2>6 DEF BusTypes
  <2>9. PortsFirst' /\ PinsFollow'
    BY <1>1, <1>2, <1>3, <2>2, <2>6 DEF PortsFirst, PinsFollow, LevelsAt, Low01
  <2>10. WordIsHeld' /\ WordIsTaken' /\ WordIsBack'
    BY <1>1, <2>2, <2>6 DEF WordIsHeld, WordIsTaken, WordIsBack, Rising
  <2>. QED
    BY <2>7, <2>8, <2>9, <2>10
<1>6. CASE \E a \in Registers :
             /\ todo' = Bus!IO_read(a)
             /\ call' = [what |-> "read", address |-> a, data |-> chip_[a],
                         count |-> taken.count]
  <2>1. PICK a \in Registers :
             /\ todo' = Bus!IO_read(a)
             /\ call' = [what |-> "read", address |-> a, data |-> chip_[a],
                         count |-> taken.count]
    BY <1>6
  <2>2. chip_[a] \in Data
    BY DEF BusTypes
  <2>3. /\ call'.what = "read" /\ call'.address = a /\ call'.data = chip_[a]
        /\ call'.count = taken.count /\ call' \in Calls
    BY <1>4, <2>1, <2>2 DEF Calls
  <2>4. Program' = todo'
    BY <2>1, <2>3 DEF Program
  <2>5. todo' = << <<"address", a>>, <<"w", 1>>, <<"cs", 0>>, <<"r", 0>>,
                   <<"temp", 0>>, <<"r", 1>>, <<"cs", 1>> >>
    BY <2>1 DEF Bus!IO_read
  <2>6. todo' \in Seq(Accesses) /\ Left' = 7
    BY <2>5 DEF Accesses, Left
  <2>7. EndOfCall'
    BY <2>4, <2>6 DEF EndOfCall, Left
  <2>8. BusTypes'
    BY <1>1, <2>3, <2>6 DEF BusTypes
  <2>9. PortsFirst' /\ PinsFollow'
    BY <1>1, <1>2, <1>3, <2>3, <2>6 DEF PortsFirst, PinsFollow, LevelsAt, Low01
  <2>10. WordIsHeld' /\ WordIsTaken' /\ WordIsBack'
    BY <1>1, <2>3, <2>6 DEF WordIsHeld, WordIsTaken, WordIsBack
  <2>. QED
    BY <2>7, <2>8, <2>9, <2>10
<1>. QED
  BY <1>5, <1>6 DEF Bus!Call

\* A clock edge.
LEMMA ClockStep == ASSUME BusInv, Bus!Clock PROVE BusInv'
<1>. USE DEF BusInv
<1>1. /\ pins' = pio /\ data_in' = Bus!Bus /\ held' = Bus!Bus
      /\ UNCHANGED <<pio, todo, call, temp>>
      /\ clocks' = IF clocks < Gap THEN clocks + 1 ELSE clocks
  BY DEF Bus!Clock
<1>2. clocks \in 0 .. Gap /\ Gap \in Nat /\ Gap >= 2
  BY BusConstants DEF BusTypes
<1>3. clocks' \in 1 .. Gap /\ (clocks' >= 2 => clocks # 0)
  BY <1>1, <1>2
<1>4. Left' = Left /\ Program' = Program
  BY <1>1 DEF Left, Program
<1>5. Left \in Nat /\ call.what \in {"init", "write", "read"}
  BY CallIs DEF Left, BusTypes
<1>6. pio \in Levels /\ pins \in Levels /\ chip_ \in [Registers -> Data]
  BY DEF BusTypes
<1>7. Bus!Bus \in Data
  BY <1>6 DEF Bus!Bus, BusTypes, Levels
<1>8. EndOfCall'
  BY <1>1, <1>4 DEF EndOfCall
<1>9. PortsFirst'
  BY <1>1, <1>4 DEF PortsFirst, LevelsAt
<1>10. PinsFollow'
  BY <1>1, <1>3 DEF PinsFollow
<1>11. WordIsHeld'
  <2>. SUFFICES ASSUME call.what = "write",
                       \/ Left = 2 /\ clocks' >= 2
                       \/ Left = 1 /\ clocks' = 0
                PROVE  held' = call.data
    BY <1>1, <1>4 DEF WordIsHeld
  <2>1. Left = 2 /\ clocks # 0
    BY <1>3
  <2>2. pins = pio
    BY <2>1 DEF PinsFollow
  <2>3. pio.w = 0 /\ pio.data = call.data
    BY <2>1 DEF PortsFirst, LevelsAt, Low01
  <2>. QED
    BY <1>1, <2>2, <2>3 DEF Bus!Bus
<1>12. CASE pins.w = 0 /\ pio.w = 1 /\ pins.cs = 0 /\ pio.cs = 0
  <2>1. call.what = "write" /\ Left = 1 /\ clocks = 0
    <3>1. clocks = 0
      BY <1>12 DEF PinsFollow
    <3>2. call.what # "init"
      BY <1>5, <1>12, ProgramIs DEF PortsFirst, LevelsAt, EndOfCall
    <3>3. LevelsAt(pins, Left + 1)
      BY <3>1, <3>2 DEF PinsFollow
    <3>4. call.what = "write"
      BY <1>5, <1>12, <3>2, <3>3 DEF LevelsAt
    <3>5. Left + 1 \in 2 .. 3 /\ Left \notin 2 .. 3
      BY <1>12, <3>3, <3>4 DEF LevelsAt, PortsFirst, Low01
    <3>. QED
      BY <1>5, <3>1, <3>4, <3>5
  <2>2. /\ chip_' = [chip_ EXCEPT ![pins.address] = Bus!Bus]
        /\ taken' = [address |-> pins.address, data |-> Bus!Bus,
                     count |-> (taken.count + 1) % 3]
    BY <1>12 DEF Bus!Clock
  <2>3. LevelsAt(pins, 2)
    <3>1. LevelsAt(pins, Left + 1)
      BY <2>1 DEF PinsFollow
    <3>. QED
      BY <2>1, <3>1
  <2>4. pins.address = call.address /\ pins.r = 1
    BY <2>1, <2>3 DEF LevelsAt
  <2>5. Bus!Bus = call.data
    BY <1>12, <2>1, <2>4 DEF Bus!Bus, WordIsHeld
  <2>6. taken.count = call.count
    BY <2>1 DEF WordIsTaken, Rising
  <2>7. ~ Rising'
    BY <1>3, <1>4, <2>1 DEF Rising
  <2>8. WordIsTaken'
    BY <1>1, <2>1, <2>2, <2>4, <2>5, <2>6, <2>7 DEF WordIsTaken
  <2>9. WordIsBack'
    BY <1>1, <2>1 DEF WordIsBack
  <2>10. taken.count \in 0 .. 2 /\ pins.address \in Registers
    BY <1>6 DEF BusTypes, Levels
  <2>11. (taken.count + 1) % 3 \in 0 .. 2
    BY <2>10
  <2>12. taken' \in [address : Registers, data : Data, count : 0 .. 2]
    BY <1>7, <2>2, <2>10, <2>11
  <2>13. BusTypes'
    BY <1>1, <1>3, <1>6, <1>7, <2>2, <2>12 DEF BusTypes
  <2>. QED
    BY <1>8, <1>9, <1>10, <1>11, <2>8, <2>9, <2>13
<1>13. CASE ~ (pins.w = 0 /\ pio.w = 1 /\ pins.cs = 0 /\ pio.cs = 0)
  <2>1. chip_' = chip_ /\ taken' = taken
    BY <1>13 DEF Bus!Clock
  <2>2. BusTypes'
    BY <1>1, <1>3, <1>6, <1>7, <2>1 DEF BusTypes
  <2>3. call.what = "write" => ~ (Left = 1 /\ clocks = 0)
    <3>. SUFFICES ASSUME call.what = "write", Left = 1, clocks = 0 PROVE FALSE
      OBVIOUS
    <3>1. LevelsAt(pins, Left + 1)
      BY DEF PinsFollow
    <3>2. Left + 1 \in 2 .. 3 /\ Left + 1 \in 1 .. 4
      OBVIOUS
    <3>3. pins.w = 0 /\ pins.cs = 0
      BY <3>1, <3>2 DEF LevelsAt, Low01
    <3>4. pio.w = 1 /\ pio.cs = 0
      BY DEF PortsFirst, LevelsAt, Low01
    <3>. QED
      BY <1>13, <3>3, <3>4
  <2>4. call.what = "write" => (Rising' <=> Rising)
    BY <1>3, <1>4, <1>5, <2>3 DEF Rising
  <2>5. WordIsTaken'
    BY <1>1, <2>1, <2>4 DEF WordIsTaken
  <2>6. WordIsBack'
    <3>. SUFFICES ASSUME call.what = "read" PROVE WordIsBack'
      BY <1>1 DEF WordIsBack
    <3>1. ASSUME Left = 3, clocks' >= 2 PROVE data_in' = call.data
      <4>1. pins = pio
        BY <1>3, <3>1 DEF PinsFollow
      <4>2. pio.w = 1 /\ pio.r = 0 /\ pio.cs = 0 /\ pio.address = call.address
        BY <3>1 DEF PortsFirst, LevelsAt, Low01
      <4>3. Bus!Bus = chip_[call.address]
        BY <4>1, <4>2 DEF Bus!Bus
      <4>. QED
        BY <1>1, <4>3 DEF WordIsBack
    <3>. QED
      BY <1>1, <1>4, <2>1, <3>1 DEF WordIsBack
  <2>. QED
    BY <1>8, <1>9, <1>10, <1>11, <2>2, <2>5, <2>6
<1>. QED
  BY <1>12, <1>13

LEMMA BusStep == ASSUME BusInv, [Bus!Next]_wires PROVE BusInv'
<1>1. CASE Bus!Next
  BY <1>1, AccessStep, CallStep, ClockStep DEF Bus!Next
<1>2. CASE UNCHANGED wires
  <2>1. UNCHANGED <<pio, pins, data_in, held, chip_, taken, todo, call, temp, clocks>>
    BY <1>2 DEF wires
  <2>2. Left' = Left /\ Program' = Program
    BY <2>1 DEF Left, Program
  <2>3. BusTypes' /\ EndOfCall'
    BY <2>1, <2>2 DEF BusInv, BusTypes, EndOfCall
  <2>4. PortsFirst' /\ PinsFollow'
    BY <2>1, <2>2 DEF BusInv, PortsFirst, PinsFollow, LevelsAt
  <2>5. WordIsHeld' /\ WordIsTaken' /\ WordIsBack'
    BY <2>1, <2>2 DEF BusInv, WordIsHeld, WordIsTaken, WordIsBack, Rising
  <2>. QED
    BY <2>3, <2>4, <2>5 DEF BusInv
<1>. QED
  BY <1>1, <1>2

\* A call of IO_write puts its word into its register once, and no other call
\* writes anything; a call of IO_read returns what is in its register; the
\* board and the controller never drive the data bus at once: for all registers
\* and values, if two accesses of the program are two clocks apart.
THEOREM WordsDoArrive == MCSpec => []WordsArrive
<1>1. MCInit => (level = "bus" => BusInv)
  BY BusInit DEF MCInit
<1>2. (level = "bus" => BusInv) /\ [MCNext]_<<vars, level, walk, wires>>
        => (level = "bus" => BusInv)'
  <2>. SUFFICES ASSUME level = "bus" => BusInv,
                       [MCNext]_<<vars, level, walk, wires>>, level' = "bus"
                PROVE  BusInv'
    OBVIOUS
  <2>1. level = "bus"
    BY DEF MCNext
  <2>2. [Bus!Next]_wires
    BY <2>1 DEF MCNext
  <2>. QED
    BY <2>1, <2>2, BusStep
<1>3. (level = "bus" => BusInv) => WordsArrive
  <2>. SUFFICES ASSUME BusInv
                PROVE  Bus!WordsLand /\ Bus!WordsReturn /\ Bus!OneDriver
    BY DEF WordsArrive
  <2>1. Bus!Finished => Left = 0
    BY DEF Bus!Finished, Left
  <2>2. Bus!WordsLand
    BY <2>1 DEF BusInv, Bus!WordsLand, WordIsTaken, Rising
  <2>3. Bus!WordsReturn
    BY <2>1 DEF BusInv, Bus!WordsReturn, WordIsBack
  <2>4. Bus!OneDriver
    <3>. SUFFICES ASSUME call.what # "init", pio.w = 0, pins.r = 0, pins.cs = 0
                  PROVE  FALSE
      BY DEF Bus!OneDriver
    <3>1. call.what = "write"
      BY CallIs DEF BusInv, PortsFirst, LevelsAt
    <3>2. CASE clocks = 0
      <4>1. LevelsAt(pins, Left + 1)
        BY <3>1, <3>2 DEF BusInv, PinsFollow
      <4>. QED
        BY <3>1, <4>1 DEF LevelsAt
    <3>3. CASE clocks # 0
      BY <3>1, <3>3 DEF BusInv, PinsFollow, PortsFirst, LevelsAt
    <3>. QED
      BY <3>2, <3>3
  <2>. QED
    BY <2>2, <2>3, <2>4
<1>. QED
  BY <1>1, <1>2, <1>3, PTL DEF MCSpec
=============================================================================
