------------------------------- MODULE MCUsb -------------------------------
(***************************************************************************)
(* The USB keyboard on three levels that share no variable: the program,   *)
(* the controller and the keyboard (module UsbHost, in two settings), the  *)
(* words of the transfer lists (TdWalk), and the pins that carry one word  *)
(* (HpiBus).  A behaviour is one of one level, chosen at the start: what   *)
(* belongs to another stays 0.                                             *)
(*                                                                         *)
(* The keyboard sends the report of no keys or one with a key in each of   *)
(* the two words, so that a mixture of reports is none.                    *)
(***************************************************************************)
EXTENDS UsbHost, TLC

Nothing == <<0, 0>>
Two == {Nothing, <<1, 1>>}
Some == {0, 2}

\* The descriptors of a plain keyboard: a device, a configuration with one
\* interface and one endpoint, a HID and a report descriptor.
Plain == (<<\h680, \h100>> :> 18) @@ (<<\h680, \h200>> :> 34) @@
         (<<\h681, \h2100>> :> 9) @@ (<<\h681, \h2200>> :> 59)

CONSTANTS Registers, Values, Idle, Gap   \* of the bus

VARIABLES level,
          list, written, at, done, received,
          pio, pins, data_in, held, chip_, taken, todo, call, temp, clocks

walk == <<list, written, at, done, received>>
wires == <<pio, pins, data_in, held, chip_, taken, todo, call, temp, clocks>>

\* A controller of any speed, and no errors.
Late == INSTANCE UsbHost WITH
          Prompt <- FALSE, Patient <- TRUE, Retries <- {}
Walk == INSTANCE TdWalk WITH Descriptors <- Plain
\* Two registers and two values will do for it, and two clocks between two
\* accesses: an instruction takes longer.
Bus == INSTANCE HpiBus WITH chip <- chip_
ASSUME BusAssumption == Bus!HpiAssumption /\ Gap >= 2

Zero(x) == x = 0
NoHost == /\ Zero(pc) /\ Zero(step) /\ Zero(tries) /\ Zero(toggle) /\ Zero(ports)
          /\ Zero(mail) /\ Zero(cmd) /\ Zero(run) /\ Zero(msg) /\ Zero(flag)
          /\ Zero(buf)
NoWalk == /\ Zero(list) /\ Zero(written) /\ Zero(at) /\ Zero(done)
          /\ Zero(received)
NoWires == /\ Zero(pio) /\ Zero(pins) /\ Zero(data_in) /\ Zero(held)
           /\ Zero(chip_) /\ Zero(taken) /\ Zero(todo) /\ Zero(call)
           /\ Zero(temp) /\ Zero(clocks)

MCInit ==
  \/ level = "host" /\ Init /\ NoWalk /\ NoWires
  \/ level = "late" /\ Late!Init /\ NoWalk /\ NoWires
  \/ level = "walk" /\ Walk!Init /\ NoHost /\ NoWires
  \/ level = "bus" /\ Bus!Init /\ NoHost /\ Zero(mem) /\ Zero(kb) /\ NoWalk
MCNext ==
  /\ \/ level = "host" /\ Next /\ UNCHANGED <<walk, wires>>
     \/ level = "late" /\ Late!Next /\ UNCHANGED <<walk, wires>>
     \/ /\ level = "walk" /\ Walk!Next
        /\ UNCHANGED <<main, mail, cmd, run, msg, flag, buf, wires>>
     \/ level = "bus" /\ Bus!Next /\ UNCHANGED <<vars, walk>>
     \* A slow controller may leave the program waiting for good.
     \/ level = "late" /\ UNCHANGED <<vars, walk, wires>>
  /\ UNCHANGED level
MCSpec == MCInit /\ [][MCNext]_<<vars, level, walk, wires>>
-----------------------------------------------------------------------------
\* main and the keyboard go through the lists together: a step judges the
\* result of its own list, and, however slow the controller is, the keyboard
\* has its address before it is asked for anything else.
InStep == /\ level = "host" => TypeOK /\ JudgesItsOwnList
          /\ level = "late" => Late!TypeOK /\ Late!AddressedFirst

\* What the game sees, once both ports are written, is one report, if no list
\* goes on between the two.
PortsAgree == level = "host" => OneReport

\* No list is left that could end the wait in UsbGetRetryCnt, on a slow
\* controller without errors.
NoticeEndsIt == level = "late" => Late!OnlyANoticeEndsIt

\* The controller stays on the list that is being written under it, with the
\* keyboard's bit and lengths, and main finds the answers where it looks.
ListsAreRight ==
  level = "walk" => /\ Walk!WalksTheList /\ Walk!BitsAgree /\ Walk!PacketsFit
                    /\ Walk!LiesInOnePiece /\ Walk!ProtocolIsAt56C

\* A call moves its word once, and the two sides never drive the bus at once.
WordsArrive == level = "bus" => Bus!WordsLand /\ Bus!WordsReturn /\ Bus!OneDriver
=============================================================================
