------------------------------- MODULE TdWalk -------------------------------
(***************************************************************************)
(* The transfer lists that usb.c writes into the controller's memory, word *)
(* by word from address 0500 hex, and the controller walking through them  *)
(* while the program may be writing the same list again.                   *)
(*                                                                         *)
(* A transfer is six words: buffer, length, packet and device, control,    *)
(* retries, and the next transfer or 0.  The controller and the keyboard   *)
(* are external: modelled as the lists use them.                           *)
(***************************************************************************)
EXTENDS Integers, Sequences, FiniteSetsExt

CONSTANTS Descriptors  \* the lengths of the keyboard's, by their request words

Base == \h500
Packet == 8     \* of the keyboard's endpoint 0

\* The first transfer sends a request, which follows it in memory.
Setup(device, w1, w2, length) ==
  <<\h50C, Packet, device, \h01, \h13, \h514>> \o <<w1, w2, 0, length>>
In(buf, len, ctl, next) == <<buf, len, \h290, ctl, \h13, next>>
StatusIn(device) == <<0, 0, device, \h41, \h13, 0>>
StatusOut == <<0, 0, \h210, \h41, \h13, 0>>

SetAddress == Setup(\hD0, \h500, 2, 0) \o StatusIn(\h90)
GetDeviceDesc1 == Setup(\h2D0, \h680, \h100, 8) \o
  In(\h52C, 8, \h41, \h520) \o StatusOut
GetDeviceDesc2 == Setup(\h2D0, \h680, \h100, \h12) \o
  In(\h544, 8, \h41, \h520) \o In(\h54C, 8, \h01, \h52C) \o
  In(\h554, 2, \h41, \h538) \o StatusOut
GetConfigDesc1 == Setup(\h2D0, \h680, \h200, 9) \o
  In(\h544, 8, \h41, \h520) \o In(\h54C, 1, \h01, \h52C) \o StatusOut
GetConfigDesc2Buf == Setup(\h2D0, \h680, \h200, \hFF) \o
  In(\h554, 8, \h41, \h520) \o In(\h564, 8, \h01, \h52C) \o
  In(\h56C, 8, \h41, \h538) \o In(\h574, 8, \h01, \h544) \o
  In(\h57C, 2, \h41, \h550) \o StatusOut
GetConfigDesc2 == Setup(\h2D0, \h680, \h200, \hFF) \o
  In(\h55C, 8, \h41, \h520) \o In(\h564, 8, \h01, \h52C) \o
  In(\h56C, 8, \h41, \h538) \o In(\h574, 8, \h01, \h544) \o
  In(\h57C, 2, \h41, \h550) \o StatusOut
SetConfig == Setup(\h2D0, \h900, 1, 0) \o StatusIn(\h290)
ClassRequest == Setup(\h2D0, \hA21, 0, 0) \o StatusIn(\h290)
GetHidDesc == Setup(\h2D0, \h681, \h2100, \h7B) \o
  In(\h544, 8, \h41, \h520) \o StatusOut
GetReportDesc == Setup(\h2D0, \h681, \h2200, \h7B) \o
  In(\h580, 8, \h41, \h520) \o In(\h588, 8, \h01, \h52C) \o
  In(\h590, 8, \h41, \h538) \o In(\h598, 8, \h01, \h544) \o
  In(\h5A0, 8, \h41, \h550) \o In(\h5A8, 8, \h01, \h55C) \o
  In(\h5B0, 8, \h41, \h568) \o In(\h5B8, 3, \h01, \h574) \o StatusOut

\* In the order of main.
Lists == <<SetAddress, GetDeviceDesc1, GetDeviceDesc2, GetConfigDesc1,
           GetConfigDesc2, SetConfig, ClassRequest, GetHidDesc, GetReportDesc>>

VARIABLES list,      \* of Lists, the one main is about
          written,   \* how many of its words are written this time
          mem,       \* the words from Base on
          at,        \* the transfer the controller is to do next, or 0
          done,      \* SIE1msg says so
          kb,        \* the keyboard's endpoint 0: its address, the address it
                     \* was told, the bit it expects, the bytes left to send
          received   \* since the last request: buffer, first byte, count

vars == <<list, written, mem, at, done, kb, received>>

Words == Lists[list]
Size(l) == 2 * Len(l)
Memory == 0 .. Max({Len(Lists[i]) : i \in DOMAIN Lists}) - 1

Init == /\ list = 1 /\ written = 0 /\ at = 0 /\ done = FALSE
        /\ mem = [i \in Memory |-> 0]
        /\ kb = [address |-> 0, told |-> 0, bit |-> 0, left |-> 0, sent |-> 0]
        /\ received = {}

\* The program: all the words in order, again as long as nothing is done, ...
WriteWord == /\ written < Len(Words)
             /\ written = 0 => ~ done
             /\ mem' = [mem EXCEPT ![written] = Words[written + 1]]
             /\ written' = written + 1
             /\ UNCHANGED <<list, at, done, kb, received>>
\* ... then the pointer to the list.
PointTo == /\ written = Len(Words)
           /\ at' = Base
           /\ written' = 0
           /\ UNCHANGED <<list, mem, done, kb, received>>
\* The next step begins when the list is done.  (Lists of two steps are not
\* under way together here: see UsbHost for that.)
NextList == /\ done /\ written = 0 /\ at = 0
            /\ done' = FALSE
            /\ list' = (list % Len(Lists)) + 1
            /\ kb' = IF list < Len(Lists) THEN kb
                     ELSE [kb EXCEPT !.address = 0]
            /\ received' = {}
            /\ UNCHANGED <<written, mem, at>>

Word(a, i) == mem[(a - Base) \div 2 + i]
Td == [buf |-> Word(at, 0), len |-> Word(at, 1),
       device |-> Word(at, 2) \div 256, pid |-> (Word(at, 2) \div 16) % 16,
       bit |-> (Word(at, 3) \div 64) % 2, next |-> Word(at, 5)]
Answers == kb.address = Td.device

\* One transfer is over: its retries are left, and the next is due.
Over(retries) == /\ mem' = [mem EXCEPT ![(at - Base) \div 2 + 4] = retries]
                 /\ at' = Td.next
                 /\ done' = (done \/ Td.next = 0)
                 /\ UNCHANGED <<list, written>>

Length(w1, w2) ==
  IF <<w1, w2>> \in DOMAIN Descriptors THEN Descriptors[<<w1, w2>>] ELSE 0
ChipSetup ==
  /\ at # 0 /\ Td.pid = 13 /\ Answers
  /\ LET w1 == Word(Td.buf, 0)
         w2 == Word(Td.buf, 1)
     IN  kb' = [kb EXCEPT !.bit = 1, !.sent = 0,
                          !.told = IF w1 = \h500 THEN w2 ELSE @,
                          !.left = Min({Length(w1, w2), Word(Td.buf, 3)})]
  /\ received' = {}
  /\ Over(3)
Sent == Min({Packet, kb.left})
ChipData ==
  /\ at # 0 /\ Td.pid = 9 /\ Td.len > 0 /\ Answers
  /\ received' = received \cup {<<Td.buf, kb.sent, Sent>>}
  /\ kb' = [kb EXCEPT !.bit = 1 - @, !.sent = @ + Sent, !.left = @ - Sent]
  /\ Over(3)
ChipStatus ==
  /\ at # 0 /\ Td.len = 0 /\ Answers
  /\ kb' = [kb EXCEPT !.address = @ + kb.told, !.told = 0]
  /\ UNCHANGED received
  /\ Over(3)
ChipNoAnswer == /\ at # 0 /\ ~ Answers
                /\ Over(0)
                /\ UNCHANGED <<kb, received>>

Host == WriteWord \/ PointTo \/ NextList
Chip == ChipSetup \/ ChipData \/ ChipStatus \/ ChipNoAnswer
Next == Host \/ Chip
Spec == Init /\ [][Next]_vars
-----------------------------------------------------------------------------
\* A transfer of the list in memory, wherever the controller is.
Transfers(l) == {Base} \cup {Base + 20 + 12 * k : k \in 0 .. (Len(l) - 16) \div 6}
WalksTheList == at # 0 => at \in Transfers(Words)

\* The bit of a transfer is the one the keyboard expects, also when the list
\* was started anew in the middle.
BitsAgree ==
  at # 0 /\ Answers /\ Td.pid = 9 /\ Td.len > 0 => Td.bit = kb.bit
\* The keyboard has a packet for every data transfer, and it fits.
PacketsFit ==
  at # 0 /\ Answers /\ Td.pid = 9 /\ Td.len > 0 => Sent \in 1 .. Td.len

\* What is received lies in one piece, in order, and clear of the list.
LiesInOnePiece ==
  \A r \in received :
    /\ r[1] >= Base + Size(Words)
    /\ \A q \in received : r[1] - r[2] = q[1] - q[2]
\* main.c:331 finds the protocol of the interface, byte 7 of the descriptor
\* after the 9 bytes of the configuration's, at 056C.
ProtocolIsAt56C ==
  list = 5 => \A r \in received : r[1] - r[2] + 9 + 7 = \h56C
=============================================================================
