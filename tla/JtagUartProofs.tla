---------------------------- MODULE JtagUartProofs ----------------------------
(***************************************************************************)
(* The driver of the JTAG UART never falls asleep with work to do, for     *)
(* every length of its buffers and of the device's, every message, and     *)
(* with or without a clock: the transmit interrupt is on while there is    *)
(* something to send, and the receive interrupt while there is room.  And  *)
(* every byte it carries arrives once and in order, both ways.             *)
(***************************************************************************)
EXTENDS JtagUart, SequenceTheorems, TLAPS

\* What a call has copied, or is about to, lies in the message, the buffer and
\* the space it was given; and the interrupt routine leaves more in the FIFO
\* only when the buffer is full.
Pieces ==
  /\ prog.pc \in {"copy", "publish"} => prog.n <= Len(prog.msg)
  /\ prog.pc \in {"rmeasure", "rspin"} => prog.space > 0
  /\ prog.pc \in {"rcopy", "rpublish"} =>
       /\ prog.n > 0 /\ prog.n <= prog.space
       /\ prog.out + prog.n <= BufLen
  /\ prog.pc = "rpublish" => Len(prog.data) = prog.n
  /\ isr.pc = "rxend" /\ isr.more => RxFull
IInv == TypeOK /\ Pieces /\ SendingGoesOn /\ ReceivingGoesOn

-----------------------------------------------------------------------------
(* Helpers *)

LEMMA Buf == BufLen \in Nat /\ BufLen > 1 /\ 0 \in Index /\ Index \subseteq Nat
BY BufAssumption DEF Index

\* A place counted on from another, around the end of the buffer.
LEMMA Wraps == ASSUME NEW i \in Int
               PROVE  i % BufLen \in Index
BY BufAssumption DEF Index

\* A call that goes on elsewhere changes nothing else of its record.
Record == [pc : Labels, nonblock : BOOLEAN, msg : Seq(Bytes), in : Index,
           out : Index, n : Index, data : Seq(Bytes), given : Seq(Bytes),
           space : Nat, result : Results]
LEMMA Goes == ASSUME NEW r \in Record, NEW l \in Labels, Go(l, r)
              PROVE  /\ prog' \in Record /\ prog'.pc = l
                     /\ prog'.msg = r.msg /\ prog'.n = r.n /\ prog'.in = r.in
                     /\ prog'.out = r.out /\ prog'.data = r.data
                     /\ prog'.given = r.given /\ prog'.space = r.space
BY DEF Go, Record

LEMMA IdleIsRecord == Idle \in Record
BY Buf DEF Idle, Record, Labels, Results

\* The free places in one piece are fewer than the buffer has.
LEMMA RoomFits == ASSUME NEW in \in Index, NEW out \in Index
                  PROVE  Room(in, out) \in Index
BY Buf DEF Room, Index

\* What is left of a message is a message.
LEMMA AfterIsSeq == ASSUME NEW s \in Seq(Bytes), NEW n \in Nat
                    PROVE  After(s, n) \in Seq(Bytes)
<1>1. \A i \in n + 1 .. Len(s) : s[i] \in Bytes
  BY ElementOfSeq
<1>. QED
  BY <1>1, SubSeqProperties DEF After

-----------------------------------------------------------------------------
(* Types *)

\* The state that the program, the interrupt routine and the host keep typed,
\* without the record of the call.
Rest ==
  /\ tx_in \in Index /\ tx_out \in Index /\ tx_buf \in [Index -> Bytes]
  /\ rx_in \in Index /\ rx_out \in Index /\ rx_buf \in [Index -> Bytes]
  /\ irq_enable \subseteq {"RE", "WE"}
  /\ host_inactive \in 0 .. IntMax - 2 /\ timeout \in Nat
  /\ txfifo \in Seq(Bytes) /\ Len(txfifo) <= Depth
  /\ rxfifo \in Seq(Bytes) /\ Len(rxfifo) <= Depth /\ ac \in BOOLEAN
  /\ isr \in [pc : {"idle", "control", "rx", "rxend", "tx"}, wi : BOOLEAN,
              space : 0 .. Depth - Len(txfifo), more : BOOLEAN]
LEMMA TypeIs == TypeOK <=> Rest /\ prog \in Record
BY DEF TypeOK, Rest, Record

\* A write (_write.c).
LEMMA WriteTyped == ASSUME TypeOK, Pieces, Write
                    PROVE  TypeOK' /\ Pieces'
<1>. prog \in Record /\ Rest
  BY TypeIs
<1>. USE DEF At, ring, driver, device
<1>1. CASE WriteCall
  <2>1. PICK m \in Messages, f \in Flags :
          Go("measure", [Idle EXCEPT !.msg = m, !.nonblock = f])
    BY <1>1 DEF WriteCall
  <2>2. [Idle EXCEPT !.msg = m, !.nonblock = f] \in Record
    BY DataAssumption, IdleIsRecord DEF Record
  <2>3. prog' \in Record /\ prog'.pc = "measure"
    BY <2>1, <2>2, Goes DEF Labels
  <2>. QED
    BY <1>1, <2>3 DEF WriteCall, TypeOK, Record, Pieces, RxFull
<1>2. CASE WriteMeasure
  <2>. DEFINE n == Least(Room(tx_in, tx_out), Len(prog.msg))
  <2>1. Room(tx_in, tx_out) \in Index /\ Len(prog.msg) \in Nat
    BY RoomFits DEF Rest, Record
  <2>2. n \in Index /\ n <= Len(prog.msg)
    BY <2>1, Buf DEF Least, Index
  <2>3. CASE n = 0
    <3>1. \E r \in Record : Go("kick", r)
      BY <1>2, <2>3 DEF WriteMeasure, Record, Rest
    <3>2. prog' \in Record /\ prog'.pc = "kick"
      BY <3>1, Goes DEF Labels
    <3>. QED
      BY <1>2, <3>2 DEF WriteMeasure, TypeOK, Record, Pieces, RxFull
  <2>4. CASE n # 0
    <3>. DEFINE r == [prog EXCEPT !.in = tx_in, !.out = tx_out, !.n = n]
    <3>1. r \in Record /\ r.n = n /\ r.msg = prog.msg
      BY <2>2 DEF Record, Rest
    <3>2. Go("copy", r)
      BY <1>2, <2>4 DEF WriteMeasure
    <3>3. /\ prog' \in Record /\ prog'.pc = "copy"
          /\ prog'.n = n /\ prog'.msg = prog.msg
      BY <3>1, <3>2, Goes DEF Labels
    <3>. QED
      BY <1>2, <2>2, <3>3 DEF WriteMeasure, TypeOK, Record, Pieces, RxFull
  <2>. QED
    BY <2>3, <2>4
<1>3. CASE WriteCopy
  <2>1. prog' \in Record /\ prog'.pc = "publish"
        /\ prog'.n = prog.n /\ prog'.msg = prog.msg
    BY <1>3, Goes DEF WriteCopy, Labels
  <2>. DEFINE bytes == SubSeq(prog.msg, 1, prog.n)
  <2>2. \A i \in 1 .. prog.n : prog.msg[i] \in Bytes
    <3>1. /\ prog.msg \in Seq(Bytes) /\ prog.n \in Nat
          /\ prog.n <= Len(prog.msg) /\ Len(prog.msg) \in Nat
      BY <1>3, Buf DEF WriteCopy, Pieces, Record, Index
    <3>. QED
      BY <3>1, ElementOfSeq
  <2>3. bytes \in Seq(Bytes)
    BY <2>2, SubSeqProperties, Buf DEF Record, Index
  <2>4. \A k \in DOMAIN bytes : bytes[k] \in Bytes
    BY <2>3, LenProperties, ElementOfSeq
  <2>5. tx_buf' \in [Index -> Bytes]
    BY <1>3, <2>4 DEF WriteCopy, Copied, Rest
  <2>. QED
    BY <1>3, <2>1, <2>5 DEF WriteCopy, TypeOK, Record, Pieces, RxFull
<1>4. CASE WritePublish
  <2>. DEFINE r == [prog EXCEPT !.msg = After(@, prog.n), !.result = "count"]
  <2>1. r \in Record
    <3>1. prog.msg \in Seq(Bytes) /\ prog.n \in Nat
      BY Buf DEF Record, Index
    <3>2. After(prog.msg, prog.n) \in Seq(Bytes)
      BY <3>1, AfterIsSeq
    <3>. QED
      BY <3>2 DEF Record, Results
  <2>2. prog' \in Record /\ prog'.pc = "measure"
    BY <1>4, <2>1, Goes DEF WritePublish, Labels
  <2>3. prog.in + prog.n \in Int
    <3>1. prog.in \in Nat /\ prog.n \in Nat
      BY Buf DEF Record
    <3>. QED
      BY <3>1
  <2>4. tx_in' \in Index
    BY <1>4, <2>3, Wraps DEF WritePublish
  <2>. QED
    BY <1>4, <2>2, <2>4 DEF WritePublish, TypeOK, Record, Pieces, RxFull
<1>5. CASE WriteKick
  <2>1. prog' \in Record /\ prog'.pc \in {"return", "spin"}
    BY <1>5, Goes DEF WriteKick, Labels
  <2>. QED
    BY <1>5, <2>1 DEF WriteKick, TypeOK, Record, Pieces, RxFull
<1>6. CASE WriteSpin
  <2>1. prog' \in Record /\ prog'.pc = "check"
    BY <1>6, Goes DEF WriteSpin, Labels
  <2>. QED
    BY <1>6, <2>1 DEF WriteSpin, TypeOK, Record, Pieces, RxFull
<1>7. CASE WriteCheck
  <2>1. prog' \in Record /\ prog'.pc \in {"return", "measure"}
    BY <1>7, Goes DEF WriteCheck, Labels
  <2>. QED
    BY <1>7, <2>1 DEF WriteCheck, TypeOK, Record, Pieces, RxFull
<1>8. CASE WriteReturn
  <2>1. prog' \in Record /\ prog'.pc = "idle"
    BY <1>8, IdleIsRecord DEF WriteReturn, Record, Results, Idle
  <2>. QED
    BY <1>8, <2>1 DEF WriteReturn, TypeOK, Record, Pieces, RxFull
<1>. QED
  BY <1>1, <1>2, <1>3, <1>4, <1>5, <1>6, <1>7, <1>8 DEF Write

\* A read (_read.c).
LEMMA ReadTyped == ASSUME TypeOK, Pieces, Read
                   PROVE  TypeOK' /\ Pieces'
<1>. prog \in Record /\ Rest
  BY TypeIs
<1>. USE DEF At, ring, driver, device
<1>1. CASE ReadCall
  <2>1. PICK s \in Spaces, f \in Flags :
          Go("rmeasure", [Idle EXCEPT !.space = s, !.nonblock = f])
    BY <1>1 DEF ReadCall
  <2>. DEFINE r == [Idle EXCEPT !.space = s, !.nonblock = f]
  <2>2. s \in Nat /\ s > 0 /\ f \in BOOLEAN
    BY DataAssumption
  <2>4. r \in Record /\ r.space = s
    BY <2>2, IdleIsRecord DEF Record
  <2>3. prog' \in Record /\ prog'.pc = "rmeasure" /\ prog'.space > 0
    BY <2>1, <2>2, <2>4, Goes DEF Labels
  <2>. QED
    BY <1>1, <2>3 DEF ReadCall, TypeOK, Record, Pieces, RxFull
<1>2. CASE ReadMeasure
  <2>. DEFINE there == IF rx_in >= rx_out THEN rx_in - rx_out ELSE BufLen - rx_out
              n == Least(there, prog.space)
              r == [prog EXCEPT !.in = rx_in, !.out = rx_out, !.n = n]
  <2>6. /\ rx_in \in 0 .. BufLen - 1 /\ rx_out \in 0 .. BufLen - 1
        /\ BufLen \in Nat
    BY Buf DEF Rest, Index
  <2>7. there \in 0 .. BufLen - 1 /\ rx_out + there <= BufLen
    BY <2>6
  <2>1. /\ prog.space \in Nat /\ prog.space > 0
        /\ there \in Index /\ rx_out + there <= BufLen
    BY <1>2, <2>7 DEF ReadMeasure, Pieces, Record, Index
  <2>2. /\ n \in Index /\ n <= prog.space /\ n <= there
        /\ there # 0 => n > 0
    BY <2>1, Buf DEF Least, Index
  <2>3. /\ r \in Record /\ r.n = n /\ r.out = rx_out /\ r.space = prog.space
        /\ r.given = prog.given
    BY <2>2 DEF Record, Rest
  <2>4. CASE there # 0
    <3>1. Go("rcopy", r)
      BY <1>2, <2>4 DEF ReadMeasure
    <3>2. /\ prog' \in Record /\ prog'.pc = "rcopy"
          /\ prog'.n = n /\ prog'.out = rx_out /\ prog'.space = prog.space
      BY <3>1, <2>3, Goes DEF Labels
    <3>3. prog'.n > 0 /\ prog'.n <= prog'.space /\ prog'.out + prog'.n <= BufLen
      BY <2>1, <2>2, <2>4, <3>2, Buf DEF Index, Rest
    <3>. QED
      BY <1>2, <3>2, <3>3 DEF ReadMeasure, TypeOK, Record, Pieces, RxFull
  <2>5. CASE there = 0
    <3>1. Go("rpost", r) \/ Go("rspin", r)
      BY <1>2, <2>5 DEF ReadMeasure
    <3>2. /\ prog' \in Record /\ prog'.pc \in {"rpost", "rspin"}
          /\ prog'.space = prog.space
      BY <3>1, <2>3, Goes DEF Labels
    <3>. QED
      BY <1>2, <2>1, <3>2 DEF ReadMeasure, TypeOK, Record, Pieces, RxFull
  <2>. QED
    BY <2>4, <2>5
<1>3. CASE ReadCopy
  <2>. DEFINE e(i) == rx_buf[prog.out + i - 1]
              d == [i \in 1 .. prog.n |-> e(i)]
              r == [prog EXCEPT !.data = d]
  <2>1. /\ prog.n \in Nat /\ prog.n > 0 /\ prog.n <= prog.space
        /\ prog.out \in Nat /\ prog.out + prog.n <= BufLen
    BY <1>3, Buf DEF ReadCopy, Pieces, Record, Index
  <2>2. \A i \in 1 .. prog.n : e(i) \in Bytes
    <3>1. \A i \in 1 .. prog.n : prog.out + i - 1 \in Index
      BY <2>1, Buf DEF Index
    <3>2. rx_buf \in [Index -> Bytes]
      BY DEF Rest
    <3>. QED
      BY <3>1, <3>2
  <2>3. d \in Seq(Bytes)
    <3>. HIDE DEF e
    <3>. QED
      BY <2>1, <2>2, IsASeq
  <2>4. Len(d) = prog.n
    BY <2>1
  <2>. HIDE DEF d
  <2>5. /\ r \in Record /\ r.data = d /\ r.n = prog.n /\ r.out = prog.out
        /\ r.space = prog.space
    BY <2>3 DEF Record
  <2>6. Go("rpublish", r)
    BY <1>3 DEF ReadCopy, d
  <2>7. /\ prog' \in Record /\ prog'.pc = "rpublish" /\ prog'.data = d
        /\ prog'.n = prog.n /\ prog'.out = prog.out /\ prog'.space = prog.space
    BY <2>5, <2>6, Goes DEF Labels
  <2>. QED
    BY <1>3, <2>1, <2>4, <2>7 DEF ReadCopy, TypeOK, Record, Pieces, RxFull
<1>4. CASE ReadPublish
  <2>. DEFINE r == [prog EXCEPT !.given = @ \o prog.data, !.data = <<>>,
                                !.space = @ - prog.n]
  <2>1. /\ prog.n \in Nat /\ prog.n <= prog.space /\ prog.space \in Nat
        /\ prog.out \in Nat
    BY <1>4, Buf DEF ReadPublish, Pieces, Record, Index
  <2>2. prog.given \o prog.data \in Seq(Bytes)
    BY ConcatProperties DEF Record
  <2>8. prog.space - prog.n \in Nat
    BY <2>1
  <2>9. <<>> \in Seq(Bytes)
    OBVIOUS
  <2>3. r \in Record /\ r.space = prog.space - prog.n
    BY <2>2, <2>8, <2>9 DEF Record
  <2>4. Go(IF prog.space > prog.n THEN "rmeasure" ELSE "rpost", r)
    BY <1>4 DEF ReadPublish
  <2>. HIDE DEF r
  <2>5. /\ prog' \in Record /\ prog'.pc \in {"rmeasure", "rpost"}
        /\ prog'.pc = "rmeasure" => prog'.space > 0
    <3>1. CASE prog.space > prog.n
      BY <2>1, <2>3, <2>4, <3>1, Goes DEF Labels
    <3>2. CASE ~ (prog.space > prog.n)
      BY <2>3, <2>4, <3>2, Goes DEF Labels
    <3>. QED
      BY <3>1, <3>2
  <2>6. rx_out' \in Index
    BY <1>4, <2>1, Wraps DEF ReadPublish
  <2>7. isr'.pc = "idle"
    BY <1>4 DEF ReadPublish
  <2>. QED
    BY <1>4, <2>5, <2>6, <2>7 DEF ReadPublish, TypeOK, Record, Pieces
<1>5. CASE ReadSpin
  <2>1. prog' \in Record /\ prog'.pc \in {"rpost", "rmeasure"}
        /\ prog'.space = prog.space
    BY <1>5, Goes DEF ReadSpin, Labels
  <2>. QED
    BY <1>5, <2>1 DEF ReadSpin, TypeOK, Record, Pieces, RxFull
<1>6. CASE ReadReturn
  <2>1. prog' \in Record /\ prog'.pc = "idle"
    BY <1>6, IdleIsRecord DEF ReadReturn, Record, Results, Idle
  <2>. QED
    BY <1>6, <2>1 DEF ReadReturn, TypeOK, Record, Pieces, RxFull
<1>. QED
  BY <1>1, <1>2, <1>3, <1>4, <1>5, <1>6 DEF Read

\* Closing, and the two requests of _ioctl.c.
LEMMA OtherCallsTyped ==
  ASSUME TypeOK, Pieces, CloseCall \/ Close \/ SetTimeout \/ GetConnected
  PROVE  TypeOK' /\ Pieces'
<1>. prog \in Record /\ Rest
  BY TypeIs
<1>. USE DEF At, ring, driver, device
<1>1. CASE CloseCall
  <2>1. PICK f \in Flags : Go("close", [Idle EXCEPT !.nonblock = f])
    BY <1>1 DEF CloseCall
  <2>2. [Idle EXCEPT !.nonblock = f] \in Record
    BY DataAssumption, IdleIsRecord DEF Record
  <2>3. prog' \in Record /\ prog'.pc = "close"
    BY <2>1, <2>2, Goes DEF Labels
  <2>. QED
    BY <1>1, <2>3 DEF CloseCall, TypeOK, Record, Pieces, RxFull
<1>2. CASE Close \/ GetConnected
  <2>1. prog' \in Record /\ prog'.pc = "idle"
    BY <1>2, IdleIsRecord DEF Close, GetConnected, Record, Results, Idle
  <2>. QED
    BY <1>2, <2>1 DEF Close, GetConnected, TypeOK, Record, Pieces, RxFull
<1>3. CASE SetTimeout
  <2>1. timeout' \in Nat
    BY <1>3, DataAssumption, TimeAssumption DEF SetTimeout
  <2>. QED
    BY <1>3, <2>1 DEF SetTimeout, TypeOK, Pieces, RxFull
<1>. QED
  BY <1>1, <1>2, <1>3

\* The interrupt routine (_init.c).
LEMMA IsrTyped == ASSUME TypeOK, Pieces, Interrupt \/ Isr
                  PROVE  TypeOK' /\ Pieces'
<1>. Rest
  BY TypeIs
<1>. USE DEF ring, driver, device
<1>0. Len(txfifo) \in Nat /\ Len(rxfifo) \in Nat /\ Depth \in Nat
  BY DepthAssumption DEF Rest
<1>1. CASE Interrupt
  BY <1>1 DEF Interrupt, TypeOK, Pieces, RxFull
<1>2. CASE IsrControl
  BY <1>0, <1>2 DEF IsrControl, IsrIdle, TypeOK, Pieces, RxFull, RI, WI
<1>3. CASE IsrRx
  <2>1. CASE RxFull \/ rxfifo = <<>>
    BY <1>3, <2>1 DEF IsrRx, TypeOK, Pieces, RxFull
  <2>2. CASE ~ RxFull /\ rxfifo # <<>>
    <3>1. /\ Head(rxfifo) \in Bytes /\ Tail(rxfifo) \in Seq(Bytes)
          /\ Len(Tail(rxfifo)) = Len(rxfifo) - 1
      BY <2>2, HeadTailProperties DEF Rest
    <3>2. rx_in' \in Index
      <4>1. rx_in + 1 \in Int
        BY Buf DEF Rest
      <4>. QED
        BY <1>3, <2>2, <4>1, Wraps DEF IsrRx
    <3>3. rx_buf' \in [Index -> Bytes]
      BY <1>3, <2>2, <3>1 DEF IsrRx, Rest
    <3>4. /\ rxfifo' = Tail(rxfifo)
          /\ isr' = [isr EXCEPT !.more = Tail(rxfifo) # <<>>]
          /\ isr.pc = "rx"
          /\ UNCHANGED <<tx_in, tx_out, tx_buf, rx_out, txfifo, ac, irq_enable>>
          /\ UNCHANGED <<host_inactive, timeout, prog>>
      BY <1>3, <2>2 DEF IsrRx
    <3>5. /\ isr' \in [pc : {"idle", "control", "rx", "rxend", "tx"},
                       wi : BOOLEAN, space : 0 .. Depth - Len(txfifo'),
                       more : BOOLEAN]
          /\ isr'.pc = "rx"
      BY <3>4 DEF Rest
    <3>6. Len(rxfifo') <= Depth /\ rxfifo' \in Seq(Bytes)
      BY <1>0, <3>1, <3>4 DEF Rest
    <3>. QED
      BY <3>2, <3>3, <3>4, <3>5, <3>6 DEF TypeOK, Pieces
  <2>. QED
    BY <2>1, <2>2
<1>4. CASE IsrRxEnd
  BY <1>4 DEF IsrRxEnd, TypeOK, Pieces, RxFull
<1>5. CASE IsrTx
  <2>1. CASE isr.space > 0 /\ tx_out # tx_in
    <3>1. /\ txfifo' \in Seq(Bytes) /\ Len(txfifo') = Len(txfifo) + 1
      <4>1. tx_buf[tx_out] \in Bytes
        BY DEF Rest
      <4>2. txfifo' = Append(txfifo, tx_buf[tx_out])
        BY <1>5, <2>1 DEF IsrTx
      <4>. QED
        BY <4>1, <4>2, AppendProperties DEF Rest
    <3>2. tx_out' \in Index
      <4>1. tx_out + 1 \in Int
        BY Buf DEF Rest
      <4>. QED
        BY <1>5, <2>1, <4>1, Wraps DEF IsrTx
    <3>3. /\ isr' = [isr EXCEPT !.space = @ - 1] /\ isr.pc = "tx"
          /\ UNCHANGED <<tx_in, tx_buf, rx_in, rx_out, rx_buf, irq_enable,
                         rxfifo, ac, host_inactive, timeout, prog>>
      BY <1>5, <2>1 DEF IsrTx
    <3>4. /\ isr.space - 1 \in 0 .. Depth - Len(txfifo')
          /\ Len(txfifo') <= Depth
      BY <1>0, <2>1, <3>1 DEF Rest
    <3>5. /\ isr' \in [pc : {"idle", "control", "rx", "rxend", "tx"},
                       wi : BOOLEAN, space : 0 .. Depth - Len(txfifo'),
                       more : BOOLEAN]
          /\ isr'.pc = "tx"
      BY <3>3, <3>4 DEF Rest
    <3>. QED
      BY <3>1, <3>2, <3>3, <3>4, <3>5 DEF TypeOK, Pieces
  <2>2. CASE isr.space = 0 \/ tx_out = tx_in
    <3>1. /\ isr' = [isr EXCEPT !.pc = "control"]
          /\ irq_enable' \subseteq irq_enable
          /\ UNCHANGED <<tx_in, tx_out, tx_buf, rx_in, rx_out, rx_buf, txfifo,
                         rxfifo, ac, host_inactive, timeout, prog>>
      BY <1>5, <2>2 DEF IsrTx, Rest
    <3>. QED
      BY <3>1 DEF TypeOK, Pieces
  <2>. QED
    BY <1>5, <2>1, <2>2 DEF IsrTx
<1>. QED
  BY <1>1, <1>2, <1>3, <1>4, <1>5 DEF Isr

\* The alarm and the host.
LEMMA OutsideTyped == ASSUME TypeOK, Pieces, Alarm \/ HostTake \/ HostType
                      PROVE  TypeOK' /\ Pieces'
<1>. Rest
  BY TypeIs
<1>. USE DEF ring, driver, device
<1>0. Len(txfifo) \in Nat /\ Len(rxfifo) \in Nat /\ Depth \in Nat
  BY DepthAssumption DEF Rest
<1>1. CASE Alarm
  <2>1. host_inactive' \in 0 .. IntMax - 2 /\ ac' \in BOOLEAN
    <3>1. CASE ac
      <4>1. host_inactive' = 0
        BY <1>1, <3>1 DEF Alarm
      <4>2. ac' = FALSE
        BY <1>1, <3>1 DEF Alarm
      <4>3. 0 \in 0 .. IntMax - 2
        BY TimeAssumption
      <4>. QED
        BY <4>1, <4>2, <4>3
    <3>2. CASE ~ ac
      <4>1. /\ ac' = ac
            /\ host_inactive' = host_inactive \/ host_inactive' = host_inactive + 1
            /\ host_inactive' # host_inactive => host_inactive < IntMax - 2
        BY <1>1, <3>2, TimeAssumption DEF Alarm, Rest
      <4>. QED
        BY <4>1, TimeAssumption DEF Rest
    <3>. QED
      BY <3>1, <3>2
  <2>. QED
    BY <1>1, <2>1 DEF Alarm, TypeOK, Pieces, RxFull
<1>2. CASE HostTake
  <2>1. Tail(txfifo) \in Seq(Bytes) /\ Len(Tail(txfifo)) = Len(txfifo) - 1
    BY <1>2, HeadTailProperties DEF HostTake, Rest
  <2>. QED
    BY <1>0, <1>2, <2>1 DEF HostTake, TypeOK, Pieces, RxFull
<1>3. CASE HostType
  <2>1. rxfifo' \in Seq(Bytes) /\ Len(rxfifo') = Len(rxfifo) + 1
    BY <1>3, DataAssumption, AppendProperties DEF HostType, Rest
  <2>. QED
    BY <1>0, <1>3, <2>1 DEF HostType, TypeOK, Pieces, RxFull
<1>. QED
  BY <1>1, <1>2, <1>3

\* The instance as it is initialised (_init.c).
LEMMA InitTyped == Init => TypeOK /\ Pieces
<1>. SUFFICES ASSUME Init PROVE TypeOK /\ Pieces
  OBVIOUS
<1>1. PICK z \in Bytes : tx_buf = [i \in Index |-> z] /\ rx_buf = tx_buf
  BY DEF Init
<1>2. timeout \in Nat
  <2>1. CASE HasClock
    BY <2>1, TimeAssumption DEF Init
  <2>2. CASE ~ HasClock
    BY <2>2, TimeAssumption DEF Init
  <2>. QED
    BY <2>1, <2>2
<1>3. /\ txfifo \in Seq(Bytes) /\ Len(txfifo) = 0
      /\ rxfifo \in Seq(Bytes) /\ Len(rxfifo) = 0
  BY DEF Init
<1>4. isr \in [pc : {"idle", "control", "rx", "rxend", "tx"}, wi : BOOLEAN,
               space : 0 .. Depth - Len(txfifo), more : BOOLEAN]
  BY <1>3, DepthAssumption DEF Init, IsrIdle
<1>5. prog \in Record /\ prog.pc = "idle" /\ isr.pc = "idle"
  BY IdleIsRecord DEF Init, Idle, IsrIdle
<1>6. tx_buf \in [Index -> Bytes] /\ rx_buf \in [Index -> Bytes]
  BY <1>1
<1>7. /\ host_inactive \in 0 .. IntMax - 2 /\ ac \in BOOLEAN
      /\ irq_enable \subseteq {"RE", "WE"} /\ Len(txfifo) <= Depth
      /\ Len(rxfifo) <= Depth
  <2>1. 0 \in 0 .. IntMax - 2 /\ 0 <= Depth
    BY TimeAssumption, DepthAssumption
  <2>. QED
    BY <1>3, <2>1 DEF Init
<1>8. tx_in \in Index /\ tx_out \in Index /\ rx_in \in Index /\ rx_out \in Index
  BY Buf DEF Init
<1>9. Rest
  BY <1>2, <1>3, <1>4, <1>6, <1>7, <1>8 DEF Rest
<1>. QED
  BY <1>5, <1>9, TypeIs DEF Pieces

-----------------------------------------------------------------------------
(* No lost wakeup *)

\* Every step keeps the transmit interrupt on, or the write on its way to
\* turning it on, while there is something to send.
LEMMA SendingStep == ASSUME TypeOK, SendingGoesOn, Next
                     PROVE  SendingGoesOn'
<1>. prog \in Record /\ Rest
  BY TypeIs
<1>. USE DEF At, ring, driver, device
<1>1. CASE WriteMeasure
  <2>1. PICK r \in Record, l \in {"kick", "copy"} : Go(l, r)
    <3>. DEFINE n == Least(Room(tx_in, tx_out), Len(prog.msg))
    <3>1. Room(tx_in, tx_out) \in Index /\ Len(prog.msg) \in Nat
      BY RoomFits DEF Rest, Record
    <3>2. n \in Index
      BY <3>1, Buf DEF Least, Index
    <3>3. \/ Go("kick", prog)
          \/ Go("kick", [prog EXCEPT !.in = tx_in, !.out = tx_out])
          \/ Go("copy", [prog EXCEPT !.in = tx_in, !.out = tx_out, !.n = n])
      BY <1>1 DEF WriteMeasure
    <3>4. /\ [prog EXCEPT !.in = tx_in, !.out = tx_out] \in Record
          /\ [prog EXCEPT !.in = tx_in, !.out = tx_out, !.n = n] \in Record
      BY <3>2 DEF Rest, Record
    <3>. QED
      BY <3>3, <3>4
  <2>2. prog'.pc \in {"kick", "copy"}
    BY <2>1, Goes DEF Labels
  <2>. QED
    BY <2>2 DEF SendingGoesOn
<1>2. CASE WriteCopy
  <2>1. prog'.pc = "publish"
    BY <1>2, Goes DEF WriteCopy, Labels
  <2>. QED
    BY <2>1 DEF SendingGoesOn
<1>3. CASE WritePublish
  <2>. DEFINE r == [prog EXCEPT !.msg = After(@, prog.n), !.result = "count"]
  <2>1. prog.msg \in Seq(Bytes) /\ prog.n \in Nat
    BY Buf DEF Record, Index
  <2>2. After(prog.msg, prog.n) \in Seq(Bytes)
    BY <2>1, AfterIsSeq
  <2>3. r \in Record
    BY <2>2 DEF Record, Results
  <2>4. prog'.pc = "measure"
    BY <1>3, <2>3, Goes DEF WritePublish, Labels
  <2>. QED
    BY <2>4 DEF SendingGoesOn
<1>4. CASE WriteKick
  BY <1>4 DEF WriteKick, SendingGoesOn
<1>5. CASE WriteCall \/ WriteSpin \/ WriteCheck \/ WriteReturn
  BY <1>5 DEF WriteCall, WriteSpin, WriteCheck, WriteReturn, SendingGoesOn
<1>6. CASE Read
  BY <1>6 DEF Read, ReadCall, ReadMeasure, ReadCopy, ReadPublish, ReadSpin,
              ReadReturn, SendingGoesOn
<1>7. CASE CloseCall \/ Close \/ SetTimeout \/ GetConnected
  BY <1>7 DEF CloseCall, Close, SetTimeout, GetConnected, SendingGoesOn
<1>8. CASE Interrupt \/ Isr
  BY <1>8 DEF Interrupt, Isr, IsrControl, IsrRx, IsrRxEnd, IsrTx, Rest,
              SendingGoesOn
<1>9. CASE Alarm \/ HostTake \/ HostType
  BY <1>9 DEF Alarm, HostTake, HostType, SendingGoesOn
<1>. QED
  BY <1>1, <1>2, <1>3, <1>4, <1>5, <1>6, <1>7, <1>8, <1>9
     DEF Next, Program, Write

\* Every step keeps the receive interrupt on, or the buffer full, or the read
\* that has made room on its way to turning it on.
LEMMA ReceivingStep == ASSUME TypeOK, Pieces, ReceivingGoesOn, Next
                       PROVE  ReceivingGoesOn'
<1>. prog \in Record /\ Rest
  BY TypeIs
<1>. USE DEF At, ring, driver, device
<1>1. CASE Write
  BY <1>1 DEF Write, WriteCall, WriteMeasure, WriteCopy, WritePublish,
              WriteKick, WriteSpin, WriteCheck, WriteReturn, ReceivingGoesOn,
              RxFull
<1>2. CASE ReadMeasure
  <2>. DEFINE there == IF rx_in >= rx_out THEN rx_in - rx_out
                                          ELSE BufLen - rx_out
              n == Least(there, prog.space)
              r == [prog EXCEPT !.in = rx_in, !.out = rx_out, !.n = n]
  <2>1. /\ rx_in \in 0 .. BufLen - 1 /\ rx_out \in 0 .. BufLen - 1
        /\ BufLen \in Nat /\ prog.space \in Nat
    BY Buf DEF Rest, Index, Record
  <2>2. n \in 0 .. BufLen - 1
    BY <2>1 DEF Least
  <2>3. r \in Record /\ r.given = prog.given
    BY <2>2 DEF Record, Rest, Index
  <2>4. CASE prog.given = <<>>
    BY <1>2, <2>4 DEF ReadMeasure, ReceivingGoesOn, RxFull
  <2>5. CASE prog.given # <<>>
    <3>1. Go("rcopy", r) \/ Go("rpost", r)
      BY <1>2, <2>5 DEF ReadMeasure
    <3>2. prog'.pc \in {"rcopy", "rpost"} /\ prog'.given = prog.given
      BY <2>3, <3>1, Goes DEF Labels
    <3>. QED
      BY <2>5, <3>2 DEF ReceivingGoesOn
  <2>. QED
    BY <2>4, <2>5
<1>3. CASE ReadCopy
  <2>1. CASE RxFull
    BY <1>3, <2>1 DEF ReadCopy, ReceivingGoesOn, RxFull
  <2>2. CASE ~ RxFull
    <3>. DEFINE r == [prog EXCEPT !.data =
                       [i \in 1 .. prog.n |-> rx_buf[prog.out + i - 1]]]
    <3>1. prog' = [r EXCEPT !.pc = "rpublish"]
      BY <1>3 DEF ReadCopy, Go
    <3>. HIDE DEF Rest
    <3>2. prog'.pc = "rpublish" /\ prog'.given = prog.given
      BY <3>1 DEF Record
    <3>. QED
      BY <1>3, <2>2, <3>2 DEF ReadCopy, ReceivingGoesOn
  <2>. QED
    BY <2>1, <2>2
<1>4. CASE ReadPublish
  <2>. DEFINE r == [prog EXCEPT !.given = @ \o prog.data, !.data = <<>>,
                                !.space = @ - prog.n]
  <2>1. /\ prog.n > 0 /\ Len(prog.data) = prog.n
        /\ prog.n <= prog.space /\ prog.n \in Nat /\ prog.space \in Nat
    BY <1>4, Buf DEF ReadPublish, Pieces, Record
  <2>2. prog.given \in Seq(Bytes) /\ prog.data \in Seq(Bytes)
    BY DEF Record
  <2>3. prog.given \o prog.data \in Seq(Bytes) /\ prog.given \o prog.data # <<>>
    BY <2>1, <2>2, ConcatProperties
  <2>4. prog.space - prog.n \in Nat /\ <<>> \in Seq(Bytes)
    BY <2>1
  <2>5. r \in Record /\ r.given = prog.given \o prog.data
    BY <2>3, <2>4 DEF Record
  <2>6. Go("rmeasure", r) \/ Go("rpost", r)
    BY <1>4 DEF ReadPublish
  <2>. HIDE DEF r
  <2>7. prog'.pc \in {"rmeasure", "rpost"} /\ prog'.given = r.given
    BY <2>5, <2>6, Goes DEF Labels
  <2>. QED
    BY <2>3, <2>5, <2>7 DEF ReceivingGoesOn
<1>5. CASE ReadCall \/ ReadSpin
  BY <1>5 DEF ReadCall, ReadSpin, ReceivingGoesOn, RxFull
<1>6. CASE ReadReturn
  BY <1>6 DEF ReadReturn, ReceivingGoesOn, RxFull
<1>7. CASE CloseCall \/ Close \/ SetTimeout \/ GetConnected
  BY <1>7 DEF CloseCall, Close, SetTimeout, GetConnected, ReceivingGoesOn,
              RxFull
<1>8. CASE Interrupt \/ Isr
  BY <1>8 DEF Interrupt, Isr, IsrControl, IsrRx, IsrRxEnd, IsrTx, Rest,
              Pieces, ReceivingGoesOn, RxFull
<1>9. CASE Alarm \/ HostTake \/ HostType
  BY <1>9 DEF Alarm, HostTake, HostType, ReceivingGoesOn, RxFull
<1>. QED
  BY <1>1, <1>2, <1>3, <1>4, <1>5, <1>6, <1>7, <1>8, <1>9
     DEF Next, Program, Read

-----------------------------------------------------------------------------
(* The theorems *)

LEMMA Inductive == Spec => []IInv
<1>1. Init => IInv
  <2>1. Init => SendingGoesOn /\ ReceivingGoesOn
    BY DEF Init, SendingGoesOn, ReceivingGoesOn
  <2>. QED
    BY <2>1, InitTyped DEF IInv
<1>2. IInv /\ [Next]_vars => IInv'
  <2>. SUFFICES ASSUME IInv, [Next]_vars PROVE IInv'
    OBVIOUS
  <2>. USE DEF IInv
  <2>1. CASE Next
    <3>1. TypeOK' /\ Pieces'
      BY <2>1, WriteTyped, ReadTyped, OtherCallsTyped, IsrTyped, OutsideTyped
         DEF Next, Program
    <3>. QED
      BY <2>1, <3>1, SendingStep, ReceivingStep
  <2>2. CASE UNCHANGED vars
    BY <2>2 DEF vars, ring, driver, device, TypeOK, Pieces, SendingGoesOn,
                ReceivingGoesOn, RxFull
  <2>. QED
    BY <2>1, <2>2
<1>. QED
  BY <1>1, <1>2, PTL DEF Spec

\* The indices stay in the buffers, the FIFOs within their depth, and the
\* space the interrupt routine works from is room the device has
\* (altera_avalon_jtag_uart_init.c:134-196).
THEOREM WellTyped == Spec => []TypeOK
<1>. QED
  BY Inductive, PTL DEF IInv

\* No wakeup is lost, in either direction: nothing waits to be sent with the
\* transmit interrupt off but while a write is about to turn it on (_write.c:137-139
\* against _init.c:189), and the receive interrupt is off only while the buffer
\* is full or a read is about to turn it on (_read.c:192 against _init.c:161).
THEOREM NoLostWakeup == Spec => []NeverStuck
<1>1. IInv => NeverStuck
  BY DEF IInv, NeverStuck
<1>. QED
  BY <1>1, Inductive, PTL


-----------------------------------------------------------------------------
(* Circular buffers *)

LEMMA Round ==
  ASSUME NEW x \in Int
  PROVE  /\ x \in 0 .. BufLen - 1 => x % BufLen = x
         /\ x \in BufLen .. 2 * BufLen - 1 => x % BufLen = x - BufLen
         /\ x \in 1 - BufLen .. -1 => x % BufLen = x + BufLen
BY BufAssumption

\* How many bytes lie from out up to in, and where the i-th of them is.
Fill(out, in) == IF out <= in THEN in - out ELSE in - out + BufLen
Place(out, i) == IF out + i - 1 < BufLen THEN out + i - 1
                 ELSE out + i - 1 - BufLen
LEMMA FillIs == ASSUME NEW out \in Index, NEW in \in Index
                PROVE  /\ (in - out) % BufLen = Fill(out, in)
                       /\ Fill(out, in) \in Index
<1>1. in - out \in 1 - BufLen .. BufLen - 1
  BY Buf DEF Index
<1>2. CASE out <= in
  <2>1. in - out \in 0 .. BufLen - 1
    BY <1>2, Buf DEF Index
  <2>. QED
    BY <1>2, <2>1, Round DEF Fill, Index
<1>3. CASE ~ out <= in
  <2>1. in - out \in 1 - BufLen .. -1
    BY <1>1, <1>3, Buf DEF Index
  <2>2. (in - out) % BufLen = (in - out) + BufLen
    BY <2>1, Round, Buf
  <2>. QED
    BY <1>3, <2>1, <2>2, Buf DEF Fill, Index
<1>. QED
  BY <1>2, <1>3

LEMMA PlaceIs == ASSUME NEW out \in Index, NEW i \in 1 .. BufLen
                 PROVE  /\ (out + i - 1) % BufLen = Place(out, i)
                        /\ Place(out, i) \in Index
<1>1. out + i - 1 \in 0 .. 2 * BufLen - 1
  BY Buf DEF Index
<1>2. CASE out + i - 1 < BufLen
  <2>1. out + i - 1 \in 0 .. BufLen - 1
    BY <1>1, <1>2, Buf
  <2>. QED
    BY <1>2, <2>1, Round DEF Place, Index
<1>3. CASE ~ out + i - 1 < BufLen
  <2>1. out + i - 1 \in BufLen .. 2 * BufLen - 1
    BY <1>1, <1>3, Buf
  <2>2. (out + i - 1) % BufLen = (out + i - 1) - BufLen
    BY <2>1, Round, Buf
  <2>. QED
    BY <1>1, <1>3, <2>2, Buf DEF Place, Index
<1>. QED
  BY <1>2, <1>3

\* A place counted on from an index, around the end of the buffer.
LEMMA OnIs == ASSUME NEW in \in Index, NEW n \in 0 .. BufLen
              PROVE  /\ (in + n) % BufLen \in Index
                     /\ (in + n) % BufLen = IF in + n < BufLen THEN in + n
                                            ELSE in + n - BufLen
<1>1. in + n \in 0 .. 2 * BufLen - 1
  BY Buf DEF Index
<1>2. CASE in + n < BufLen
  <2>1. in + n \in 0 .. BufLen - 1
    BY <1>1, <1>2, Buf
  <2>. QED
    BY <1>2, <2>1, Round DEF Index
<1>3. CASE ~ in + n < BufLen
  <2>1. in + n \in BufLen .. 2 * BufLen - 1
    BY <1>1, <1>3, Buf
  <2>2. (in + n) % BufLen = (in + n) - BufLen
    BY <2>1, Round, Buf
  <2>. QED
    BY <1>1, <1>3, <2>2, Buf DEF Index
<1>. QED
  BY <1>2, <1>3

\* What a circular buffer holds, byte by byte.
LEMMA ContentIs ==
  ASSUME NEW out \in Index, NEW in \in Index, NEW buf \in [Index -> Bytes]
  PROVE  /\ Content(buf, out, in) \in Seq(Bytes)
         /\ Len(Content(buf, out, in)) = Fill(out, in)
         /\ Fill(out, in) \in Index
         /\ \A i \in 1 .. Fill(out, in) :
              /\ Content(buf, out, in)[i] = buf[Place(out, i)]
              /\ Place(out, i) \in Index
<1>1. Fill(out, in) \in Index /\ (in - out) % BufLen = Fill(out, in)
  BY FillIs
<1>2. Fill(out, in) \in Nat /\ Fill(out, in) < BufLen
  BY <1>1, Buf DEF Index
<1>3. \A i \in 1 .. Fill(out, in) : /\ (out + i - 1) % BufLen = Place(out, i)
                                    /\ Place(out, i) \in Index
  <2>. SUFFICES ASSUME NEW i \in 1 .. Fill(out, in)
                PROVE  /\ (out + i - 1) % BufLen = Place(out, i)
                       /\ Place(out, i) \in Index
    OBVIOUS
  <2>1. i \in 1 .. BufLen
    BY <1>2, Buf
  <2>. QED
    BY <2>1, PlaceIs
<1>4. Content(buf, out, in)
        = [i \in 1 .. Fill(out, in) |-> buf[(out + i - 1) % BufLen]]
  BY <1>1 DEF Content
<1>5. \A i \in 1 .. Fill(out, in) : buf[(out + i - 1) % BufLen] \in Bytes
  BY <1>3
<1>6. Content(buf, out, in) \in [1 .. Fill(out, in) -> Bytes]
  BY <1>4, <1>5
<1>7. Content(buf, out, in) \in Seq(Bytes)
  BY <1>2, <1>6
<1>8. Len(Content(buf, out, in)) = Fill(out, in)
  BY <1>2, <1>6, <1>7
<1>. QED
  BY <1>1, <1>3, <1>4, <1>7, <1>8

\* Putting n bytes at in: they come after those that are there, and elsewhere.
LEMMA FillOn ==
  ASSUME NEW out \in Index, NEW in \in Index, NEW n \in Nat,
         Fill(out, in) + n < BufLen
  PROVE  /\ (in + n) % BufLen \in Index
         /\ Fill(out, (in + n) % BufLen) = Fill(out, in) + n
         /\ \A k \in 1 .. n : /\ Place(out, Fill(out, in) + k) = Place(in, k)
                              /\ Place(in, k) \in Index
         /\ \A i \in 1 .. Fill(out, in), k \in 1 .. n :
              Place(out, i) # Place(in, k)
<1>1. /\ out \in 0 .. BufLen - 1 /\ in \in 0 .. BufLen - 1 /\ BufLen \in Nat
      /\ Fill(out, in) \in Nat /\ n < BufLen
  BY FillIs, Buf DEF Index
<1>2. /\ (in + n) % BufLen \in Index
      /\ (in + n) % BufLen = IF in + n < BufLen THEN in + n ELSE in + n - BufLen
  BY <1>1, OnIs
<1>3. Fill(out, (in + n) % BufLen) = Fill(out, in) + n
  BY <1>1, <1>2 DEF Fill
<1>4. \A k \in 1 .. n : /\ Place(out, Fill(out, in) + k) = Place(in, k)
                        /\ Place(in, k) \in Index
  BY <1>1 DEF Fill, Place, Index
<1>5. \A i \in 1 .. Fill(out, in), k \in 1 .. n : Place(out, i) # Place(in, k)
  BY <1>1 DEF Fill, Place
<1>. QED
  BY <1>2, <1>3, <1>4, <1>5

\* Taking n bytes at out: the others stay where they are.
LEMMA FillOff ==
  ASSUME NEW out \in Index, NEW in \in Index, NEW n \in 0 .. Fill(out, in)
  PROVE  /\ (out + n) % BufLen \in Index
         /\ Fill((out + n) % BufLen, in) = Fill(out, in) - n
         /\ \A i \in 1 .. Fill(out, in) - n :
              Place((out + n) % BufLen, i) = Place(out, n + i)
<1>1. /\ out \in 0 .. BufLen - 1 /\ in \in 0 .. BufLen - 1 /\ BufLen \in Nat
      /\ Fill(out, in) \in 0 .. BufLen - 1 /\ n \in 0 .. BufLen
  BY FillIs, Buf DEF Index
<1>2. /\ (out + n) % BufLen \in Index
      /\ (out + n) % BufLen = IF out + n < BufLen THEN out + n
                                                  ELSE out + n - BufLen
  BY <1>1, OnIs
<1>3. Fill((out + n) % BufLen, in) = Fill(out, in) - n
  BY <1>1, <1>2 DEF Fill
<1>4. ASSUME NEW i \in 1 .. Fill(out, in) - n
      PROVE  Place((out + n) % BufLen, i) = Place(out, n + i)
  <2>1. i \in Nat /\ i >= 1 /\ i + n <= Fill(out, in)
    BY <1>1
  <2>2. CASE out + n < BufLen
    <3>1. (out + n) % BufLen = out + n
      BY <1>2, <2>2
    <3>. QED
      BY <1>1, <2>1, <3>1 DEF Place
  <2>3. CASE ~ out + n < BufLen
    <3>1. (out + n) % BufLen = out + n - BufLen
      BY <1>2, <2>3
    <3>. QED
      BY <1>1, <2>1, <2>3, <3>1 DEF Place, Fill
  <2>. QED
    BY <2>2, <2>3
<1>. QED
  BY <1>2, <1>3, <1>4

\* Bytes put at in follow what the buffer holds.
LEMMA Grown ==
  ASSUME NEW out \in Index, NEW in \in Index,
         NEW buf \in [Index -> Bytes], NEW new \in [Index -> Bytes],
         NEW bytes \in Seq(Bytes), Fill(out, in) + Len(bytes) < BufLen,
         \A i \in 1 .. Fill(out, in) : new[Place(out, i)] = buf[Place(out, i)],
         \A k \in 1 .. Len(bytes) : new[Place(in, k)] = bytes[k]
  PROVE  Content(new, out, (in + Len(bytes)) % BufLen)
           = Content(buf, out, in) \o bytes
<1>. DEFINE n == Len(bytes)
            s == Content(new, out, (in + n) % BufLen)
            c == Content(buf, out, in)
            t == c \o bytes
            f == Fill(out, in)
<1>1. n \in Nat /\ f \in Nat
  <2>1. Fill(out, in) \in Index
    BY FillIs
  <2>2. Fill(out, in) \in Nat
    BY <2>1, Buf
  <2>. QED
    BY <2>2, LenProperties
<1>2. /\ (in + n) % BufLen \in Index
      /\ Fill(out, (in + n) % BufLen) = f + n
      /\ \A k \in 1 .. n : Place(out, f + k) = Place(in, k)
  BY <1>1, FillOn
<1>3. /\ s \in Seq(Bytes) /\ Len(s) = f + n
      /\ \A i \in 1 .. f + n : s[i] = new[Place(out, i)]
  BY <1>2, ContentIs
<1>4. /\ c \in Seq(Bytes) /\ Len(c) = f
      /\ \A i \in 1 .. f : c[i] = buf[Place(out, i)]
  BY ContentIs
<1>5. /\ t \in Seq(Bytes) /\ Len(t) = f + n
      /\ \A i \in 1 .. f + n : t[i] = IF i <= f THEN c[i] ELSE bytes[i - f]
  <2>. HIDE DEF c, f
  <2>. QED
    BY <1>4, ConcatProperties
<1>6. \A i \in 1 .. f + n : s[i] = t[i]
  <2>. SUFFICES ASSUME NEW i \in 1 .. f + n PROVE s[i] = t[i]
    OBVIOUS
  <2>. HIDE DEF s, t, c, f, n
  <2>1. CASE i <= f
    <3>1. i \in 1 .. f
      BY <1>1, <2>1
    <3>. QED
      BY <1>3, <1>4, <1>5, <2>1, <3>1 DEF f
  <2>2. CASE ~ i <= f
    <3>. DEFINE k == i - f
    <3>1. k \in 1 .. n /\ f + k = i
      BY <1>1, <2>2
    <3>2. new[Place(in, k)] = bytes[k] /\ Place(out, f + k) = Place(in, k)
      BY <1>2, <3>1 DEF n
    <3>. QED
      BY <1>3, <1>5, <2>2, <3>1, <3>2
  <2>. QED
    BY <2>1, <2>2
<1>. HIDE DEF s, t
<1>7. s = t
  BY <1>3, <1>5, <1>6, SeqEqual
<1>. QED
  BY <1>7 DEF s, t

\* Bytes taken at out are the first the buffer holds; the others stay.
LEMMA Shrunk ==
  ASSUME NEW out \in Index, NEW in \in Index, NEW buf \in [Index -> Bytes],
         NEW n \in 0 .. Fill(out, in)
  PROVE  LET c == Content(buf, out, in)
             s == Content(buf, (out + n) % BufLen, in)
         IN  /\ s \in Seq(Bytes) /\ Len(s) = Fill(out, in) - n
             /\ s = SubSeq(c, n + 1, Len(c))
             /\ \A i \in 1 .. Len(s) : s[i] = c[n + i]
<1>. DEFINE s == Content(buf, (out + n) % BufLen, in)
            c == Content(buf, out, in)
            f == Fill(out, in)
            t == SubSeq(c, n + 1, f)
<1>1. f \in Nat /\ n \in Nat /\ n <= f
  <2>1. Fill(out, in) \in Index
    BY FillIs
  <2>2. Fill(out, in) \in Nat
    BY <2>1, Buf
  <2>. QED
    BY <2>2
<1>2. /\ (out + n) % BufLen \in Index
      /\ Fill((out + n) % BufLen, in) = f - n
      /\ \A i \in 1 .. f - n : Place((out + n) % BufLen, i) = Place(out, n + i)
  BY FillOff
<1>3. /\ s \in Seq(Bytes) /\ Len(s) = f - n
      /\ \A i \in 1 .. f - n : s[i] = buf[Place((out + n) % BufLen, i)]
  BY <1>2, ContentIs
<1>4. /\ c \in Seq(Bytes) /\ Len(c) = f
      /\ \A i \in 1 .. f : c[i] = buf[Place(out, i)]
  BY ContentIs
<1>. HIDE DEF s, c, f
<1>5. \A i \in n + 1 .. f : c[i] \in Bytes
  BY <1>1, <1>4, ElementOfSeq
<1>6. /\ t \in Seq(Bytes) /\ Len(t) = IF n + 1 <= f THEN f - (n + 1) + 1 ELSE 0
      /\ \A i \in 1 .. f - (n + 1) + 1 : t[i] = c[n + 1 + i - 1]
  <2>1. n + 1 \in Int /\ f \in Int
    BY <1>1
  <2>. QED
    BY <1>5, <2>1, SubSeqProperties
<1>7. Len(t) = f - n /\ \A i \in 1 .. f - n : t[i] = c[n + i]
  <2>1. Len(t) = f - n
    BY <1>1, <1>6
  <2>2. ASSUME NEW i \in 1 .. f - n PROVE t[i] = c[n + i]
    <3>1. i \in 1 .. f - (n + 1) + 1 /\ n + 1 + i - 1 = n + i
      BY <1>1
    <3>. QED
      BY <1>6, <3>1
  <2>. QED
    BY <2>1, <2>2
<1>8. \A i \in 1 .. f - n : s[i] = c[n + i]
  <2>. SUFFICES ASSUME NEW i \in 1 .. f - n PROVE s[i] = c[n + i]
    OBVIOUS
  <2>1. n + i \in 1 .. f
    BY <1>1
  <2>. QED
    BY <1>2, <1>3, <1>4, <2>1
<1>9. s = t
  <2>. HIDE DEF t
  <2>. QED
    BY <1>3, <1>6, <1>7, <1>8, SeqEqual
<1>. QED
  BY <1>3, <1>4, <1>8, <1>9 DEF s, c, f

-----------------------------------------------------------------------------
(* Every byte once and in order *)

\* A call under way holds no byte that it does not answer for: what it is about
\* to put in lies free behind what is there, what it is about to hand over is
\* the first of what is there, and the copies are exact.
Writing == {"measure", "copy", "publish", "kick", "spin", "check", "return"}
Reading == {"rmeasure", "rcopy", "rpublish", "rspin", "rpost"}
Passing ==
  /\ prog.pc \notin Writing => prog.msg = <<>>
  /\ prog.pc \notin Reading => prog.given = <<>>
  /\ prog.pc \in {"copy", "publish"} =>
       /\ prog.in = tx_in /\ prog.n > 0
       /\ Fill(tx_out, tx_in) + prog.n < BufLen
       /\ prog.in + prog.n <= BufLen
  /\ prog.pc = "publish" =>
       \A i \in 1 .. prog.n : tx_buf[prog.in + i - 1] = prog.msg[i]
  /\ prog.pc \in {"rcopy", "rpublish"} =>
       prog.out = rx_out /\ prog.n <= Fill(rx_out, rx_in)
  /\ prog.pc = "rpublish" =>
       \A i \in 1 .. prog.n : prog.data[i] = rx_buf[prog.out + i - 1]

\* A step that moves no byte is none of the stream's.
LEMMA Quiet == ASSUME UNCHANGED ring, txfifo' = txfifo, rxfifo' = rxfifo,
                      prog'.msg = prog.msg, prog'.given = prog.given
               PROVE  UNCHANGED Stream!vars
BY DEF ring, Stream!vars

LEMMA RoomFollows ==
  ASSUME NEW in \in Index, NEW out \in Index
  PROVE  Fill(out, in) + Room(in, out) < BufLen /\ in + Room(in, out) <= BufLen
BY Buf DEF Fill, Room, Index

LEMMA NotFull == ASSUME NEW in \in Index, NEW out \in Index,
                        (in + 1) % BufLen # out
                 PROVE  Fill(out, in) + 1 < BufLen
<1>1. /\ in \in 0 .. BufLen - 1 /\ out \in 0 .. BufLen - 1 /\ BufLen \in Nat
      /\ BufLen > 1
  BY Buf DEF Index
<1>2. (in + 1) % BufLen = IF in + 1 < BufLen THEN in + 1 ELSE in + 1 - BufLen
  BY <1>1, OnIs
<1>. QED
  BY <1>1, <1>2 DEF Fill

\* A write (_write.c): it asks, and bytes are accepted as they are published.
LEMMA WriteStreams == ASSUME TypeOK, Pieces, Passing, Write
                      PROVE  Passing' /\ [Stream!Next]_(Stream!vars)
<1>. prog \in Record /\ Rest
  BY TypeIs
<1>. USE DEF At, driver, device
<1>0. /\ prog.msg \in Seq(Bytes) /\ prog.n \in Nat /\ prog.in \in Nat
      /\ prog.in \in Index
  BY Buf DEF Record, Index
<1>1. CASE WriteCall
  <2>1. PICK m \in Messages, f \in Flags :
          Go("measure", [Idle EXCEPT !.msg = m, !.nonblock = f])
    BY <1>1 DEF WriteCall
  <2>. DEFINE r == [Idle EXCEPT !.msg = m, !.nonblock = f]
  <2>2. r \in Record /\ r.given = <<>>
    BY DataAssumption, IdleIsRecord DEF Record, Idle
  <2>3. prog'.pc = "measure" /\ prog'.given = <<>>
    BY <2>1, <2>2, Goes DEF Labels
  <2>4. prog.msg = <<>> /\ prog.given = <<>>
    BY <1>1 DEF WriteCall, Passing, Writing, Reading
  <2>5. Stream!Ask
    BY <1>1, <2>3, <2>4 DEF WriteCall, Stream!Ask, ring
  <2>6. Passing'
    BY <2>3 DEF Passing, Writing, Reading
  <2>. QED
    BY <2>5, <2>6 DEF Stream!Next
<1>2. CASE WriteMeasure
  <2>. DEFINE n == Least(Room(tx_in, tx_out), Len(prog.msg))
  <2>1. /\ Room(tx_in, tx_out) \in Nat /\ Len(prog.msg) \in Nat
        /\ Room(tx_in, tx_out) \in Index
        /\ Fill(tx_out, tx_in) \in Nat /\ tx_in \in Nat /\ BufLen \in Nat
    <3>1. Room(tx_in, tx_out) \in Index /\ Fill(tx_out, tx_in) \in Index
      BY RoomFits, FillIs DEF Rest
    <3>2. Len(prog.msg) \in Nat
      BY <1>0, LenProperties
    <3>. QED
      BY <3>1, <3>2, Buf DEF Rest
  <2>2. /\ n \in Index /\ n \in Nat /\ n <= Room(tx_in, tx_out)
    BY <2>1, Buf DEF Least, Index
  <2>3. prog.given = <<>>
    BY <1>2 DEF WriteMeasure, Passing, Reading
  <2>4. CASE n = 0
    <3>1. PICK r \in Record : Go("kick", r) /\ r.msg = prog.msg
                              /\ r.given = prog.given
      <4>1. CASE prog.msg = <<>>
        BY <1>2, <2>4, <4>1 DEF WriteMeasure
      <4>2. CASE prog.msg # <<>>
        <5>. DEFINE r == [prog EXCEPT !.in = tx_in, !.out = tx_out]
        <5>1. r \in Record /\ r.msg = prog.msg /\ r.given = prog.given
          BY DEF Record, Rest
        <5>2. Go("kick", r)
          BY <1>2, <2>4, <4>2 DEF WriteMeasure
        <5>. QED
          BY <5>1, <5>2
      <4>. QED
        BY <4>1, <4>2
    <3>2. prog'.pc = "kick" /\ prog'.msg = prog.msg /\ prog'.given = prog.given
      BY <3>1, Goes DEF Labels
    <3>3. Passing'
      BY <2>3, <3>2 DEF Passing, Writing, Reading
    <3>. QED
      BY <1>2, <3>2, <3>3, Quiet DEF WriteMeasure
  <2>5. CASE n # 0
    <3>. DEFINE r == [prog EXCEPT !.in = tx_in, !.out = tx_out, !.n = n]
    <3>1. r \in Record /\ r.n = n /\ r.msg = prog.msg /\ r.given = prog.given
          /\ r.in = tx_in
      BY <2>2 DEF Record, Rest
    <3>2. Go("copy", r)
      BY <1>2, <2>5 DEF WriteMeasure
    <3>. HIDE DEF r, n
    <3>3. /\ prog'.pc = "copy" /\ prog'.n = n /\ prog'.in = tx_in
          /\ prog'.msg = prog.msg /\ prog'.given = prog.given
      BY <3>1, <3>2, Goes DEF Labels
    <3>4. Fill(tx_out, tx_in) + n < BufLen /\ tx_in + n <= BufLen /\ n > 0
      <4>1. /\ Fill(tx_out, tx_in) + Room(tx_in, tx_out) < BufLen
            /\ tx_in + Room(tx_in, tx_out) <= BufLen
        BY RoomFollows DEF Rest
      <4>. QED
        BY <2>1, <2>2, <2>5, <4>1
    <3>5. tx_in' = tx_in /\ tx_out' = tx_out
      BY <1>2 DEF WriteMeasure, ring
    <3>6. Passing'
      BY <2>3, <3>3, <3>4, <3>5 DEF Passing, Writing, Reading
    <3>. QED
      BY <1>2, <3>3, <3>6, Quiet DEF WriteMeasure
  <2>. QED
    BY <2>4, <2>5
<1>3. CASE WriteCopy
  <2>1. /\ prog' \in Record /\ prog'.pc = "publish" /\ prog'.in = prog.in
        /\ prog'.n = prog.n /\ prog'.msg = prog.msg /\ prog'.given = prog.given
    BY <1>3, Goes DEF WriteCopy, Labels
  <2>. DEFINE bytes == SubSeq(prog.msg, 1, prog.n)
  <2>2. /\ prog.n <= Len(prog.msg) /\ Len(prog.msg) \in Nat /\ prog.in = tx_in
        /\ prog.n > 0 /\ Fill(tx_out, tx_in) + prog.n < BufLen
        /\ prog.in + prog.n <= BufLen /\ prog.given = <<>>
    BY <1>0, <1>3 DEF WriteCopy, Pieces, Passing, Reading
  <2>3. /\ bytes \in Seq(Bytes) /\ Len(bytes) = prog.n
        /\ \A i \in 1 .. prog.n : bytes[i] = prog.msg[i]
    <3>1. \A i \in 1 .. prog.n : prog.msg[i] \in Bytes
      BY <1>0, <2>2, ElementOfSeq
    <3>. QED
      BY <1>0, <2>2, <3>1, SubSeqProperties
  <2>4. DOMAIN bytes = 1 .. prog.n
    BY <2>3, LenProperties
  <2>5. tx_buf' = [i \in Index |-> IF i - prog.in + 1 \in 1 .. prog.n
                                   THEN bytes[i - prog.in + 1] ELSE tx_buf[i]]
    BY <1>3, <2>4 DEF WriteCopy, Copied
  <2>. HIDE DEF bytes
  <2>6. \A i \in 1 .. prog.n : tx_buf'[prog.in + i - 1] = prog.msg[i]
    <3>. SUFFICES ASSUME NEW i \in 1 .. prog.n
                  PROVE  tx_buf'[prog.in + i - 1] = prog.msg[i]
      OBVIOUS
    <3>. DEFINE p == prog.in + i - 1
    <3>1. p \in Index /\ p - prog.in + 1 = i
      BY <1>0, <2>2, Buf DEF Index
    <3>2. tx_buf'[p] = bytes[i]
      BY <2>5, <3>1
    <3>. QED
      BY <2>3, <3>2
  <2>7. UNCHANGED <<tx_in, tx_out, rx_in, rx_out, rx_buf, txfifo, rxfifo>>
    BY <1>3 DEF WriteCopy
  <2>8. Passing'
    BY <2>1, <2>2, <2>6, <2>7 DEF Passing, Writing, Reading
  <2>9. Content(tx_buf', tx_out, tx_in) = Content(tx_buf, tx_out, tx_in)
    <3>1. /\ tx_out \in Index /\ tx_in \in Index /\ tx_buf \in [Index -> Bytes]
          /\ Fill(tx_out, tx_in) \in Nat
      BY FillIs, Buf DEF Rest
    <3>2. tx_buf' \in [Index -> Bytes]
      <4>1. TypeOK'
        BY <1>3, WriteTyped DEF Write
      <4>. QED
        BY <4>1 DEF TypeOK
    <3>3. \A i \in 1 .. Fill(tx_out, tx_in) :
            tx_buf'[Place(tx_out, i)] = tx_buf[Place(tx_out, i)]
      <4>. SUFFICES ASSUME NEW i \in 1 .. Fill(tx_out, tx_in)
                    PROVE  tx_buf'[Place(tx_out, i)] = tx_buf[Place(tx_out, i)]
        OBVIOUS
      <4>1. Place(tx_out, i) \in Index
        BY <3>1, ContentIs
      <4>2. \A k \in 1 .. prog.n : Place(tx_out, i) # Place(tx_in, k)
        BY <1>0, <2>2, <3>1, FillOn
      <4>3. ASSUME Place(tx_out, i) - prog.in + 1 \in 1 .. prog.n PROVE FALSE
        <5>. DEFINE k == Place(tx_out, i) - prog.in + 1
        <5>1. k \in 1 .. prog.n /\ prog.in + k - 1 = Place(tx_out, i)
          <6>1. Place(tx_out, i) \in Nat
            BY <4>1, Buf
          <6>. QED
            BY <1>0, <4>3, <6>1
        <5>2. Place(tx_in, k) = tx_in + k - 1
          BY <1>0, <2>2, <5>1, Buf DEF Place
        <5>. QED
          BY <2>2, <4>2, <5>1, <5>2
      <4>. QED
        BY <2>5, <4>1, <4>3
    <3>4. <<>> \in Seq(Bytes) /\ Len(<<>>) = 0
      BY EmptySeq
    <3>5. Content(tx_buf', tx_out, (tx_in + Len(<<>>)) % BufLen)
            = Content(tx_buf, tx_out, tx_in) \o <<>>
      <4>1. Fill(tx_out, tx_in) + Len(<<>>) < BufLen
        BY <1>0, <2>2, <3>1, <3>4, Buf
      <4>2. \A k \in 1 .. Len(<<>>) : tx_buf'[Place(tx_in, k)] = <<>>[k]
        BY <3>4
      <4>. QED
        BY <3>1, <3>2, <3>3, <3>4, <4>1, <4>2, Grown
    <3>6. (tx_in + Len(<<>>)) % BufLen = tx_in
      <4>1. (tx_in + 0) % BufLen = tx_in
        <5>1. tx_in \in 0 .. BufLen - 1 /\ tx_in + 0 = tx_in
          BY <3>1, Buf DEF Index
        <5>. QED
          BY <5>1, Round
      <4>. QED
        BY <3>4, <4>1
    <3>7. Content(tx_buf, tx_out, tx_in) \in Seq(Bytes)
      BY <3>1, ContentIs
    <3>. QED
      BY <3>5, <3>6, <3>7, ConcatEmptySeq
  <2>10. UNCHANGED Stream!vars
    BY <2>1, <2>7, <2>9 DEF Stream!vars
  <2>. QED
    BY <2>8, <2>10
<1>4. CASE WritePublish
  <2>. DEFINE n == prog.n
              bytes == SubSeq(prog.msg, 1, n)
              r == [prog EXCEPT !.msg = After(@, n), !.result = "count"]
  <2>1. After(prog.msg, n) \in Seq(Bytes)
    BY <1>0, AfterIsSeq
  <2>2. r \in Record /\ r.msg = After(prog.msg, n) /\ r.given = prog.given
    BY <2>1 DEF Record, Results
  <2>3. Go("measure", r)
    BY <1>4 DEF WritePublish
  <2>. HIDE DEF r
  <2>4. /\ prog'.pc = "measure" /\ prog'.msg = After(prog.msg, n)
        /\ prog'.given = prog.given
    BY <2>2, <2>3, Goes DEF Labels
  <2>5. /\ n <= Len(prog.msg) /\ Len(prog.msg) \in Nat /\ prog.in = tx_in
        /\ n > 0 /\ Fill(tx_out, tx_in) + n < BufLen
        /\ prog.in + n <= BufLen /\ prog.given = <<>>
        /\ \A i \in 1 .. n : tx_buf[prog.in + i - 1] = prog.msg[i]
    BY <1>0, <1>4 DEF WritePublish, Pieces, Passing, Reading
  <2>6. /\ bytes \in Seq(Bytes) /\ Len(bytes) = n
        /\ \A i \in 1 .. n : bytes[i] = prog.msg[i]
    <3>1. \A i \in 1 .. n : prog.msg[i] \in Bytes
      BY <1>0, <2>5, ElementOfSeq
    <3>. QED
      BY <1>0, <2>5, <3>1, SubSeqProperties
  <2>7. Passing'
    BY <2>4, <2>5 DEF Passing, Writing, Reading
  <2>8. /\ UNCHANGED <<tx_out, tx_buf, rx_in, rx_out, rx_buf, txfifo, rxfifo>>
        /\ tx_in' = (tx_in + Len(bytes)) % BufLen
    BY <1>4, <2>5, <2>6 DEF WritePublish
  <2>. HIDE DEF bytes
  <2>9. Content(tx_buf, tx_out, (tx_in + Len(bytes)) % BufLen)
          = Content(tx_buf, tx_out, tx_in) \o bytes
    <3>1. tx_out \in Index /\ tx_in \in Index /\ tx_buf \in [Index -> Bytes]
      BY DEF Rest
    <3>2. \A k \in 1 .. n : tx_buf[Place(tx_in, k)] = bytes[k]
      <4>. SUFFICES ASSUME NEW k \in 1 .. n
                    PROVE  tx_buf[Place(tx_in, k)] = bytes[k]
        OBVIOUS
      <4>1. Place(tx_in, k) = tx_in + k - 1
        BY <1>0, <2>5, Buf DEF Place
      <4>. QED
        BY <2>5, <2>6, <4>1
    <3>3. /\ Fill(tx_out, tx_in) + Len(bytes) < BufLen
          /\ \A k \in 1 .. Len(bytes) : tx_buf[Place(tx_in, k)] = bytes[k]
      BY <2>5, <2>6, <3>2
    <3>4. bytes \in Seq(Bytes)
      BY <2>6
    <3>. QED
      BY <3>1, <3>3, <3>4, Grown
  <2>10. txfifo' \o Content(tx_buf', tx_out', tx_in')
           = (txfifo \o Content(tx_buf, tx_out, tx_in)) \o bytes
    <3>1. txfifo \in Seq(Bytes) /\ Content(tx_buf, tx_out, tx_in) \in Seq(Bytes)
      BY ContentIs DEF Rest
    <3>. DEFINE c == Content(tx_buf, tx_out, tx_in)
    <3>2. txfifo' \o Content(tx_buf', tx_out', tx_in') = txfifo \o (c \o bytes)
      BY <2>8, <2>9
    <3>3. bytes \in Seq(Bytes)
      BY <2>6
    <3>. HIDE DEF c
    <3>4. c \in Seq(Bytes)
      BY <3>1 DEF c
    <3>5. (txfifo \o c) \o bytes = txfifo \o (c \o bytes)
      BY <3>1, <3>3, <3>4, ConcatAssociative
    <3>. QED
      BY <3>2, <3>5 DEF c
  <2>11. n \in 1 .. Len(prog.msg)
    BY <1>0, <2>5
  <2>12. Stream!Accept
    <3>1. prog'.msg = Stream!From(prog.msg, n)
      BY <2>4 DEF After, Stream!From
    <3>. QED
      BY <2>4, <2>8, <2>10, <2>11, <3>1 DEF Stream!Accept, bytes
  <2>. QED
    BY <2>7, <2>12 DEF Stream!Next
<1>5. CASE WriteKick \/ WriteSpin \/ WriteCheck
  <2>1. PICK l \in {"return", "spin", "check", "measure"} : Go(l, prog)
    BY <1>5 DEF WriteKick, WriteSpin, WriteCheck
  <2>2. prog'.pc = l /\ prog'.msg = prog.msg /\ prog'.given = prog.given
    BY <2>1, Goes DEF Labels
  <2>3. prog.given = <<>>
    BY <1>5 DEF WriteKick, WriteSpin, WriteCheck, Passing, Reading
  <2>4. Passing'
    BY <2>2, <2>3 DEF Passing, Writing, Reading
  <2>. QED
    BY <1>5, <2>2, <2>4, Quiet DEF WriteKick, WriteSpin, WriteCheck
<1>6. CASE WriteReturn
  <2>1. prog'.pc = "idle" /\ prog'.msg = <<>> /\ prog'.given = <<>>
    BY <1>6 DEF WriteReturn, Idle
  <2>2. prog.given = <<>>
    BY <1>6 DEF WriteReturn, Passing, Reading
  <2>3. Passing'
    BY <2>1 DEF Passing, Writing, Reading
  <2>4. Stream!Refuse
    BY <1>6, <2>1, <2>2 DEF WriteReturn, Stream!Refuse, ring
  <2>. QED
    BY <2>3, <2>4 DEF Stream!Next
<1>. QED
  BY <1>1, <1>2, <1>3, <1>4, <1>5, <1>6 DEF Write

\* The first n bytes of c before t, and what is left of both without them.
LEMMA FirstOf ==
  ASSUME NEW c \in Seq(Bytes), NEW t \in Seq(Bytes), NEW d \in Seq(Bytes),
         Len(d) <= Len(c), \A i \in 1 .. Len(d) : d[i] = c[i]
  PROVE  d = SubSeq(c \o t, 1, Len(d))
<1>. DEFINE x == c \o t
            y == SubSeq(x, 1, Len(d))
<1>1. Len(c) \in Nat /\ Len(t) \in Nat /\ Len(d) \in Nat
  BY LenProperties
<1>2. /\ x \in Seq(Bytes) /\ Len(x) = Len(c) + Len(t)
      /\ \A i \in 1 .. Len(c) + Len(t) :
           x[i] = IF i <= Len(c) THEN c[i] ELSE t[i - Len(c)]
  BY ConcatProperties
<1>. HIDE DEF x
<1>3. \A i \in 1 .. Len(d) : x[i] \in Bytes /\ x[i] = c[i]
  BY <1>1, <1>2, ElementOfSeq
<1>4. /\ y \in Seq(Bytes) /\ Len(y) = Len(d)
      /\ \A i \in 1 .. Len(d) : y[i] = x[i]
  <2>. DEFINE n == Len(d)
  <2>. HIDE DEF n
  <2>1. n \in Int /\ n \in Nat /\ \A i \in 1 .. n : x[i] \in Bytes
    BY <1>1, <1>3 DEF n
  <2>2. /\ SubSeq(x, 1, n) \in Seq(Bytes)
        /\ Len(SubSeq(x, 1, n)) = IF 1 <= n THEN n - 1 + 1 ELSE 0
        /\ \A i \in 1 .. n - 1 + 1 : SubSeq(x, 1, n)[i] = x[1 + i - 1]
    BY <2>1, SubSeqProperties
  <2>3. Len(SubSeq(x, 1, n)) = n
    BY <2>1, <2>2
  <2>4. ASSUME NEW i \in 1 .. n PROVE SubSeq(x, 1, n)[i] = x[i]
    <3>1. i \in 1 .. n - 1 + 1 /\ 1 + i - 1 = i
      BY <2>1
    <3>. QED
      BY <2>2, <3>1
  <2>. QED
    BY <2>2, <2>3, <2>4 DEF n
<1>. HIDE DEF y
<1>5. d = y
  BY <1>3, <1>4, SeqEqual
<1>. QED
  BY <1>5 DEF y, x

LEMMA RestOf ==
  ASSUME NEW c \in Seq(Bytes), NEW t \in Seq(Bytes), NEW s \in Seq(Bytes),
         NEW n \in 0 .. Len(c), Len(s) = Len(c) - n,
         \A i \in 1 .. Len(s) : s[i] = c[n + i]
  PROVE  s \o t = SubSeq(c \o t, n + 1, Len(c \o t))
<1>. DEFINE x == c \o t
            z == s \o t
            y == SubSeq(x, n + 1, Len(x))
<1>1. Len(c) \in Nat /\ Len(t) \in Nat /\ n \in Nat /\ n <= Len(c)
  BY LenProperties
<1>2. /\ x \in Seq(Bytes) /\ Len(x) = Len(c) + Len(t)
      /\ \A i \in 1 .. Len(c) + Len(t) :
           x[i] = IF i <= Len(c) THEN c[i] ELSE t[i - Len(c)]
  BY ConcatProperties
<1>3. /\ z \in Seq(Bytes) /\ Len(z) = Len(s) + Len(t)
      /\ \A i \in 1 .. Len(s) + Len(t) :
           z[i] = IF i <= Len(s) THEN s[i] ELSE t[i - Len(s)]
  BY ConcatProperties
<1>. HIDE DEF x, z
<1>4. \A i \in n + 1 .. Len(x) : x[i] \in Bytes
  BY <1>1, <1>2, ElementOfSeq
<1>5. /\ y \in Seq(Bytes)
      /\ Len(y) = IF n + 1 <= Len(x) THEN Len(x) - (n + 1) + 1 ELSE 0
      /\ \A i \in 1 .. Len(x) - (n + 1) + 1 : y[i] = x[n + 1 + i - 1]
  <2>1. n + 1 \in Int /\ Len(x) \in Int
    BY <1>1, <1>2
  <2>. QED
    BY <1>4, <2>1, SubSeqProperties
<1>. HIDE DEF y
<1>6. Len(y) = Len(z)
  BY <1>1, <1>2, <1>3, <1>5
<1>7. ASSUME NEW i \in 1 .. Len(z) PROVE z[i] = y[i]
  <2>1. i \in 1 .. Len(x) - (n + 1) + 1 /\ n + 1 + i - 1 = n + i
    BY <1>1, <1>2, <1>3
  <2>2. y[i] = x[n + i]
    BY <1>5, <2>1
  <2>3. n + i \in 1 .. Len(c) + Len(t) /\ i \in 1 .. Len(s) + Len(t)
    BY <1>1, <1>3
  <2>4. CASE i <= Len(s)
    <3>1. n + i <= Len(c) /\ i \in 1 .. Len(s)
      BY <1>1, <2>3, <2>4
    <3>2. z[i] = s[i] /\ x[n + i] = c[n + i]
      BY <1>2, <1>3, <2>3, <2>4, <3>1
    <3>. QED
      BY <2>2, <3>1, <3>2
  <2>5. CASE ~ i <= Len(s)
    <3>1. ~ (n + i <= Len(c)) /\ n + i - Len(c) = i - Len(s)
      BY <1>1, <2>3, <2>5
    <3>2. z[i] = t[i - Len(s)] /\ x[n + i] = t[n + i - Len(c)]
      BY <1>2, <1>3, <2>3, <2>5, <3>1
    <3>. QED
      BY <2>2, <3>1, <3>2
  <2>. QED
    BY <2>4, <2>5
<1>8. z = y
  BY <1>3, <1>5, <1>6, <1>7, SeqEqual
<1>. QED
  BY <1>8 DEF x, y, z

\* A read (_read.c): bytes are handed over as their places are freed.
LEMMA ReadStreams == ASSUME TypeOK, Pieces, Passing, Read
                     PROVE  Passing' /\ [Stream!Next]_(Stream!vars)
<1>. prog \in Record /\ Rest
  BY TypeIs
<1>. USE DEF At, driver, device
<1>0. /\ prog.space \in Nat /\ prog.n \in Nat /\ prog.out \in Nat
      /\ prog.given \in Seq(Bytes) /\ prog.data \in Seq(Bytes)
      /\ rx_in \in 0 .. BufLen - 1 /\ rx_out \in 0 .. BufLen - 1
      /\ BufLen \in Nat /\ rx_in \in Index /\ rx_out \in Index
      /\ rx_buf \in [Index -> Bytes]
  BY Buf DEF Record, Rest, Index
<1>1. CASE ReadCall
  <2>1. PICK s \in Spaces, f \in Flags :
          Go("rmeasure", [Idle EXCEPT !.space = s, !.nonblock = f])
    BY <1>1 DEF ReadCall
  <2>. DEFINE r == [Idle EXCEPT !.space = s, !.nonblock = f]
  <2>2. r \in Record /\ r.given = <<>> /\ r.msg = <<>>
    BY DataAssumption, IdleIsRecord DEF Record, Idle
  <2>3. prog'.pc = "rmeasure" /\ prog'.given = <<>> /\ prog'.msg = <<>>
    BY <2>1, <2>2, Goes DEF Labels
  <2>4. prog.msg = <<>> /\ prog.given = <<>>
    BY <1>1 DEF ReadCall, Passing, Writing, Reading
  <2>5. Passing'
    BY <2>3 DEF Passing, Writing, Reading
  <2>. QED
    BY <1>1, <2>3, <2>4, <2>5, Quiet DEF ReadCall
<1>2. CASE ReadMeasure
  <2>. DEFINE there == IF rx_in >= rx_out THEN rx_in - rx_out
                                          ELSE BufLen - rx_out
              n == Least(there, prog.space)
              r == [prog EXCEPT !.in = rx_in, !.out = rx_out, !.n = n]
  <2>1. there \in 0 .. BufLen - 1 /\ there <= Fill(rx_out, rx_in)
    BY <1>0 DEF Fill
  <2>2. n \in 0 .. BufLen - 1 /\ n <= Fill(rx_out, rx_in)
    <3>. HIDE DEF there
    <3>1. Fill(rx_out, rx_in) \in Int
      BY <1>0 DEF Fill
    <3>. QED
      BY <1>0, <2>1, <3>1 DEF Least
  <2>3. /\ r \in Record /\ r.n = n /\ r.out = rx_out /\ r.msg = prog.msg
        /\ r.given = prog.given
    BY <1>0, <2>2 DEF Record, Rest, Index
  <2>4. prog.msg = <<>>
    BY <1>2 DEF ReadMeasure, Passing, Writing
  <2>5. PICK l \in {"rcopy", "rpost", "rspin"} : Go(l, r)
    BY <1>2 DEF ReadMeasure
  <2>. HIDE DEF r, n
  <2>6. /\ prog'.pc = l /\ prog'.n = n /\ prog'.out = rx_out
        /\ prog'.msg = prog.msg /\ prog'.given = prog.given
    BY <2>3, <2>5, Goes DEF Labels
  <2>7. rx_out' = rx_out /\ rx_in' = rx_in
    BY <1>2 DEF ReadMeasure, ring
  <2>8. Passing'
    BY <2>2, <2>4, <2>6, <2>7 DEF Passing, Writing, Reading
  <2>. QED
    BY <1>2, <2>6, <2>8, Quiet DEF ReadMeasure
<1>3. CASE ReadCopy
  <2>. DEFINE e(i) == rx_buf[prog.out + i - 1]
              d == [i \in 1 .. prog.n |-> e(i)]
              r == [prog EXCEPT !.data = d]
  <2>1. /\ prog.n > 0 /\ prog.out + prog.n <= BufLen /\ prog.out = rx_out
        /\ prog.n <= Fill(rx_out, rx_in) /\ prog.msg = <<>>
    BY <1>3 DEF ReadCopy, Pieces, Passing, Writing
  <2>2. ASSUME NEW i \in 1 .. prog.n PROVE e(i) \in Bytes
    <3>1. prog.out + i - 1 \in Index
      BY <1>0, <2>1 DEF Index
    <3>. QED
      BY <1>0, <3>1
  <2>3. d \in Seq(Bytes)
    <3>. HIDE DEF e
    <3>. QED
      BY <1>0, <2>2, IsASeq
  <2>4. \A i \in 1 .. prog.n : d[i] = rx_buf[prog.out + i - 1]
    OBVIOUS
  <2>. HIDE DEF d
  <2>5. /\ r \in Record /\ r.data = d /\ r.n = prog.n /\ r.out = prog.out
        /\ r.given = prog.given /\ r.msg = prog.msg
    BY <2>3 DEF Record
  <2>6. Go("rpublish", r)
    BY <1>3 DEF ReadCopy, d
  <2>. HIDE DEF r
  <2>7. /\ prog'.pc = "rpublish" /\ prog'.data = d /\ prog'.n = prog.n
        /\ prog'.out = prog.out /\ prog'.given = prog.given
        /\ prog'.msg = prog.msg
    BY <2>5, <2>6, Goes DEF Labels
  <2>8. UNCHANGED <<rx_out, rx_in, rx_buf>>
    BY <1>3 DEF ReadCopy, ring
  <2>9. Passing'
    BY <2>1, <2>4, <2>7, <2>8 DEF Passing, Writing, Reading
  <2>. QED
    BY <1>3, <2>7, <2>9, Quiet DEF ReadCopy
<1>4. CASE ReadPublish
  <2>. DEFINE n == prog.n
              c == Content(rx_buf, rx_out, rx_in)
              s == Content(rx_buf, (rx_out + n) % BufLen, rx_in)
              from == c \o rxfifo
              r == [prog EXCEPT !.given = @ \o prog.data, !.data = <<>>,
                                !.space = @ - n]
  <2>1. /\ n > 0 /\ prog.out + n <= BufLen /\ prog.out = rx_out
        /\ n <= Fill(rx_out, rx_in) /\ prog.msg = <<>> /\ n <= prog.space
        /\ Len(prog.data) = n
        /\ \A i \in 1 .. n : prog.data[i] = rx_buf[rx_out + i - 1]
    BY <1>4 DEF ReadPublish, Pieces, Passing, Writing
  <2>2. r \in Record /\ r.given = prog.given \o prog.data /\ r.msg = prog.msg
    <3>1. prog.given \o prog.data \in Seq(Bytes) /\ <<>> \in Seq(Bytes)
      BY <1>0, ConcatProperties, EmptySeq
    <3>2. prog.space - n \in Nat
      BY <1>0, <2>1
    <3>. QED
      BY <3>1, <3>2 DEF Record
  <2>3. Go("rmeasure", r) \/ Go("rpost", r)
    BY <1>4 DEF ReadPublish
  <2>. HIDE DEF r
  <2>4. /\ prog'.pc \in {"rmeasure", "rpost"} /\ prog'.msg = prog.msg
        /\ prog'.given = prog.given \o prog.data
    BY <2>2, <2>3, Goes DEF Labels
  <2>5. Passing'
    BY <2>1, <2>4 DEF Passing, Writing, Reading
  <2>6. /\ UNCHANGED <<tx_in, tx_out, tx_buf, rx_in, rx_buf, txfifo, rxfifo>>
        /\ rx_out' = (rx_out + n) % BufLen
    BY <1>4, <2>1 DEF ReadPublish
  <2>7. /\ Fill(rx_out, rx_in) \in Nat /\ n \in 0 .. Fill(rx_out, rx_in)
        /\ n \in Nat
    <3>1. Fill(rx_out, rx_in) \in Nat
      BY <1>0 DEF Fill
    <3>. QED
      BY <1>0, <2>1, <3>1
  <2>8. /\ c \in Seq(Bytes) /\ Len(c) = Fill(rx_out, rx_in)
        /\ \A i \in 1 .. Fill(rx_out, rx_in) : c[i] = rx_buf[Place(rx_out, i)]
    BY <1>0, ContentIs
  <2>9. /\ s \in Seq(Bytes) /\ Len(s) = Fill(rx_out, rx_in) - n
        /\ \A i \in 1 .. Len(s) : s[i] = c[n + i]
    <3>. HIDE DEF n
    <3>. QED
      BY <1>0, <2>7, Shrunk
  <2>. HIDE DEF n, c, s, from
  <2>10. rxfifo \in Seq(Bytes)
    BY DEF Rest
  <2>11. prog.data = SubSeq(c \o rxfifo, 1, n)
    <3>1. ASSUME NEW i \in 1 .. Len(prog.data) PROVE prog.data[i] = c[i]
      <4>1. /\ i \in 1 .. Fill(rx_out, rx_in)
            /\ Place(rx_out, i) = rx_out + i - 1
        BY <1>0, <2>1, <2>7 DEF Place
      <4>. QED
        BY <2>1, <2>8, <4>1
    <3>2. Len(prog.data) <= Len(c)
      BY <2>1, <2>8
    <3>3. prog.data = SubSeq(c \o rxfifo, 1, Len(prog.data))
      BY <1>0, <2>8, <2>10, <3>1, <3>2, FirstOf
    <3>. QED
      BY <2>1, <3>3
  <2>12. s \o rxfifo = SubSeq(c \o rxfifo, n + 1, Len(c \o rxfifo))
    <3>1. n \in 0 .. Len(c) /\ Len(s) = Len(c) - n
      BY <2>7, <2>8, <2>9
    <3>. QED
      BY <2>8, <2>9, <2>10, <3>1, RestOf
  <2>13. n \in 1 .. Len(c \o rxfifo)
    <3>1. c \in Seq(Bytes) /\ rxfifo \in Seq(Bytes)
      BY <2>8, <2>10
    <3>2. Len(c \o rxfifo) = Len(c) + Len(rxfifo)
      BY <3>1, ConcatProperties
    <3>3. Len(rxfifo) \in Nat /\ Len(c) \in Nat
      BY <3>1, LenProperties
    <3>. QED
      BY <2>1, <2>7, <2>8, <3>2, <3>3
  <2>14. Stream!Hand
    <3>1. /\ prog'.given = prog.given \o SubSeq(from, 1, n)
          /\ Content(rx_buf', rx_out', rx_in') \o rxfifo'
               = SubSeq(from, n + 1, Len(from))
          /\ n \in 1 .. Len(from)
      BY <2>4, <2>6, <2>11, <2>12, <2>13 DEF from, s
    <3>2. UNCHANGED <<prog.msg, txfifo, tx_buf, tx_in, tx_out>>
      BY <2>4, <2>6
    <3>. QED
      BY <3>1, <3>2 DEF Stream!Hand, Stream!From, from, c
  <2>. QED
    BY <2>5, <2>14 DEF Stream!Next
<1>5. CASE ReadSpin
  <2>1. PICK l \in {"rpost", "rmeasure"} : Go(l, prog)
    BY <1>5 DEF ReadSpin
  <2>2. prog'.pc = l /\ prog'.msg = prog.msg /\ prog'.given = prog.given
    BY <2>1, Goes DEF Labels
  <2>3. prog.msg = <<>>
    BY <1>5 DEF ReadSpin, Passing, Writing
  <2>4. Passing'
    BY <2>2, <2>3 DEF Passing, Writing, Reading
  <2>. QED
    BY <1>5, <2>2, <2>4, Quiet DEF ReadSpin
<1>6. CASE ReadReturn
  <2>1. prog'.pc = "idle" /\ prog'.msg = <<>> /\ prog'.given = <<>>
    BY <1>6 DEF ReadReturn, Idle
  <2>2. prog.msg = <<>>
    BY <1>6 DEF ReadReturn, Passing, Writing
  <2>3. Passing'
    BY <2>1 DEF Passing, Writing, Reading
  <2>4. Stream!Forget
    BY <1>6, <2>1, <2>2 DEF ReadReturn, Stream!Forget, ring
  <2>. QED
    BY <2>3, <2>4 DEF Stream!Next
<1>. QED
  BY <1>1, <1>2, <1>3, <1>4, <1>5, <1>6 DEF Read

\* Closing, and the two requests of _ioctl.c, move no byte.
LEMMA OtherCallsStream ==
  ASSUME TypeOK, Passing, CloseCall \/ Close \/ SetTimeout \/ GetConnected
  PROVE  Passing' /\ UNCHANGED Stream!vars
<1>. prog \in Record /\ Rest
  BY TypeIs
<1>. USE DEF At, driver, device
<1>1. prog.msg = <<>> /\ prog.given = <<>>
  BY DEF CloseCall, Close, SetTimeout, GetConnected, Passing, Writing, Reading
<1>2. CASE CloseCall
  <2>1. PICK f \in Flags : Go("close", [Idle EXCEPT !.nonblock = f])
    BY <1>2 DEF CloseCall
  <2>. DEFINE r == [Idle EXCEPT !.nonblock = f]
  <2>2. r \in Record /\ r.msg = <<>> /\ r.given = <<>>
    BY DataAssumption, IdleIsRecord DEF Record, Idle
  <2>3. prog'.pc = "close" /\ prog'.msg = <<>> /\ prog'.given = <<>>
    BY <2>1, <2>2, Goes DEF Labels
  <2>4. Passing'
    BY <2>3 DEF Passing, Writing, Reading
  <2>. QED
    BY <1>1, <1>2, <2>3, <2>4, Quiet DEF CloseCall
<1>3. CASE Close \/ GetConnected
  <2>1. prog'.pc = "idle" /\ prog'.msg = <<>> /\ prog'.given = <<>>
    BY <1>3 DEF Close, GetConnected, Idle
  <2>2. Passing'
    BY <2>1 DEF Passing, Writing, Reading
  <2>. QED
    BY <1>1, <1>3, <2>1, <2>2, Quiet DEF Close, GetConnected
<1>4. CASE SetTimeout
  <2>1. prog' = prog /\ UNCHANGED ring /\ txfifo' = txfifo /\ rxfifo' = rxfifo
    BY <1>4 DEF SetTimeout
  <2>2. Passing'
    BY <2>1 DEF Passing, ring
  <2>. QED
    BY <2>1, <2>2, Quiet
<1>. QED
  BY <1>2, <1>3, <1>4

\* What the interrupt routine receives goes behind what is in the buffer: on
\* its way to the program, a byte only changes places.
LEMMA Received ==
  ASSUME TypeOK, Pieces, Passing, IsrRx, ~ RxFull, rxfifo # <<>>
  PROVE  Passing' /\ UNCHANGED Stream!vars
<1>. DEFINE b == Head(rxfifo)
            t == Tail(rxfifo)
            c == Content(rx_buf, rx_out, rx_in)
<1>. Rest
  BY TypeIs
<1>1. /\ rx_in \in Index /\ rx_out \in Index /\ rx_buf \in [Index -> Bytes]
      /\ rxfifo \in Seq(Bytes)
  BY DEF Rest
<1>2. /\ b \in Bytes /\ t \in Seq(Bytes) /\ Len(t) = Len(rxfifo) - 1
      /\ \A i \in 1 .. Len(t) : t[i] = rxfifo[i + 1]
  BY <1>1, HeadTailProperties
<1>3. /\ rx_buf' = [rx_buf EXCEPT ![rx_in] = b]
      /\ rx_in' = (rx_in + 1) % BufLen
      /\ rxfifo' = t
      /\ UNCHANGED <<tx_in, tx_out, tx_buf, rx_out, txfifo, prog>>
  BY DEF IsrRx
<1>. HIDE DEF b, t
<1>4. rx_buf' \in [Index -> Bytes]
  BY <1>1, <1>2, <1>3
<1>5. Fill(rx_out, rx_in) + 1 < BufLen
  BY <1>1, NotFull DEF RxFull
<1>6. /\ Place(rx_in, 1) = rx_in
      /\ \A i \in 1 .. Fill(rx_out, rx_in) : /\ Place(rx_out, i) \in Index
                                             /\ Place(rx_out, i) # rx_in
      /\ Fill(rx_out, (rx_in + 1) % BufLen) = Fill(rx_out, rx_in) + 1
  <2>1. rx_in \in 0 .. BufLen - 1 /\ BufLen \in Nat
    BY <1>1, Buf DEF Index
  <2>2. Place(rx_in, 1) = rx_in
    BY <2>1 DEF Place
  <2>3. /\ Fill(rx_out, (rx_in + 1) % BufLen) = Fill(rx_out, rx_in) + 1
        /\ \A i \in 1 .. Fill(rx_out, rx_in), k \in 1 .. 1 :
             Place(rx_out, i) # Place(rx_in, k)
    BY <1>1, <1>5, FillOn
  <2>. QED
    BY <1>1, <2>2, <2>3, ContentIs
<1>7. \A i \in 1 .. Fill(rx_out, rx_in) :
        rx_buf'[Place(rx_out, i)] = rx_buf[Place(rx_out, i)]
  BY <1>1, <1>3, <1>6
<1>8. <<b>> \in Seq(Bytes) /\ Len(<<b>>) = 1 /\ <<b>>[1] = b
  BY <1>2
<1>9. Content(rx_buf', rx_out', rx_in') = c \o <<b>>
  <2>1. \A k \in 1 .. Len(<<b>>) : rx_buf'[Place(rx_in, k)] = <<b>>[k]
    BY <1>1, <1>3, <1>6, <1>8
  <2>2. Fill(rx_out, rx_in) + Len(<<b>>) < BufLen
    BY <1>5, <1>8
  <2>3. Content(rx_buf', rx_out, (rx_in + Len(<<b>>)) % BufLen) = c \o <<b>>
    <3>1. /\ rx_out \in Index /\ rx_in \in Index /\ rx_buf \in [Index -> Bytes]
          /\ c = Content(rx_buf, rx_out, rx_in)
      BY <1>1
    <3>. DEFINE s == <<b>>
    <3>2. /\ s \in Seq(Bytes) /\ Fill(rx_out, rx_in) + Len(s) < BufLen
          /\ \A k \in 1 .. Len(s) : rx_buf'[Place(rx_in, k)] = s[k]
      BY <1>8, <2>1, <2>2
    <3>. HIDE DEF c, s
    <3>3. Content(rx_buf', rx_out, (rx_in + Len(s)) % BufLen) = c \o s
      BY <1>4, <1>7, <3>1, <3>2, Grown
    <3>. QED
      BY <3>3 DEF s
  <2>. QED
    BY <1>3, <1>8, <2>3
<1>10. c \in Seq(Bytes)
  BY <1>1, ContentIs
<1>. HIDE DEF c
<1>11. (c \o <<b>>) \o t = c \o rxfifo
  <2>1. (c \o <<b>>) \o t = c \o (<<b>> \o t)
    BY <1>2, <1>8, <1>10, ConcatAssociative
  <2>2. <<b>> \o t = rxfifo
    <3>1. /\ <<b>> \o t \in Seq(Bytes) /\ Len(<<b>> \o t) = 1 + Len(t)
          /\ \A i \in 1 .. 1 + Len(t) :
               (<<b>> \o t)[i] = IF i <= 1 THEN b ELSE t[i - 1]
      BY <1>2, <1>8, ConcatProperties
    <3>2. Len(rxfifo) \in Nat /\ Len(t) \in Nat /\ b = rxfifo[1]
      BY <1>1, <1>2, LenProperties DEF b
    <3>3. ASSUME NEW i \in 1 .. Len(rxfifo) PROVE (<<b>> \o t)[i] = rxfifo[i]
      <4>1. CASE i = 1
        BY <1>2, <3>1, <3>2, <4>1
      <4>2. CASE i # 1
        <5>1. i - 1 \in 1 .. Len(t) /\ i \in 1 .. 1 + Len(t) /\ ~ i <= 1
              /\ (i - 1) + 1 = i
          BY <1>2, <3>2, <4>2
        <5>. QED
          BY <1>2, <3>1, <5>1
      <4>. QED
        BY <4>1, <4>2
    <3>4. Len(<<b>> \o t) = Len(rxfifo)
      BY <1>2, <3>1, <3>2
    <3>. QED
      BY <1>1, <3>1, <3>3, <3>4, SeqEqual
  <2>. QED
    BY <2>1, <2>2
<1>12. UNCHANGED Stream!vars
  BY <1>3, <1>9, <1>11 DEF Stream!vars, c
<1>13. Passing'
  <2>1. /\ Fill(rx_out', rx_in') = Fill(rx_out, rx_in) + 1
        /\ Fill(rx_out, rx_in) \in Nat /\ prog.n \in Nat /\ BufLen \in Nat
        /\ prog.out \in Nat /\ rx_in \in Nat /\ Fill(rx_out, rx_in) < BufLen
    <3>1. prog.n \in Index /\ prog.out \in Index
      BY TypeIs DEF Record
    <3>2. Fill(rx_out, rx_in) \in Index
      BY <1>1, ContentIs
    <3>3. Fill(rx_out, rx_in) \in Nat /\ Fill(rx_out, rx_in) < BufLen
      BY <3>2, Buf DEF Index
    <3>. QED
      BY <1>1, <1>3, <1>6, <3>1, <3>3, Buf
  <2>2. ASSUME prog.pc \in {"rcopy", "rpublish"}
        PROVE  prog.out = rx_out' /\ prog.n <= Fill(rx_out', rx_in')
    BY <1>3, <2>1, <2>2 DEF Passing
  <2>3. ASSUME prog.pc = "rpublish", NEW i \in 1 .. prog.n
        PROVE  prog.data[i] = rx_buf'[prog.out + i - 1]
    <3>1. /\ prog.out + prog.n <= BufLen /\ prog.out = rx_out
          /\ prog.n <= Fill(rx_out, rx_in)
          /\ prog.data[i] = rx_buf[prog.out + i - 1]
      BY <2>3 DEF Pieces, Passing
    <3>2. i \in 1 .. Fill(rx_out, rx_in) /\ Place(rx_out, i) = prog.out + i - 1
      BY <2>1, <3>1 DEF Place
    <3>. QED
      BY <1>7, <3>1, <3>2
  <2>. QED
    BY <1>3, <2>2, <2>3 DEF Passing
<1>. QED
  BY <1>12, <1>13

\* What it sends was the first in the buffer.
LEMMA Sent ==
  ASSUME TypeOK, Pieces, Passing, IsrTx, isr.space > 0, tx_out # tx_in
  PROVE  Passing' /\ UNCHANGED Stream!vars
<1>. DEFINE b == tx_buf[tx_out]
            c == Content(tx_buf, tx_out, tx_in)
            s == Content(tx_buf, (tx_out + 1) % BufLen, tx_in)
            f == Fill(tx_out, tx_in)
<1>. Rest
  BY TypeIs
<1>1. /\ tx_in \in Index /\ tx_out \in Index /\ tx_buf \in [Index -> Bytes]
      /\ txfifo \in Seq(Bytes) /\ b \in Bytes
  BY DEF Rest
<1>2. /\ txfifo' = Append(txfifo, b) /\ tx_out' = (tx_out + 1) % BufLen
      /\ UNCHANGED <<tx_in, tx_buf, rx_in, rx_out, rx_buf, rxfifo, prog>>
  BY <1>1 DEF IsrTx, Rest
<1>3. /\ tx_in \in 0 .. BufLen - 1 /\ tx_out \in 0 .. BufLen - 1
      /\ BufLen \in Nat
  BY <1>1, Buf DEF Index
<1>4. f \in Nat /\ 1 \in 0 .. f /\ f >= 1
  BY <1>3 DEF Fill
<1>5. Place(tx_out, 1) = tx_out
  BY <1>3 DEF Place
<1>6. /\ c \in Seq(Bytes) /\ Len(c) = f
      /\ \A i \in 1 .. f : c[i] = tx_buf[Place(tx_out, i)]
  BY <1>1, ContentIs
<1>7. c[1] = b
  BY <1>4, <1>5, <1>6
<1>8. /\ s \in Seq(Bytes) /\ Len(s) = f - 1
      /\ \A i \in 1 .. Len(s) : s[i] = c[1 + i]
  BY <1>1, <1>4, Shrunk
<1>9. Fill((tx_out + 1) % BufLen, tx_in) = f - 1
  BY <1>1, <1>4, FillOff
<1>. HIDE DEF b, c, s, f
<1>10. Append(txfifo, b) \o s = txfifo \o c
  <2>. DEFINE x == Append(txfifo, b)
              l == Len(txfifo)
  <2>1. l \in Nat
    BY <1>1, LenProperties
  <2>2. /\ x \in Seq(Bytes) /\ Len(x) = l + 1
        /\ \A i \in 1 .. l + 1 : x[i] = IF i <= l THEN txfifo[i] ELSE b
    BY <1>1, AppendProperties
  <2>. HIDE DEF x
  <2>3. /\ x \o s \in Seq(Bytes) /\ Len(x \o s) = Len(x) + Len(s)
        /\ \A i \in 1 .. Len(x) + Len(s) :
             (x \o s)[i] = IF i <= Len(x) THEN x[i] ELSE s[i - Len(x)]
    BY <1>8, <2>2, ConcatProperties
  <2>4. /\ txfifo \o c \in Seq(Bytes) /\ Len(txfifo \o c) = l + Len(c)
        /\ \A i \in 1 .. l + Len(c) :
             (txfifo \o c)[i] = IF i <= l THEN txfifo[i] ELSE c[i - l]
    BY <1>1, <1>6, ConcatProperties
  <2>. HIDE DEF l
  <2>5. Len(x \o s) = l + f /\ Len(txfifo \o c) = l + f
    BY <1>4, <1>6, <1>8, <2>1, <2>2, <2>3, <2>4
  <2>6. ASSUME NEW i \in 1 .. l + f PROVE (x \o s)[i] = (txfifo \o c)[i]
    <3>1. /\ (x \o s)[i] = IF i <= l + 1 THEN x[i] ELSE s[i - (l + 1)]
          /\ (txfifo \o c)[i] = IF i <= l THEN txfifo[i] ELSE c[i - l]
      <4>1. Len(x) = l + 1 /\ Len(x) + Len(s) = l + f /\ l + Len(c) = l + f
        BY <1>4, <1>6, <1>8, <2>1, <2>2
      <4>2. (x \o s)[i] = IF i <= l + 1 THEN x[i] ELSE s[i - (l + 1)]
        BY <2>3, <4>1
      <4>3. (txfifo \o c)[i] = IF i <= l THEN txfifo[i] ELSE c[i - l]
        BY <2>4, <4>1
      <4>. QED
        BY <4>2, <4>3
    <3>2. CASE i <= l
      BY <2>1, <2>2, <3>1, <3>2
    <3>3. CASE i = l + 1
      <4>1. ~ i <= l /\ i - l = 1 /\ i \in 1 .. l + 1 /\ i <= l + 1
        BY <2>1, <3>3
      <4>. QED
        BY <1>7, <2>2, <3>1, <4>1
    <3>4. CASE ~ i <= l /\ i # l + 1
      <4>1. /\ ~ i <= l /\ ~ i <= l + 1 /\ i - (l + 1) \in 1 .. f - 1
            /\ 1 + (i - (l + 1)) = i - l
        BY <1>4, <2>1, <2>6, <3>4
      <4>. QED
        BY <1>8, <3>1, <4>1
    <3>. QED
      BY <3>2, <3>3, <3>4
  <2>7. x \o s = txfifo \o c
    BY <2>3, <2>4, <2>5, <2>6, SeqEqual
  <2>. QED
    BY <2>7 DEF x
<1>11. UNCHANGED Stream!vars
  BY <1>2, <1>10 DEF Stream!vars, c, s
<1>12. Passing'
  <2>1. prog.n \in Nat /\ BufLen \in Nat
    <3>1. prog.n \in Index
      BY TypeIs DEF Record
    <3>. QED
      BY <3>1, Buf
  <2>2. ASSUME prog.pc \in {"copy", "publish"}
        PROVE  Fill(tx_out', tx_in') + prog.n < BufLen
    <3>1. Fill(tx_out, tx_in) + prog.n < BufLen
      BY <2>2 DEF Passing
    <3>2. Fill(tx_out', tx_in') = f - 1
      BY <1>2, <1>9
    <3>. QED
      BY <1>4, <2>1, <3>1, <3>2 DEF f
  <2>. QED
    BY <1>2, <2>2 DEF Passing
<1>. QED
  BY <1>11, <1>12

\* The interrupt routine (_init.c).
LEMMA IsrStreams == ASSUME TypeOK, Pieces, Passing, Interrupt \/ Isr
                    PROVE  Passing' /\ UNCHANGED Stream!vars
<1>. USE DEF driver, device
<1>1. CASE IsrRx /\ ~ RxFull /\ rxfifo # <<>>
  BY <1>1, Received
<1>2. CASE IsrTx /\ isr.space > 0 /\ tx_out # tx_in
  BY <1>2, Sent
<1>3. CASE UNCHANGED <<ring, prog, txfifo, rxfifo>>
  <2>1. prog' = prog /\ UNCHANGED ring /\ txfifo' = txfifo /\ rxfifo' = rxfifo
    BY <1>3
  <2>2. Passing'
    BY <2>1 DEF Passing, ring
  <2>. QED
    BY <2>1, <2>2, Quiet
<1>4. Interrupt \/ IsrControl \/ IsrRxEnd
        => UNCHANGED <<ring, prog, txfifo, rxfifo>>
  BY DEF Interrupt, IsrControl, IsrRxEnd
<1>5. IsrRx => \/ ~ RxFull /\ rxfifo # <<>>
               \/ UNCHANGED <<ring, prog, txfifo, rxfifo>>
  BY DEF IsrRx
<1>6. IsrTx => \/ isr.space > 0 /\ tx_out # tx_in
               \/ UNCHANGED <<ring, prog, txfifo, rxfifo>>
  BY DEF IsrTx
<1>. QED
  BY <1>1, <1>2, <1>3, <1>4, <1>5, <1>6 DEF Isr

\* The alarm moves no byte; the host takes the first that was sent, and types
\* behind what it typed before.
LEMMA OutsideStreams ==
  ASSUME TypeOK, Pieces, Passing, Alarm \/ HostTake \/ HostType
  PROVE  Passing' /\ [Stream!Next]_(Stream!vars)
<1>. Rest
  BY TypeIs
<1>. USE DEF driver, device
<1>0. UNCHANGED <<ring, prog>>
  BY DEF Alarm, HostTake, HostType
<1>1. Passing'
  BY <1>0 DEF Passing, ring
<1>2. CASE Alarm
  <2>1. txfifo' = txfifo /\ rxfifo' = rxfifo
    BY <1>2 DEF Alarm
  <2>2. UNCHANGED ring /\ prog'.msg = prog.msg /\ prog'.given = prog.given
    BY <1>0
  <2>. QED
    BY <1>1, <2>1, <2>2, Quiet
<1>. DEFINE c == Content(tx_buf, tx_out, tx_in)
            d == Content(rx_buf, rx_out, rx_in)
<1>3. /\ c \in Seq(Bytes) /\ d \in Seq(Bytes)
      /\ txfifo \in Seq(Bytes) /\ rxfifo \in Seq(Bytes)
  BY ContentIs DEF Rest
<1>4. CASE HostTake
  <2>1. txfifo # <<>> /\ txfifo' = Tail(txfifo) /\ rxfifo' = rxfifo
    BY <1>4 DEF HostTake
  <2>. HIDE DEF c, d
  <2>2. txfifo \o c # <<>> /\ Tail(txfifo) \o c = Tail(txfifo \o c)
    <3>1. /\ Tail(txfifo) \in Seq(Bytes)
          /\ Len(Tail(txfifo)) = Len(txfifo) - 1
          /\ \A i \in 1 .. Len(Tail(txfifo)) : Tail(txfifo)[i] = txfifo[i + 1]
      BY <1>3, <2>1, HeadTailProperties
    <3>2. Len(txfifo) \in Nat /\ Len(txfifo) >= 1 /\ Len(c) \in Nat
      BY <1>3, <2>1, EmptySeq, LenProperties
    <3>. DEFINE x == txfifo \o c
    <3>3. /\ x \in Seq(Bytes) /\ Len(x) = Len(txfifo) + Len(c)
      BY <1>3, ConcatProperties
    <3>4. x # <<>>
      <4>1. Len(x) >= 1
        BY <3>2, <3>3
      <4>. QED
        BY <4>1, EmptySeq
    <3>5. Tail(x) = SubSeq(x, 2, Len(x))
      <4>. HIDE DEF x
      <4>. QED
        BY <3>3, <3>4, TailIsSubSeq
    <3>6. Tail(txfifo) \o c = SubSeq(txfifo \o c, 1 + 1, Len(txfifo \o c))
      <4>. DEFINE t == Tail(txfifo)
      <4>. HIDE DEF t
      <4>1. /\ t \in Seq(Bytes) /\ Len(t) = Len(txfifo) - 1
            /\ \A i \in 1 .. Len(t) : t[i] = txfifo[1 + i]
        <5>1. \A i \in Nat : i + 1 = 1 + i
          OBVIOUS
        <5>2. Len(t) \in Nat
          BY <3>1, LenProperties DEF t
        <5>. QED
          BY <3>1, <5>1, <5>2 DEF t
      <4>2. 1 \in 0 .. Len(txfifo)
        BY <3>2
      <4>3. t \o c = SubSeq(txfifo \o c, 1 + 1, Len(txfifo \o c))
        BY <1>3, <4>1, <4>2, RestOf
      <4>. QED
        BY <4>3 DEF t
    <3>. QED
      BY <3>4, <3>5, <3>6
  <2>3. Stream!Arrive
    BY <1>0, <2>1, <2>2 DEF Stream!Arrive, ring, c
  <2>. QED
    BY <1>1, <2>3 DEF Stream!Next
<1>5. CASE HostType
  <2>1. PICK b \in Typed : rxfifo' = Append(rxfifo, b)
    BY <1>5 DEF HostType
  <2>2. b \in Bytes /\ txfifo' = txfifo
    BY <1>5, DataAssumption DEF HostType
  <2>. DEFINE x == d \o rxfifo
              y == d \o Append(rxfifo, b)
  <2>. HIDE DEF c, d
  <2>3. /\ Append(rxfifo, b) \in Seq(Bytes)
        /\ Len(Append(rxfifo, b)) = Len(rxfifo) + 1
        /\ \A i \in 1 .. Len(rxfifo) : Append(rxfifo, b)[i] = rxfifo[i]
        /\ Len(rxfifo) \in Nat /\ Len(d) \in Nat
    BY <1>3, <2>2, AppendProperties, LenProperties
  <2>4. /\ x \in Seq(Bytes) /\ Len(x) = Len(d) + Len(rxfifo)
        /\ \A i \in 1 .. Len(d) + Len(rxfifo) :
             x[i] = IF i <= Len(d) THEN d[i] ELSE rxfifo[i - Len(d)]
    BY <1>3, ConcatProperties
  <2>. DEFINE a == Append(rxfifo, b)
  <2>5. /\ y \in Seq(Bytes) /\ Len(y) = Len(d) + Len(a)
        /\ \A i \in 1 .. Len(d) + Len(a) :
             y[i] = IF i <= Len(d) THEN d[i] ELSE a[i - Len(d)]
    <3>1. a \in Seq(Bytes)
      BY <2>3
    <3>. HIDE DEF a
    <3>2. /\ d \o a \in Seq(Bytes) /\ Len(d \o a) = Len(d) + Len(a)
          /\ \A i \in 1 .. Len(d) + Len(a) :
               (d \o a)[i] = IF i <= Len(d) THEN d[i] ELSE a[i - Len(d)]
      BY <1>3, <3>1, ConcatProperties
    <3>. QED
      BY <3>2 DEF a
  <2>. HIDE DEF x, y, a
  <2>6. /\ Len(a) = Len(rxfifo) + 1
        /\ \A i \in 1 .. Len(rxfifo) : a[i] = rxfifo[i]
    BY <2>3 DEF a
  <2>7. Len(y) = Len(x) + 1 /\ Len(x) \in Nat
    BY <2>3, <2>4, <2>5, <2>6
  <2>8. ASSUME NEW i \in 1 .. Len(x) PROVE x[i] = y[i]
    <3>1. CASE i <= Len(d)
      BY <2>3, <2>4, <2>5, <2>6, <3>1
    <3>2. CASE ~ i <= Len(d)
      <4>1. i - Len(d) \in 1 .. Len(rxfifo) /\ i \in 1 .. Len(d) + Len(a)
        BY <2>3, <2>4, <2>6, <3>2
      <4>. QED
        BY <2>4, <2>5, <2>6, <3>2, <4>1
    <3>. QED
      BY <3>1, <3>2
  <2>9. x = SubSeq(y, 1, Len(x))
    <3>1. y \o <<>> = y /\ <<>> \in Seq(Bytes)
      BY <2>5, ConcatEmptySeq, EmptySeq
    <3>2. x = SubSeq(y \o <<>>, 1, Len(x))
      BY <2>4, <2>5, <2>7, <2>8, <3>1, FirstOf
    <3>. QED
      BY <3>1, <3>2
  <2>10. y # <<>> /\ Len(x) = Len(y) - 1
    <3>1. Len(y) # 0
      BY <2>7
    <3>. QED
      BY <2>7, <3>1, EmptySeq
  <2>11. x = SubSeq(y, 1, Len(y) - 1)
    BY <2>9, <2>10
  <2>12. Stream!Type
    <3>1. /\ Content(rx_buf', rx_out', rx_in') \o rxfifo' = y
          /\ Content(rx_buf, rx_out, rx_in) \o rxfifo = x
      BY <1>0, <2>1 DEF ring, x, y, d
    <3>. QED
      BY <1>0, <2>2, <2>10, <2>11, <3>1 DEF Stream!Type, ring
  <2>. QED
    BY <1>1, <2>12 DEF Stream!Next
<1>. QED
  BY <1>1, <1>2, <1>4, <1>5

LEMMA InitStreams == Init => Passing /\ Stream!Init
<1>. SUFFICES ASSUME Init PROVE Passing /\ Stream!Init
  OBVIOUS
<1>1. prog.pc = "idle" /\ prog.msg = <<>> /\ prog.given = <<>>
  BY DEF Init, Idle
<1>2. Passing
  BY <1>1 DEF Passing
<1>3. TypeOK
  BY InitTyped
<1>4. /\ Content(tx_buf, tx_out, tx_in) \in Seq(Bytes)
      /\ Len(Content(tx_buf, tx_out, tx_in)) = Fill(tx_out, tx_in)
      /\ Content(rx_buf, rx_out, rx_in) \in Seq(Bytes)
      /\ Len(Content(rx_buf, rx_out, rx_in)) = Fill(rx_out, rx_in)
  BY <1>3, ContentIs DEF TypeOK
<1>5. Fill(tx_out, tx_in) = 0 /\ Fill(rx_out, rx_in) = 0
  BY DEF Init, Fill
<1>6. Content(tx_buf, tx_out, tx_in) = <<>> /\ Content(rx_buf, rx_out, rx_in) = <<>>
  BY <1>4, <1>5, EmptySeq
<1>7. txfifo = <<>> /\ rxfifo = <<>>
  BY DEF Init
<1>8. <<>> \o <<>> = <<>>
  OBVIOUS
<1>. QED
  BY <1>1, <1>2, <1>6, <1>7, <1>8 DEF Stream!Init

\* Whatever the interleaving of the program, the interrupt routine and the
\* host, every byte a write accepts reaches the host, once and in order, and
\* every byte the host types reaches a read, once and in order: the driver
\* implements the stream (_write.c, _read.c, _init.c).
THEOREM CarriesTheStream == Spec => ImplementsStream
<1>1. Init => Passing /\ Stream!Init
  BY InitStreams
<1>2. IInv /\ Passing /\ [Next]_vars => Passing' /\ [Stream!Next]_(Stream!vars)
  <2>. SUFFICES ASSUME IInv, Passing, [Next]_vars
                PROVE  Passing' /\ [Stream!Next]_(Stream!vars)
    OBVIOUS
  <2>. USE DEF IInv
  <2>1. CASE Next
    BY <2>1, WriteStreams, ReadStreams, OtherCallsStream, IsrStreams,
       OutsideStreams DEF Next, Program
  <2>2. CASE UNCHANGED vars
    <3>1. UNCHANGED ring /\ prog' = prog /\ txfifo' = txfifo /\ rxfifo' = rxfifo
      BY <2>2 DEF vars, device
    <3>2. Passing'
      BY <3>1 DEF Passing, ring
    <3>. QED
      BY <3>1, <3>2, Quiet
  <2>. QED
    BY <2>1, <2>2
<1>. QED
  BY <1>1, <1>2, Inductive, PTL DEF Spec, ImplementsStream, Stream!Spec
=============================================================================
