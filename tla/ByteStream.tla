----------------------------- MODULE ByteStream -----------------------------
(***************************************************************************)
(* What a serial line promises to the program at its end: every byte that  *)
(* was accepted arrives, once and in order, and every byte that was typed  *)
(* is handed over, once and in order.  A write may accept fewer bytes than *)
(* it was asked for.                                                       *)
(***************************************************************************)
EXTENDS Naturals, Sequences

VARIABLES asked,     \* what the write under way has still to accept
          toHost,    \* accepted, not yet seen by the host
          fromHost,  \* typed by the host, not yet handed over
          given      \* what the read under way has handed over

vars == <<asked, toHost, fromHost, given>>

Init == /\ asked = <<>> /\ toHost = <<>>
        /\ fromHost = <<>> /\ given = <<>>

From(s, n) == SubSeq(s, n + 1, Len(s))

Ask == /\ asked = <<>>
       /\ UNCHANGED <<toHost, fromHost, given>>
Accept == /\ \E n \in 1 .. Len(asked) :
               /\ toHost' = toHost \o SubSeq(asked, 1, n)
               /\ asked' = From(asked, n)
          /\ UNCHANGED <<fromHost, given>>
Refuse == /\ asked' = <<>>
          /\ UNCHANGED <<toHost, fromHost, given>>
Arrive == /\ toHost # <<>>
          /\ toHost' = Tail(toHost)
          /\ UNCHANGED <<asked, fromHost, given>>
Type == /\ fromHost' # <<>>
        /\ fromHost = SubSeq(fromHost', 1, Len(fromHost') - 1)
        /\ UNCHANGED <<asked, toHost, given>>
Hand == /\ \E n \in 1 .. Len(fromHost) :
             /\ given' = given \o SubSeq(fromHost, 1, n)
             /\ fromHost' = From(fromHost, n)
        /\ UNCHANGED <<asked, toHost>>
Forget == /\ given' = <<>>
          /\ UNCHANGED <<asked, toHost, fromHost>>

Next == Ask \/ Accept \/ Refuse \/ Arrive \/ Type \/ Hand \/ Forget
Spec == Init /\ [][Next]_vars
=============================================================================
