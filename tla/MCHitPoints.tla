---------------------------- MODULE MCHitPoints ----------------------------
(***************************************************************************)
(* hp.sv with short bars.  A full bar of 5 outlives every single blow but  *)
(* not two of the hard ones; the moves are ordered by damage as in the     *)
(* source (jump, kick, fight), and blows that leave something, that take   *)
(* exactly the rest and that take more than the rest all occur.            *)
(***************************************************************************)
EXTENDS HitPoints

MCHard == [kick |-> 3, fight |-> 2, jump |-> 4]
MCSoft == [kick |-> 2, fight |-> 1, jump |-> 2]
=============================================================================
