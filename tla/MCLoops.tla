------------------------------- MODULE MCLoops -------------------------------
(* Small instances of Loops. *)
EXTENDS Loops, TLC

CONSTANTS j1, j2, j3, s1, s2

MCSessionOf == [j \in Jobs |-> IF j = j3 THEN s2 ELSE s1]
=============================================================================
