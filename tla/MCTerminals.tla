----------------------------- MODULE MCTerminals -----------------------------
(* Small instances of Terminals. *)
EXTENDS Terminals, TLC

CONSTANTS o1, o2, o3, t1, t2, s1, s2
=============================================================================
