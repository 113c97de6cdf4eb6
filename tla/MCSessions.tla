----------------------------- MODULE MCSessions -----------------------------
(* Two requests, two paths, two directories and two copies of the session.  *)
EXTENDS Sessions, TLC

CONSTANTS p1, p2, d1, d2, r1, r2

MCDistinct == d1 :> 1 @@ d2 :> 2
MCReused == d1 :> 1 @@ d2 :> 1
MCCopies == {1, 2}

Symmetry == {q @@ s: q \in Permutations(Requests), s \in Permutations(Paths)}
=============================================================================
