--------------------------- MODULE MCReverseRoutes ---------------------------
(* Small instances of ReverseRoutes. *)
EXTENDS ReverseRoutes, TLC

CONSTANTS c1, c2, s1, s2, p1, i1, e1, o1, watcher

Symmetry == Permutations({c1, c2}) \cup Permutations({s1, s2})
=============================================================================
