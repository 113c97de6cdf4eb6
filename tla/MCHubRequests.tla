---------------------------- MODULE MCHubRequests ----------------------------
(* Small instances of HubRequests. *)
EXTENDS HubRequests, TLC

CONSTANTS c1, c2, r1, r2, r3, k1, k2, watcher

Symmetry == Permutations({c1, c2}) \cup Permutations({r1, r2, r3})
=============================================================================
