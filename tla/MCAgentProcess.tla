---------------------------- MODULE MCAgentProcess ----------------------------
(* Model values for AgentProcess. *)
EXTENDS AgentProcess, TLC

CONSTANTS d1, d2, p1, p2, p3

Symmetry == Permutations(Daemons) \cup Permutations(Processes)
=============================================================================
