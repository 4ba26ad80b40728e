--------------------------- MODULE MCAgentContext ---------------------------
(* Two sessions, which nothing tells apart. *)
EXTENDS AgentContext, TLC
SessionSymmetry == Permutations(Sessions)
=============================================================================
