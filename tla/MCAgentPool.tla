---------------------------- MODULE MCAgentPool ----------------------------
(* Instance of AgentPool for TLC. *)
EXTENDS AgentPool, TLC

Symmetry == Permutations(Proc) \cup Permutations(Rid) \cup Permutations(Agent)
=============================================================================
