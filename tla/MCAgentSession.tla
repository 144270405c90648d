--------------------------- MODULE MCAgentSession ---------------------------
(* Instance of AgentSession for TLC: one player, two or three connections. *)
EXTENDS AgentSession
=============================================================================
