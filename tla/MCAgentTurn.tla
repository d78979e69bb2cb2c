----------------------------- MODULE MCAgentTurn -----------------------------
(* Instance of AgentTurn. *)
EXTENDS AgentTurn
=============================================================================
