----------------------------- MODULE MCAgentTurn ----------------------------
(* A small instance of AgentTurn for TLC: all three API families.          *)
EXTENDS AgentTurn

MCFamilies == {"chat-completions", "responses", "anthropic"}
=============================================================================
