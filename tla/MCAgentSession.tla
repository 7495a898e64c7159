--------------------------- MODULE MCAgentSession ---------------------------
(* A small instance of AgentSession for TLC: one session, two routes.      *)
EXTENDS AgentSession

CONSTANTS s1, r1, r2
MCSessions == {s1}
MCRoutes == {r1, r2}
=============================================================================
