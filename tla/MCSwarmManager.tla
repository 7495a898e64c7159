--------------------------- MODULE MCSwarmManager ---------------------------
(* A small instance of SwarmManager for TLC: its bounds are numbers only.  *)
EXTENDS SwarmManager
=============================================================================
