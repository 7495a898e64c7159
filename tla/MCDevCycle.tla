----------------------------- MODULE MCDevCycle -----------------------------
(***************************************************************************)
(* A small instance of DevCycle for TLC: three attempts, a token budget    *)
(* and a guard that end some cycles first, two stops and one reopening.    *)
(***************************************************************************)
EXTENDS DevCycle
=============================================================================
