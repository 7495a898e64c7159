-------------------------- MODULE MCHarnessRuntime --------------------------
(* A small instance of HarnessRuntime for TLC.                             *)
EXTENDS HarnessRuntime

CONSTANTS c1, c2, c3, i1, i2
MCCalls == {c1, c2, c3}
MCSessionIds == {i1, i2}
=============================================================================
