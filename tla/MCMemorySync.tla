--------------------------- MODULE MCMemorySync ---------------------------
(* A small instance of MemorySync for TLC.                                 *)
EXTENDS MemorySync, TLC

ClientSymmetry == Permutations(Clients)

\* The search stops at a state that is disturbed, behind which every property is
\* excused.  A fact may be forgotten between two of its versions, not after the
\* last.
SearchBound ==
    /\ Undisturbed
    /\ \A f \in Facts : content[f] = 0 => edits[f] < MaxVersion
=============================================================================
