---------------------------- MODULE MCDagRunner ----------------------------
(***************************************************************************)
(* Small instances of DagRunner for TLC: one plan on four nodes of each    *)
(* shape, among them one whose nodes are listed against their order and    *)
(* one with a cycle, which validatePlan() refuses and which is never run.  *)
(***************************************************************************)
EXTENDS DagRunner

Diamond  == <<{}, {1}, {1}, {2, 3}>>
Reversed == <<{2, 3}, {4}, {4}, {}>>
Shortcut == <<{}, {1}, {1, 2}, {2, 3}>>
Join     == <<{}, {}, {}, {1, 2, 3}>>
Zigzag   == <<{}, {}, {1, 2}, {2}>>
Chains   == <<{}, {}, {1}, {2}>>
Cyclic   == <<{}, {3}, {2}, {1}>>
MCPlans  == {Diamond, Reversed, Shortcut, Join, Zigzag, Chains, Cyclic}
=============================================================================
