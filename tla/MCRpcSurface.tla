---------------------------- MODULE MCRpcSurface ----------------------------
(* A small instance of RpcSurface for TLC: the root and one branch.        *)
EXTENDS RpcSurface

CONSTANTS root, branch, r1, r2
MCSessions == {root, branch}
MCRoutes == {r1, r2}
=============================================================================
