-------------------------------- MODULE Mutex --------------------------------
(***************************************************************************)
(* What a lock promises: at most one live client holds it, it is taken     *)
(* only when no live client holds it, and a client that died holds nothing *)
(* and never comes back.                                                   *)
(***************************************************************************)
CONSTANT Clients

VARIABLES holder, dead

TypeOK == holder \in SUBSET Clients /\ dead \in SUBSET Clients

Init == holder = {} /\ dead = {}

Acquire(c) == c \notin dead /\ holder = {} /\ holder' = {c} /\ UNCHANGED dead
Release(c) == holder = {c} /\ holder' = {} /\ UNCHANGED dead
Die(c)     == c \notin dead /\ dead' = dead \cup {c} /\ holder' = holder \ {c}

Next == \E c \in Clients : Acquire(c) \/ Release(c) \/ Die(c)

Spec == Init /\ [][Next]_<<holder, dead>>
=============================================================================
