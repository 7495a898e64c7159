----------------------------- MODULE WorkerPool -----------------------------
(***************************************************************************)
(* What the swarm scheduler promises, with no queue, counter or runner: a  *)
(* pool of Slots slots into which tasks are admitted in the order they     *)
(* were submitted, each at most once, and whose verdicts are final.        *)
(*                                                                         *)
(* One step may submit one task, free one slot and admit as many tasks as  *)
(* then fit: the scheduler does all three in one turn of the event loop.   *)
(***************************************************************************)
EXTENDS Naturals, FiniteSets

CONSTANTS
    MaxTasks,  \* tasks a session may submit
    Slots      \* workers that may run at once

VARIABLES
    state,  \* the verdict each task has so far
    busy    \* the tasks that hold a slot

poolVars == <<state, busy>>

PoolTasks == 1..MaxTasks
Verdicts == {"done", "failed", "killed"}

\* What can become of a task in one step, other than nothing.
Moves ==
    ({"none"} \X {"queued", "running", "failed"})
        \cup ({"queued"} \X {"running", "failed", "killed"})
        \cup ({"running"} \X Verdicts)

Moved(t) == state'[t] # state[t]
Admitted(t) == Moved(t) /\ state'[t] = "running"

PoolInit ==
    /\ state = [t \in PoolTasks |-> "none"]
    /\ busy = {}

\* A task is admitted only when nobody submitted before it still waits.
InOrder == \A t, u \in PoolTasks : Admitted(t) /\ u < t => state'[u] # "queued"

PoolStep ==
    /\ \A t \in PoolTasks : Moved(t) => <<state[t], state'[t]>> \in Moves
    /\ InOrder
    /\ \E freed \in {{}} \cup {{t} : t \in busy} :
          busy' = (busy \ freed) \cup {t \in PoolTasks : Admitted(t)}
    /\ Cardinality(busy') <= Slots

PoolSpec == PoolInit /\ [][PoolStep]_poolVars
=============================================================================
