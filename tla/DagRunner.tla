------------------------------ MODULE DagRunner ------------------------------
(***************************************************************************)
(* The DAG runner of src/src/orchestrator/dagRunner.ts (runDag): a plan of *)
(* nodes with dependencies, workers up to a cap, and a fan-in hook that    *)
(* may continue, abort, or ask for the cone of a node to be run again.     *)
(*                                                                         *)
(* Everything between two awaits is one action; the awaits are a worker    *)
(* and a hook.  A node that is run again while a hook of its former run is *)
(* still pending has several hook calls in flight.  Nodes are numbered in  *)
(* the order of plan.nodes, which is the order the pump starts them in.    *)
(***************************************************************************)
EXTENDS Naturals, FiniteSets

CONSTANTS
    N,           \* number of nodes of the plan
    Concurrency, \* maxConcurrency after clamping
    MaxReplans,  \* maxReplans after clamping
    Plans,       \* the dependencies plans may have
    HookAnswers  \* what hooks of this instance do; "throw" is a synchronous one

ASSUME NodesAssumption == N \in Nat \ {0}
ASSUME ConcurrencyAssumption == Concurrency \in Nat \ {0}
ASSUME ReplansAssumption == MaxReplans \in Nat
ASSUME PlansAssumption == Plans \subseteq [1..N -> SUBSET (1..N)]
ASSUME AnswersAssumption ==
    HookAnswers \subseteq {"continue", "reject", "replan", "abort", "throw"}

Nodes == 1..N
NodeState == {"pending", "ready", "running", "done", "failed", "skipped"}
Final == {"done", "failed", "skipped"}

VARIABLES
    deps,     \* the dependencies of the plan
    hooked,   \* an onNodeSettled hook was given
    state,    \* states
    left,     \* remainingDeps
    outputs,  \* the nodes with an output
    failed,   \* the failed list
    skipped,  \* the skipped list
    running,  \* workers in flight
    settled,  \* settledCount
    hooks,    \* hook calls in flight, per node
    replans,  \* replanCount
    aborted,  \* abortReason is set
    returned, \* settleLoop is resolved
    short     \* ghost: nodes started without the output of a dependency

planVars == <<deps, hooked>>
counters == <<running, settled, returned>>
vars == <<planVars, counters, state, left, outputs, failed, skipped, hooks,
          replans, aborted, short>>

-----------------------------------------------------------------------------
(* The plan.                                                               *)

\* The sets of nodes of ok that a walk over adj through ok from S does not leave.
Closed(S, adj, ok) ==
    {T \in SUBSET ok : S \cap ok \subseteq T /\ \A r \in T : adj[r] \cap ok \subseteq T}

\* The nodes such a walk reaches: the least of those sets.
Reach(S, adj, ok) == {m \in ok : \A T \in Closed(S, adj, ok) : m \in T}

\* validatePlan(): known dependencies and no cycle.  Ids are unique already.
ValidPlan(d) == \A n \in Nodes : n \notin Reach(d[n], d, Nodes)

Dependents == [n \in Nodes |-> {m \in Nodes : n \in deps[m]}]
Neighbours == [n \in Nodes |-> deps[n] \cup Dependents[n]]

InState(st, S) == {n \in Nodes : st[n] \in S}

-----------------------------------------------------------------------------
(* The parts of a handler.  Each takes the states it starts from.          *)

\* Mutant: a pump starts one node at most.
MutantBegunOne(st, run) ==
    {n \in Nodes : st[n] = "ready" /\ run < Concurrency /\ \A m \in 1..(n - 1) : st[m] /= "ready"}

\* Mutant: the pump looks at the cap only before its loop.
MutantBegun(st, run) == {n \in Nodes : st[n] = "ready" /\ run < Concurrency}

\* The ready nodes the pump starts, in plan order, while a slot is free.
Begun(st, run) ==
    {n \in Nodes :
        /\ st[n] = "ready"
        /\ run + Cardinality({m \in 1..(n - 1) : st[m] = "ready"}) < Concurrency}

\* Mutant: only the direct dependents of a failed node are skipped.
MutantSkipSubtree(n, st) == Dependents[n] \cap InState(st, {"pending"})

\* The failed node's pending dependents, and theirs, can never become ready.
SkipSubtree(n, st) == Reach(Dependents[n], Dependents, InState(st, {"pending"}))

\* pump(); maybeFinish().  After an abort all that never started is skipped.
PumpAndFinish(st, run, sett, out, isAborted, skip) ==
    LET late  == IF isAborted THEN InState(st, {"pending", "ready"}) ELSE {}
        begun == IF isAborted THEN {} ELSE Begun(st, run)
    IN /\ state' = [n \in Nodes |-> CASE n \in late  -> "skipped"
                                      [] n \in begun -> "running"
                                      [] OTHER       -> st[n]]
       /\ running' = run + Cardinality(begun)
       /\ settled' = sett + Cardinality(late)
       /\ skipped' = skip \cup late
       /\ short' = short \cup {n \in begun : ~ deps[n] \subseteq out}
       /\ returned' = (returned \/ (settled' = N /\ running' = 0))

\* Mutant: dependents that are not pending count down as well.
MutantUnblocked(n, st) == Dependents[n]

\* The dependents finish(true) counts down: those that still wait.
Unblocked(n, st) == Dependents[n] \cap InState(st, {"pending"})

LeftAfter(n, st) == [m \in Nodes |-> IF m \in Unblocked(n, st) THEN left[m] - 1 ELSE left[m]]

\* Mutant: a dependent becomes ready with the first dependency that settles.
MutantStateAfter(n, st) ==
    [m \in Nodes |-> IF m \in Unblocked(n, st) THEN "ready" ELSE st[m]]

StateAfter(n, st) ==
    [m \in Nodes |-> IF m \in Unblocked(n, st) /\ left[m] = 1 THEN "ready" ELSE st[m]]

-----------------------------------------------------------------------------
(* The run.                                                                *)

\* runDag() up to its first await: the roots are ready and the pump runs.
Init ==
    /\ deps \in {d \in Plans : ValidPlan(d)}
    /\ hooked \in BOOLEAN
    /\ LET first == [n \in Nodes |-> IF deps[n] = {} THEN "ready" ELSE "pending"]
           begun == Begun(first, 0)
       IN /\ state = [n \in Nodes |-> IF n \in begun THEN "running" ELSE first[n]]
          /\ running = Cardinality(begun)
    /\ left = [n \in Nodes |-> Cardinality(deps[n])]
    /\ outputs = {} /\ failed = {} /\ skipped = {} /\ short = {}
    /\ settled = 0
    /\ hooks = [n \in Nodes |-> 0]
    /\ replans = 0
    /\ aborted = FALSE
    /\ returned = FALSE

\* onSettled(): the books of node n, then the hook, or without one finish(true).
\* A hook that throws before it returns a promise leaves onSettled half way.
Settle(n, result) ==
    LET skip == IF result = "failed" THEN SkipSubtree(n, state) ELSE {}
        st   == [m \in Nodes |-> CASE m = n -> result [] m \in skip -> "skipped"
                                   [] OTHER -> state[m]]
        out  == IF result = "done" THEN outputs \cup {n} ELSE outputs
        sett == settled + 1 + Cardinality(skip)
    IN /\ state[n] = "running"
       /\ outputs' = out
       /\ failed' = IF result = "failed" THEN failed \cup {n} ELSE failed
       /\ \/ /\ ~ hooked
             /\ left' = LeftAfter(n, st)
             /\ PumpAndFinish(StateAfter(n, st), running - 1, sett, out, aborted, skipped \cup skip)
             /\ UNCHANGED hooks
          \/ /\ hooked
             /\ \/ hooks' = [hooks EXCEPT ![n] = @ + 1]
                \/ "throw" \in HookAnswers /\ UNCHANGED hooks
             /\ state' = st
             /\ skipped' = skipped \cup skip
             /\ running' = running - 1
             /\ settled' = sett
             /\ UNCHANGED <<left, returned, short>>
       /\ UNCHANGED <<planVars, replans, aborted>>

\* The answer of a hook that is not a replan the runner honours: finish(true).
Continue(n, answer) ==
    /\ hooks[n] > 0
    /\ answer = "replan" => (replans >= MaxReplans \/ aborted)
    /\ hooks' = [hooks EXCEPT ![n] = @ - 1]
    /\ aborted' = (aborted \/ answer = "abort")
    /\ left' = LeftAfter(n, state)
    /\ PumpAndFinish(StateAfter(n, state), running, settled, outputs, aborted', skipped)
    /\ UNCHANGED <<planVars, outputs, failed, replans>>

\* collect(): n and all it touches over either edge, running and skipped nodes
\* left out, and nothing at all when n itself runs or is skipped.
Cone(n) == Reach({n}, Neighbours, Nodes \ InState(state, {"running", "skipped"}))

\* The deps a node of the cone waits for: those that will settle anew.
WaitingOn(m, cone) == deps[m] \cap (cone \cup InState(state, {"running"}))

\* A replan: the cone is reset in two passes, then finish(false).
Replan(n) ==
    LET cone  == Cone(n)
        reset == cone \cap InState(state, {"done", "failed"})
        out   == outputs \ reset
        st    == [m \in Nodes |->
                    IF m \notin cone THEN state[m]
                    ELSE IF WaitingOn(m, cone) = {} THEN "ready" ELSE "pending"]
    IN /\ hooks[n] > 0
       /\ replans < MaxReplans /\ ~ aborted
       /\ hooks' = [hooks EXCEPT ![n] = @ - 1]
       /\ replans' = replans + 1
       /\ outputs' = out
       /\ failed' = failed \ reset
       /\ left' = [m \in Nodes |-> IF m \in cone THEN Cardinality(WaitingOn(m, cone)) ELSE left[m]]
       /\ PumpAndFinish(st, running, settled - Cardinality(reset), out, FALSE, skipped)
       /\ UNCHANGED <<planVars, aborted>>

HookAnswer(n) ==
    \/ \E a \in HookAnswers \ {"throw"} : Continue(n, a)
    \/ "replan" \in HookAnswers /\ Replan(n)

Next == \E n \in Nodes : Settle(n, "done") \/ Settle(n, "failed") \/ HookAnswer(n)

Spec == Init /\ [][Next]_vars

\* Workers and hooks are awaited promises; the properties that say a run ends
\* assume that each of them answers.
FairSpec ==
    /\ Spec
    /\ \A n \in Nodes : /\ WF_vars(Settle(n, "done") \/ Settle(n, "failed"))
                        /\ WF_vars(HookAnswer(n))

-----------------------------------------------------------------------------
(* Properties.                                                             *)

TypeOK ==
    /\ deps \in [Nodes -> SUBSET Nodes] /\ hooked \in BOOLEAN
    /\ state \in [Nodes -> NodeState]
    /\ left \in [Nodes -> 0..N]
    /\ outputs \subseteq Nodes /\ failed \subseteq Nodes
    /\ skipped \subseteq Nodes /\ short \subseteq Nodes
    /\ running \in 0..N /\ settled \in 0..N
    /\ hooks \in [Nodes -> 0..(MaxReplans + 1)]
    /\ replans \in 0..MaxReplans
    /\ aborted \in BOOLEAN /\ returned \in BOOLEAN

\* The counters the runner ends on and its three lists agree with the states
\* through every failure, replan and abort: a count that drifts by one makes
\* the run return early or never (the "bookkeeping invariant" of the source).
BooksAgree ==
    /\ settled = Cardinality(InState(state, Final))
    /\ running = Cardinality(InState(state, {"running"}))
    /\ running <= Concurrency
    /\ outputs = InState(state, {"done"})
    /\ failed = InState(state, {"failed"})
    /\ skipped = InState(state, {"skipped"})

\* While no replan was made a node starts only with the outputs of all its
\* dependencies, and it is skipped exactly because of one that failed or was
\* skipped (an abort skips the rest): failure is contained in its subtree.
InputsComplete ==
    replans = 0 =>
        /\ short = {}
        /\ \A n \in skipped : aborted \/ deps[n] \cap (failed \cup skipped) /= {}
        /\ \A n \in failed : Dependents[n] \subseteq skipped

\* A ready node waits for a free slot only: it never sits beside one, except
\* while a settled node's hook is out, whose answer runs the pump.
NoIdleSlot ==
    (InState(state, {"ready"}) /= {} /\ running < Concurrency)
        => \E n \in Nodes : hooks[n] > 0

\* A pending node waits for something that will come: one of its dependencies
\* has yet to settle, or a hook that will unblock it is out.
NoOrphanWait ==
    \A n \in InState(state, {"pending"}) :
        \E m \in deps[n] : state[m] \notin Final \/ hooks[m] > 0

\* "never hangs on a valid plan": if workers and hooks answer, the run returns.
RunEnds == <>returned

\* "Resolves once every node is done, failed, or skipped - never before": a run
\* that has returned has no node left to settle, and none comes back.
ReturnedIsSettled == returned => \A n \in Nodes : state[n] \in Final
=============================================================================
