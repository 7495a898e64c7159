---------------------------- MODULE SwarmManager ----------------------------
(***************************************************************************)
(* The swarm scheduler of src/src/swarm/manager.ts (createSwarmManager):   *)
(* spawn, kill, complete, setRunner and the pump that starts queued        *)
(* workers, with the completion gate of taskShape.ts.                      *)
(*                                                                         *)
(* Every handler runs to its end; the only asynchronous thing is a worker  *)
(* itself, whose then/catch/finally chain runs without an input handler in *)
(* between and is one action.  Tasks are numbered in the order of their    *)
(* spawns.  A spawn past maxSpawnDepth or past the cap throws before       *)
(* anything changes and is no step.                                        *)
(***************************************************************************)
EXTENDS Naturals, Sequences, FiniteSets

CONSTANTS
    MaxTasks,     \* config.maxTasksPerSession
    Concurrency,  \* effectiveConcurrency()
    MaxMandate,   \* bound: how often the operator changes the mandate
    Judged        \* bound: the tasks complete() is called for

ASSUME TasksAssumption == MaxTasks \in Nat
ASSUME ConcurrencyAssumption == Concurrency \in Nat \ {0}
ASSUME MandateAssumption == MaxMandate \in Nat

Tasks == 1..MaxTasks
Mandates == 0..MaxMandate
States == {"none", "queued", "running", "done", "failed", "killed"}

\* Completion evidence as evaluateCompletion() judges it against the shape of
\* its task, which never changes: none, short (of the other shape, or a ship's
\* with neither verification notes nor an operator skip) or sufficient.
Evidence == {"none", "short", "sufficient"}

VARIABLES
    state,       \* record.state, "none" before the spawn
    evidence,    \* record.completion
    incomplete,  \* record.incompleteReason is set
    queue,       \* queue: task and the mandate snapshot of its spawn
    running,     \* the counter of occupied slots
    inFlight,    \* tasks with a worker promise and an abort controller
    aborted,     \* tasks whose controller was aborted
    bound,       \* a runner is bound
    spawned,     \* spawnedTotal
    mandate,     \* the parent's mandate, read by the snapshot provider
    atSpawn,     \* ghost: the mandate when the task was spawned
    given        \* ghost: the snapshot handed to the runner

recordVars == <<evidence, incomplete>>
pumpVars == <<state, queue, running, inFlight, given>>
vars == <<pumpVars, recordVars, aborted, bound, spawned, mandate, atSpawn>>

QueueItem == [task : Tasks, snapshot : Mandates]

Init ==
    /\ state = [t \in Tasks |-> "none"]
    /\ evidence = [t \in Tasks |-> "none"]
    /\ incomplete = [t \in Tasks |-> FALSE]
    /\ queue = <<>>
    /\ running = 0
    /\ inFlight = {}
    /\ aborted = {}
    /\ bound = FALSE
    /\ spawned = 0
    /\ mandate = 0
    /\ atSpawn = [t \in Tasks |-> 0]
    /\ given = [t \in Tasks |-> 0]

-----------------------------------------------------------------------------
(* pump().                                                                 *)

\* The tasks among the first k queue items that were not killed while queued.
Live(q, st, k) == {q[i].task : i \in {j \in 1..k : st[q[j].task] # "killed"}}

\* How many items the loop shifts when n slots are free: it stops as soon as
\* the live ones among them fill the slots, or at the end of the queue.
Shifted(q, st, n) ==
    CHOOSE k \in 0..Len(q) :
        /\ \A j \in 0..k - 1 : Cardinality(Live(q, st, j)) < n
        /\ k < Len(q) => Cardinality(Live(q, st, k)) >= n

Dropped(q, k) == SubSeq(q, k + 1, Len(q))

\* Mutant: the worker is handed the mandate of the moment it starts.
MutantSnapshotOf(q, k, t) == mandate
SnapshotOf(q, k, t) == q[CHOOSE i \in 1..k : q[i].task = t].snapshot

\* With a runner bound, the shifted live tasks start.
StartQueued(q, st, run, fl) ==
    LET k == Shifted(q, st, Concurrency - run)
        started == Live(q, st, k)
    IN  /\ queue' = Dropped(q, k)
        /\ state' = [t \in Tasks |-> IF t \in started THEN "running" ELSE st[t]]
        /\ running' = run + Cardinality(started)
        /\ inFlight' = fl \cup started
        /\ given' = [t \in Tasks |->
                        IF t \in started THEN SnapshotOf(q, k, t) ELSE given[t]]

\* Without one, every queued task fails, provided a slot is free.
FailQueued(q, st, run, fl) ==
    LET k == IF run < Concurrency THEN Len(q) ELSE 0
    IN  /\ queue' = Dropped(q, k)
        /\ state' = [t \in Tasks |-> IF t \in Live(q, st, k) THEN "failed" ELSE st[t]]
        /\ running' = run
        /\ inFlight' = fl
        /\ UNCHANGED given

Pump(q, st, run, fl, haveRunner) ==
    IF haveRunner THEN StartQueued(q, st, run, fl) ELSE FailQueued(q, st, run, fl)

-----------------------------------------------------------------------------
(* Operations.                                                             *)

\* Mutant: spawn() only queues, and nothing pumps until a worker settles.
MutantSpawn ==
    /\ spawned < MaxTasks
    /\ spawned' = spawned + 1
    /\ atSpawn' = [atSpawn EXCEPT ![spawned'] = mandate]
    /\ queue' = Append(queue, [task |-> spawned', snapshot |-> mandate])
    /\ state' = [state EXCEPT ![spawned'] = "queued"]
    /\ UNCHANGED <<running, inFlight, given, evidence, incomplete, aborted,
                   bound, mandate>>

Spawn ==
    /\ spawned < MaxTasks
    /\ spawned' = spawned + 1
    /\ atSpawn' = [atSpawn EXCEPT ![spawned'] = mandate]
    /\ Pump(Append(queue, [task |-> spawned', snapshot |-> mandate]),
            [state EXCEPT ![spawned'] = "queued"], running, inFlight, bound)
    /\ UNCHANGED <<evidence, incomplete, aborted, bound, mandate>>

\* setRunner(): the live session binds or unbinds its turn runner.
SetRunner(b) ==
    /\ bound' = b
    /\ Pump(queue, state, running, inFlight, b)
    /\ UNCHANGED <<recordVars, aborted, spawned, mandate, atSpawn>>

\* kill(): mark and detach.  A queued task stays in the queue, a running one
\* keeps its slot until its promise settles.
Kill(t) ==
    /\ state[t] \in {"queued", "running"}
    /\ state' = [state EXCEPT ![t] = "killed"]
    /\ aborted' = IF t \in inFlight THEN aborted \cup {t} ELSE aborted
    /\ UNCHANGED <<queue, running, inFlight, given, recordVars, bound, spawned,
                   mandate, atSpawn>>

\* evaluateCompletion(): fail closed.
Satisfied(e) == e = "sufficient"

\* Mutant: the completion gate is evaluated by complete() only.
MutantGate(t) == incomplete[t]
\* What incompleteReason becomes when the worker of t has returned.
Gate(t) == ~Satisfied(evidence[t])

\* complete(): of a task in any state.
Complete(t, e) ==
    /\ state[t] # "none"
    /\ evidence' = [evidence EXCEPT ![t] = e]
    /\ incomplete' = [incomplete EXCEPT ![t] = ~Satisfied(e)]
    /\ UNCHANGED <<pumpVars, aborted, bound, spawned, mandate, atSpawn>>

\* Mutant: the killed check of .then/.catch is missing.
MutantVerdict(t, v) == v
\* .then and .catch: the result of a killed worker is discarded.
Verdict(t, v) == IF state[t] = "killed" THEN "killed" ELSE v

\* The worker's promise settles: then or catch, finally, and the pump.
Settle(t, v) ==
    /\ t \in inFlight
    /\ incomplete' = IF v = "done" /\ state[t] # "killed"
                     THEN [incomplete EXCEPT ![t] = Gate(t)] ELSE incomplete
    /\ Pump(queue, [state EXCEPT ![t] = Verdict(t, v)], running - 1,
            inFlight \ {t}, bound)
    /\ UNCHANGED <<evidence, aborted, bound, spawned, mandate, atSpawn>>

\* The operator changes the parent's mandate: the value the snapshot provider
\* returns at the next spawn is another one.  It is opaque to the manager.
ChangeMandate ==
    /\ mandate < MaxMandate
    /\ mandate' = mandate + 1
    /\ UNCHANGED <<pumpVars, recordVars, aborted, bound, spawned, atSpawn>>

Next ==
    \/ Spawn
    \/ \E b \in BOOLEAN : SetRunner(b)
    \/ \E t \in Tasks :
          \/ Kill(t)
          \/ t \in Judged /\ \E e \in Evidence \ {"none"} : Complete(t, e)
          \/ \E v \in {"done", "failed"} : Settle(t, v)
    \/ ChangeMandate

Spec == Init /\ [][Next]_vars

\* A worker settles: its turn is bounded by a timeout and a tool-call budget.
FairSpec ==
    Spec /\ \A t \in Tasks : WF_vars(\E v \in {"done", "failed"} : Settle(t, v))

-----------------------------------------------------------------------------
(* Properties.                                                             *)

TypeOK ==
    /\ state \in [Tasks -> States]
    /\ evidence \in [Tasks -> Evidence]
    /\ incomplete \in [Tasks -> BOOLEAN]
    /\ queue \in Seq(QueueItem)
    /\ running \in Nat
    /\ inFlight \subseteq Tasks
    /\ aborted \subseteq Tasks
    /\ bound \in BOOLEAN
    /\ spawned \in 0..MaxTasks
    /\ mandate \in Mandates
    /\ atSpawn \in [Tasks -> Mandates]
    /\ given \in [Tasks -> Mandates]

\* The counter is the number of workers really in flight, never above the
\* effective concurrency: kills, failures and settlements in any order neither
\* leak a slot nor hand one out twice.
SlotsAccounted ==
    running = Cardinality(inFlight) /\ running <= Concurrency

\* No task waits while a slot is free, whatever sequence of spawns, kills,
\* settlements and runner changes led here.
NoIdleSlot ==
    (\E i \in DOMAIN queue : state[queue[i].task] = "queued") => running = Concurrency

\* A worker acts under the mandate of the moment it was spawned, however long
\* it was queued and however often the operator changed the mandate meanwhile.
SiblingIsolation == \A t \in inFlight : given[t] = atSpawn[t]

\* A worker that is done and not marked incomplete has evidence of its own
\* shape, whether complete() came before or after the worker returned.
DoneNeedsEvidence ==
    \A t \in Tasks :
        state[t] = "done" /\ ~incomplete[t] => Satisfied(evidence[t])

\* The scheduler implements the pool: order of admission, final verdicts and
\* slots that only a settled worker gives back.
Pool == INSTANCE WorkerPool WITH Slots <- Concurrency, busy <- inFlight
ImplementsPool == Pool!PoolSpec

\* A queued worker does not wait for ever.
QueuedIsServed ==
    \A t \in Tasks : state[t] = "queued" ~> state[t] # "queued"
=============================================================================
