# A TLA+ model of guru-dev

This directory models the core of the guru harness (`src/`): the engine session
and its compaction, the RPC surface over it, the agent turn with its tool loops,
the harness runtime's session table, the swarm scheduler, the DAG runner, the
memory sync with its lock, and the self-build development cycle. Each module is
translated from the source it names in its header; `PROJECT.json` gives the
lines of every definition, the runs, the mutants, the hazards and the theorems.

A session of the program is one Node process. JavaScript runs a handler to its end, so what
can go wrong lies **between two awaits**: every model makes the code between two
awaits one action and lets anything else happen at the await. Where continuations
are separated by microtasks only (a settled promise and its `finally`), no input
handler can run in between and they are one action. Two components outlive a
process: the memory sync, whose files several processes share, and the
development cycle, which resumes from its checkpoint. There a process may also
stop between any two steps.

## The system

| Component | State it keeps | Operations | What makes it correct |
|---|---|---|---|
| Engine session, `session/agentSession.ts` | transcript, one queue of steers and follow-ups, the running turn's abort controller, selected route, compaction flag | steer, followUp, discardPendingSteers, abort, switchRoute, prompt, driveTurn, promptDrainingFollowUps, compact | no accepted input lost, repeated or reordered; one turn at a time; the transcript forgets nothing through compaction |
| Compaction, `compaction/` | none between calls | findCutPoint, runCompaction, rebuildHistoryAfterCompaction | head and suffix kept, the folded region summarized with the previous summary |
| Agent turn, `model/agentTurn.ts`, `model/retryPolicy.ts` | conversation, tool budget, iteration, partial answer; attempts of the request, open stream | three family loops over request with retries, stream, response, tool calls | budgets, abort as hard boundary, complete conversations, no tool from half a stream, every steer delivered once, termination |
| RPC surface, `surfaces/rpc.ts`, `rpcSessionGraph.ts`, `operatorQuestionBroker.ts` | ordered chain, session graph with running marks, pending questions, end-of-input flag | one request per line, fork, switch, answer, end of input | input order of prompts and set_model, graph and engine agree, the mode always returns |
| Harness runtime, `runtime/session.ts`, `mcp/attach.ts` | table of live sessions with their MCP clients, closed flag | startSession, resumeSession, closeSession, close, executeTool | clients are closed exactly when nobody can reach them |
| Swarm scheduler, `swarm/manager.ts`, `taskShape.ts` | task records, queue, slot counter, abort controllers, runner | spawn, kill, complete, setRunner, the pump | slots, order, final verdicts, sibling isolation, evidence gate |
| DAG runner, `orchestrator/dagRunner.ts` | node states, dependency counters, running and settled counts, replan count | validatePlan, pump, settlement, skipSubtree, hook answers with replan and abort, the end of the run | counters and states agree, complete inputs, failure contained, the run returns once and when all is settled |
| Memory sync, `memory/sync.ts` | ledger file, pending checkpoint, intent files, lock files | syncUp: lock, load, replay to the operational store and to Honcho, publish; edits of facts | Honcho takes each version at most once whatever crashes; the ledger is true and never goes back; one sync at a time |
| Development cycle, `selfbuild/runDevCycle.ts`, `devCycle.ts`, `devCycleCheckpoint.ts` | stage, history, budgets, executor session; the checkpoint file | the stage loop, its saves, resume in each mode, SHIP, LEARN, the report | one delivery of what passed its gates; resuming buys nothing; every save is accepted; the cycle reports |

How they interact: a surface calls the engine session; `driveTurn` calls the
agent turn and gives it callbacks (`pullSteering`, `approveTool`, `executeTool`);
tools run in the runtime's session; `ask_question` waits in the question broker
until the surface answers; a swarm worker and a DAG node's worker are other
agent turns; a BUILD or DEBUG stage of the development cycle is one too. The
memory sync runs beside all of them, in any process that holds its lock.

The behaviours that are hard here are listed at their lines under "hazards" in
`PROJECT.json`. They fall into six kinds: state read before an await and used
after it (compaction's snapshot, fork's checks, `closed`); one queue or counter
drained in several places; failures of one of several steps (one follow-up of a
batch, one of two summaries, the record after the connect); waits on waits (end
of input, chain, turn, operator question); answers that come late or never
(Honcho, fan-in hooks, attempts of a request); and crashes between two writes
(ledger, intents, checkpoint).

All other directories of the repository are listed in `PROJECT.json`
"components" with the reason they are not modelled (yet).

## Modules

| Module | Models | Checked by | Proofs |
|---|---|---|---|
| `AgentSession` | the engine session and compaction, per session | `AgentSession`, `FollowUpKept` | `AgentSessionProofs` |
| `RpcSurface` | extends `AgentSession` with chain, graph, questions, end of input | `RpcSurface`, `RpcForkDuringTurn` | `RpcSurfaceProofs` |
| `AgentTurn` | one agent turn of any API family, with retries and streams | `AgentTurn` | `AgentTurnProofs` |
| `HarnessRuntime` | session table and MCP attachments | `HarnessRuntime`, `RuntimeClosed` | `HarnessRuntimeProofs` |
| `WorkerPool` | abstract: admission in order, final verdicts, slots | as a property of `SwarmManager` | |
| `SwarmManager` | the scheduler and its completion gate | `SwarmManager` | `SwarmManagerProofs` |
| `DagRunner` | one run of a plan with workers and fan-in hooks | `DagRunner`, `DagReturn` | `DagRunnerProofs` |
| `Mutex` | abstract: a lock whose holders may die | as a property of `MemorySync` | |
| `PublicationLock` | the lock files of the memory sync | inside `MemorySync` | in `MemorySyncProofs` |
| `MemorySync` | extends `PublicationLock` with ledger, sinks and syncs | `MemorySync` | `MemorySyncProofs` |
| `DevCycle` | one development cycle over stops and resumptions | `DevCycle` | `DevCycleProofs` |

An `MC...` module names the small sets of a component for TLC.

**AgentSession.** `steers` and `followUps` are the two kinds of items of
`steerQueue`: they are pushed to and removed from one array, but no operation
looks at their relative order. A message is a role and the set of inputs it
stands for (`covers`): a summary covers what it was made from. `turn` is
`currentAbort` (none, running, signal tripped). `NextFollowUp` is the end of one
driven turn and the start of the next, which only microtasks separate. The cut
point depends on token estimates; the model allows every cut the code's validity
test allows. When the kept suffix begins inside a turn, compaction asks for two
summaries (`SplitTurns`, `Before`, `Prefix`), and either may come back empty
(`Answered`). A region longer than 240,000 characters loses its middle before the
summarizer sees it: `Rendered` is every set of positions that may be left, and
`Summaries` what the new summary may then stand for. Ghost variables record what
was accepted (`input`), written (`told`), handed to the model (`steered`), run
(`ran`), discarded, failed, and folded without having been read or answered
(`unread`).

**RpcSurface.** `chain` is the promise chain of `prompt` and `set_model`,
`driving` the prompt it awaits, `runningTurns` is `sessionsWithRunningTurn`,
`forks` the fork requests that await their factory, `asking` the turns blocked
on an operator question. Immediate requests act on the session that is active at
that moment. Compaction of a parent marks its forks in flight (`folded`, ghost).

**AgentTurn.** The conversation is its last message (`tail`) and the number of
tool calls without a result (`unanswered`); notes are counts: queued (`steers`),
pulled and not sent (`carried`), sent. `req` is the request under way: the two
counters of `runWithRetryPolicy`, the failure the policy last saw, and what the
stream has brought. `Failures` are the kinds the policy and the loops tell
apart: an attempt that fails may be retried (`BackOff`, `Wake`), or its error
leaves the request (`RequestFails`), where the loop adapts to a rejected
parameter, answers with the partial text or throws. `FallBack` is the switch to
a request without a stream, which has a policy of its own. A stream brings
text, tool calls and the provider's mark that the response is whole; `Streamed`
is the response each family's reader makes of it, also when it breaks off. In the
responses family `completed` is what response.completed says of the text, which
decides whether the streamed text counts (`StreamedText`).
`Responses` are the shapes a response can take, including no content at all and
(anthropic) tool calls with another stop reason than `tool_use`.

**HarnessRuntime.** A start or resume call is at one of the `Stages`; the calls
of one run race each other, `closeSession` and `close`. The store may hold
sessions of an earlier process (`stored` is arbitrary at the start). An
attachment bears the name of the call that built it.

**SwarmManager.** `Pump` is the loop of `pump()` in one step: the items it
shifts, the live ones it starts, or with no runner the ones it fails. `Settle`
is a worker's then/catch/finally with the pump at its end. `complete()` may be
called for a task in any state, as in the code. The scheduler is shown to
implement `WorkerPool` (`ImplementsPool`, with `busy <- inFlight`).

**DagRunner.** Workers and hooks are the awaits. `left` is `remainingDeps`,
`hooks` counts the hook calls of a node that have not answered (a node that was
reset and ran again can have several), `short` is a ghost: the nodes started
without the output of a dependency. `Reach` is the cone a replan resets: the code
walks to it, the model says the least set that is `Closed` under the walk's step.

**MemorySync** extends `PublicationLock`: a client must hold the lock to take a
step of a sync. A fact is its version, which stands for its content hash; versions
that say the same (`says`) match in the operational store (`Matching`). A file
is the set of what it holds, so that a missing file is empty. `inserts` and `net`
are the writes to the operational store and to Honcho that are on their way:
they may arrive after the client gave up or died. `written` and `taken` are what
the sinks accepted. In the lock a dead owner's file stays for ever and its heir's
path is named after the dead owner's token, which here is the client. A walker
reads a lock file (`Read`) and looks its owner's process up in a later step
(`FollowDead`, `FindBusy`), which is how the code may come to have two holders:
`stale` are the walkers whose read file was released since, and `strayed` says
that one of them went on from it. The lock implements `Mutex` (`LockIsMutex`, with
`holder` the live holders) until then. `setback` says that the wall clock was set
back (`Load` may read any time). The properties of the sync speak of behaviours
that are `Undisturbed` by both, and the proofs of states up to the disturbance.

**DevCycle.** `mem` is what the process knows, `disk` the checkpoint file, which
`save()` replaces as a whole if the schema (`Valid`) accepts it: the history
replays to the stage, and neither it nor `resumeReruns` (`reruns`, its length) is
longer than its cap. `Stop` ends the process at any await, by a crash or a throw;
`Resume` and `Reopen` read the file and choose by its stage and state. Ghosts:
`passed` (gates passed since the code last changed), `edits` (sessions that could
change code), `shipped`, `facts`.

## Runs and bounds

| Run | Instance | Distinct states | Shows |
|---|---|---|---|
| AgentSession | 1 session, 2 routes, 4 inputs | 264,304 | nothing lost, repeated or reordered; one summary; a waiting follow-up is run |
| RpcSurface | root and 1 branch, 2 routes, 2 inputs | 119,954 | one turn in the graph, order of prompt and set_model, forks, end of input |
| SwarmManager | 4 tasks, 2 slots, 1 mandate change, complete() for task 1 | 38,746 | slots, order, isolation, gate, refinement of the pool |
| AgentTurn | 3 families, budget 2 (6 iterations), 1 retry and 1 extra, 2 calls per response, 2 notes | 335,438 | budgets, abort, complete requests, committed calls, notes, termination |
| HarnessRuntime | 3 calls on 2 ids | 196,536 | no orphaned clients, none closed under a live session |
| DagRunner | 4 nodes, 2 slots, 2 replans, 7 plan shapes | 38,530 | books, inputs, slots, containment of failure, the run ends |
| MemorySync | 2 clients, 1 fact, 2 versions, 2 clock readings, `SearchBound` | 1,161,322 | at most once, true checkpoints, intents, no regress, mutual exclusion |
| DevCycle | 3 attempts, 2 tokens, 7 stages per process, 2 stops, 2 reruns, 1 reopening | 779,184 | one delivery, budgets, current resume data, accepted saves, the report |
| RpcForkDuringTurn, FollowUpKept, RuntimeClosed, DagReturn | as above, DagReturn with 1 replan | | disagreements of code and comments, below |

Why these are enough: four inputs allow a steer, a prompt and two follow-ups in
one batch (the smallest batch with a rest to lose) and two compactions in a row;
sessions of the engine share nothing, so one is enough there and the graph
needs two. Two calls in one response with a budget of two exhaust it in the
middle of a round; one retry and one extra let each budget be used up before and
after the other. Three calls on two ids have two that race for one id and one
that does not. Four tasks on two slots make two wait, one of which is killed in
the queue. Four nodes hold each way two paths of a plan can meet, part or run
side by side, listed in order and against it, and a cycle that is refused; two
replans let a hook's answer go stale under a second one. Facts share nothing but
the lock and the files, of which each has an entry of its own, so one is enough
to be lost or sent twice; two clients let one die and the other recover, two
versions let an edit race a sync, two clock readings make ties and order. The
constraint `SearchBound` stops the search at a disturbed state, behind which
every property is excused, and where the last version of a fact is forgotten (the
first may be, and its successor written). With two clients nobody can be a second holder after a
stray, as one of them is dead: it takes a third (see below), and that nothing
else does is what the proofs add for any number. Three
attempts reach DEBUG twice, two stops interrupt the resumption of an
interruption, and seven stages per process make the guard run out before and
after SHIP; ten stages are exactly what a checkpoint must hold for three attempts
(with nine, saves are rejected). The proofs below remove the bounds for the properties they cover.
Bounds that are not constants of the code: `MaxInputs`, `MaxCalls`, `MaxSteers`,
`MaxMandate`, `Judged`, `Plans`, `MaxVersion`, `MaxTime`, `MaxStops`,
`MaxReopens`, that a stream marks its end once (`StreamEvent`), and in
`ReceiveSetModel` that one set_model waits behind each prompt. `GuardCap`,
`HistoryCap` and `RerunCap` are 100 in the code. `DagRunner` leaves out a hook that throws
before its first await (`HookAnswers` without `"throw"`): the exception skips the
pump and the run may never return. `CHECK_DEADLOCK FALSE` is set everywhere:
with the inputs used up and every turn ended the system is idle, which is no
fault. The symmetry of `MemorySync` is sound: clients are interchangeable and
all its properties are safety.

What the properties do not reach, although they pass: `ForkEndsAtUserMessage`
leaves out a fork whose parent was compacted during its await; `NotesDelivered`
asks nothing of a turn that throws at its iteration cap, which takes the notes of
its last drain with it; `InputsComplete` speaks of runs without a replan;
`EditsAreBudgeted` counts executor sessions and not the planner's own retries
inside one; `ResumeDataIsCurrent` takes it that a RED gate leaves its note, as
every gate of the code does; in `ShipsOnce` BUILD may change code but does not
deliver, as the command line gives it no git; `CycleReports` and `SavesAccepted`
hold while stops are no more than `RerunCap`; and where `TranscriptRemembersInputs` says
that an input is folded into the summary, it is one the summarizer was given at
least a part of, not one it is known to have kept.

Every property is broken by a mutant of a definition it depends on (a dropped
busy check, a missing `finally`, a missing recheck after an approval, an intent
written too late, ...); the mutants stand beside the definitions they change.

## Fairness

Weak fairness only, and only for what the host owes: a provider request ends
(its timeout bounds it), so a turn ends (`EndTurn`, `Work`); a session factory, a
store and a summarizer settle; settled promises run their continuations
(`DispatchPrompt`, `CloseMode`, `CallStep`); a swarm worker settles
(`workerTimeoutMs`); a node's worker and a fan-in hook answer (`DagRunner`, per
node); a stopped development cycle is resumed and its stages come back
(`DevCycle`). Nothing makes a stop, a crash, a clock or a late request happen.
`MemorySync` needs no fairness: all it promises is safety. No operator input is fair, with one exception: `AgentTurn`
assumes that an approval is answered. `RpcSurface` assumes no such thing of
operator questions, and `EndOfInputCloses` holds because end of input
closes them.

## Where code and comments disagree

Four runs end in a violation; each states what a comment or test says.

- `RpcForkDuringTurn`: a test says fork is blocked during turns. The check comes
  before the await of the factory, so a turn that starts meanwhile loses its
  place as the active session (`rpcSessionGraph.ts:128`, `:167`).
- `FollowUpKept`: an accepted follow-up is dropped when the turn of another one of
  its batch throws (`agentSession.ts:501`).
- `RuntimeClosed`: a session is registered in a closed runtime when close() runs
  while its start is being recorded (`runtime/session.ts:193`).
- `DagReturn`: a run returns while a hook is out whose late answer runs a node
  again (`dagRunner.ts:303`).

Seen while modelling, in the models, and not runs of their own: two clients hold
the publication lock when an owner releases its file and exits between a walker's
read of it (`memory/sync.ts:1024`) and its look at the process (`:1035`): the
walker takes the successor's path while the base path is free for a third, where
a test expects callers to be serialized through one successor
(`tests/memory/sync.test.ts:621`; `PublicationLock` without `strayed` finds it with
three clients in eleven steps); a wall clock that is set back lets an older
checkpoint with a later time win the merge (`memory/sync.ts:878`); an insert that
lands after its sync gave up is written to the operational store again
(`memory/sync.ts:291`), and a version that was never written there is checkpointed
as deduplicated when an older one says the same (`:560`); the middle of a folded
region beyond 240,000 characters reaches no summarizer
(`compaction/engine.ts:94`); text that was streamed is forgotten when
response.completed brings function calls and does not repeat it
(`model/agentTurn.ts:1262`); a cycle interrupted in gates more than a hundred
times can save no more, as `resumeReruns` has outgrown its cap
(`devCycleCheckpoint.ts:110`, `runDevCycle.ts:289`); an empty one of
the two summaries of a split turn passes the guard against empty summaries
(`compaction/engine.ts:186`); an empty anthropic response with a late note gives
two user messages in a row (`agentTurn.ts:826`); a timeout while the body of a
response is read is retried although timeouts are said to be terminal
(`agentTurn.ts:1512`, `retryPolicy.ts:65`); a half-written intent file stops its
fact's sync until someone removes it (`memory/sync.ts:425`); the configuration
admits a hundred attempts (`devCycle.ts:31`), a checkpoint holds a hundred
stages (`devCycleCheckpoint.ts:103`) and the guard of a hundred stages counts
anew in every process (`runDevCycle.ts:566`), so that a cycle of more than 33
attempts, resumed, can outgrow its own schema and then never report (`DevCycle`
shows it with the three limits scaled down, e.g. `HistoryCap = 9`; the default
of six attempts is safe); a fan-in hook that throws before it returns a promise
leaves its handler half way, so that the run may never return, where the comment
on hooks that reject says a broken hook must not wedge the scheduler
(`dagRunner.ts:295`, `:382`); a stream has an idle timeout but no end, so a
provider that never stops sending keeps a turn alive. Also seen, with no
document that says what should happen: a prompt whose turn throws stays in the
transcript without an answer (`agentSession.ts:489`); a steer drained into an
empty transcript becomes protected head (`sessionHistory.ts:21`); the summarizer
keeps the route of the constructor (`agentSession.ts:525`); RPC's abort leaves
steers queued (`rpc.ts:93`); a switch_session sent behind a prompt runs before
it (`rpc.ts:445`); closing one runtime resets the background tasks of all
(`runtime/session.ts:368`).

## Proofs

`tlapm` proves, for every value of the constants (assumptions: those named in
the modules, e.g. `DefaultRoute \in Routes`, `Concurrency \in Nat \ {0}`,
`None \notin Calls`):

- **AgentSessionProofs**: `TypeCorrect`; `FrozenUnderCompaction`;
  `InputsRemembered`; `SummaryIsOne`; `InputsUsedOnce`. The argument for the transcript: neither
  invariant of the pair `Remembers` is inductive alone. `FinishCompaction`
  replaces the transcript by one made of the *snapshot*, so it can only be shown
  to lose nothing if snapshot and transcript are still equal
  (`HistoryFrozenWhileCompacting`), which in turn needs that no turn runs. The
  data part is the lemma `CoveredRebuilt`: head, one summary of the positions it
  stands for, the skipped positions and the suffix cover what the transcript
  covered. `RenderedKeeps` and `SummariesFold` add that a summary, of one region
  or of two, elided or not, always stands for the previous summary unless both
  replies were empty; that there is only one to carry is `SummaryIsOne`, whose
  invariant speaks of the snapshot as well as of the transcript.
  For the order, each session's steers and follow-ups form two lines (what was
  used, what is being used, what waits); every step appends an input newer than
  all of a line, moves the border between its parts, or cuts elements out, and
  each of the three keeps a line increasing.
- **RpcSurfaceProofs**: `SurfaceInvariant`, `OneTurn`, `RouteInOrder`, the action
  property `ForksEndAtUserMessage`, and two theorems of the session lifted to the
  whole graph, `GraphRemembers` and `GraphUsesInputsOnce`. `StepKinds` says that a
  step of the surface is, for the engine, a step of `AgentSession`, the acceptance
  of a prompt, its dispatch, or a fork; the session lemmas then serve all but the
  last two. `Living` (no turn or compaction in a session that is not in the
  graph) is what lets a fork write its child's transcript, `ForksSound` (the
  message a fork is cut at stays in the parent unless compaction folds it) what
  it writes there, and `LinkedRoutes` carries the route along the chain.
- **HarnessRuntimeProofs**: `TypeCorrect`, `NothingOrphaned` and
  `LiveSessionsOpen`. The strengthening: an attachment that is being recorded is
  open and belongs to one call, a discarding call's attachment is closing, and a
  start's id is held by nobody else (`StartAlone`), which is why startSession may
  register without looking for a previous session.
- **SwarmManagerProofs**: `TypeCorrect`, `SlotsSafe`, `NoTaskBesideFreeSlot`,
  `Isolation`, `EvidenceGates`, `ImplementsWorkerPool`. The queue holds each
  task once and only tasks that are queued or killed; a running task is in
  flight. With that, the pump (`Shifted`) starts as many live tasks as slots are
  free and leaves a live one only when all are taken, so the counter is the
  cardinality of `inFlight`. The refinement splits an operation into what it
  does before the pump (a spawn, a settlement, a new runner: `Prepared`) and the
  pump (`PumpAdmits`): together they are one step of the pool (`PumpedPool`), a
  kill is one by itself (`QuietPool`), and the rest leaves the pool's view
  unchanged.
- **DagRunnerProofs**: `RunnerInvariant`, `TypeCorrect`, `BooksCorrect`,
  `InputsCorrect`, `ReturnsSettled`, `SlotsUsed`, `NothingForgotten`. The parts
  of the invariant are operators of the runner's data (`Books`, `Counted`,
  `HooksBounded`, `Contained`, `Orderly`), because a handler changes the books
  before it calls the pump: they are shown of what it hands over, and one lemma
  (`PumpStep`) carries them through the pump for all three handlers. `Counted`
  (what waits has something to count down) and `Contained` (before a replan,
  what waits has at most as much left as dependencies unmet) give complete
  inputs and the containment of a failure; `Orderly` is the converse bound, that
  no node waits for more than will come. A replan re-counts the cone it resets
  (`ConeFacts`, `ReplanFacts`). `SlotsUsed` and `NothingForgotten` assume that
  no hook throws before it returns a promise (`"throw" \notin HookAnswers`):
  after such a throw the pump is skipped, and both are false. An async function
  never throws so; the hook's type admits a plain one, too. `ReturnsSettled` is
  what is left of the claim `DagReturn` refutes: it holds of runs without a
  replan.
- **AgentTurnProofs**: `TypeCorrect`, `AttemptsCorrect`, `BudgetCorrect`,
  `RequestsComplete`, `NotesCorrect`, `AnswerCorrect`, and the action properties
  `AbortCorrect` and `CommittedCorrect`. The invariant: outside the round of calls
  every call has its result, a call that waits for approval has room in the
  budget (`LoopInv`: otherwise a tool could run on an exhausted one), notes pulled
  and not sent exist at the loop head only, where no abort can come, and the
  responses family has calls only in a whole response.
- **MemorySyncProofs**: `LockInvCorrect`, `LockIsMutexCorrect` (the lock alone
  implements `Mutex`), `SyncLockInv` and `SyncIsMutual` (so does the composition),
  `HonchoTakesOnceCorrect`, `CheckpointsAreTrueCorrect`, `IntentCoversCorrect`,
  `LedgerNeverRegressesCorrect`. `LockInv` is inductive until somebody strays: what
  a walker has read is still there unless it was released, so a step to the
  successor of a dead owner that is no stray ends at a path whose dead owner's
  file is there. That two live clients are
  never inside is then a count: every lock file but the base one is named after a
  dead owner of another file, so there is at most one file more than there are
  files of dead owners. The theorems about the sync are of the form
  `Undisturbed => ...`, since `strayed` and `setback` never become false again. `WorldInv` says what holds of the disk and the sinks whoever
  died where, above all that what was sent of a fact's present version has its
  intent or its checkpoint; `JobInv` relates the locals of the one sync that runs
  to them, which needs the lock.
- **DevCycleProofs**: `TypeCorrect`, `ShipsOnceCorrect`, `EditsAreBudgetedCorrect`,
  `ResumeDataCorrect`, `SavesAcceptedCorrect`. While the process runs the file names the stage the process
  is at (`InSync`), so that what holds of the stage before a stop holds of the
  stage after it; `Behind` are the gates that stand before a stage. That saves are
  accepted has two halves: the history in memory replays to the stage (`Replays`),
  which every push keeps because the loop moves by the same reducer the schema
  replays; and it is short enough (`Fits`): an attempt adds at most three stages,
  `Room` says how many of them are behind, and after the last attempt the budget
  lets no other stage in. The theorem assumes `HistoryFits`, 3 * MaxIterations + 1
  <= HistoryCap, and the bound is exact (see above); and `RerunsFit`, MaxStops <=
  RerunCap: each entry of `resumeReruns` is of a stop of its own (`RerunInv`).

Every safety property a passing run checks is stated by a theorem. Model-checked
only is liveness (`FollowUpEventuallyRuns`, `EndOfInputCloses`, `QueuedIsServed`,
`TurnEnds`, `NothingLeaks`, `RunEnds`, `CycleReports`): fairness and ENABLED are out
of the prover's reach. Induction over recursive definitions is as well, which is
why `Reach` and `Bound` are stated without recursion; no module here has a
RECURSIVE operator. The four claims that fail are shown by runs alone.

## Not modelled

Formatting, JSONL framing, SSE parsing, HTTP and process I/O, the length of a
backoff, token estimates (any cut), the text of messages, usage counters, suits,
UI, and the directories listed as `not_modelled`. `executeTool` is an outcome.
Approval decisions are a choice. Of the memory sync: typed loadouts, the secret
gate, legacy orphan files and malformed ledgers. Of the development cycle: the
work inside a stage, whose verdict is a choice, and limits on the lengths of
texts. Most of the repository is adapters, rendering, catalogs and text
processing, which keep no state across steps; the map therefore covers the
control that is at stake and a small share of all lines.

## Plan

1. Done: the modules, runs and proofs above.
2. Next: `BackgroundTasks` (`tools/builtins/backgroundTaskRegistry.ts`: line
   buffers, kill against exit, reset by `close()` of any runtime); `ClaimLease`
   (`fleet/workItemClaimLease.ts`: expiry and takeover against a late holder);
   the stdio JSON-RPC client of MCP and LSP (answers matched to requests,
   timeouts, a dying server). Candidates after these: the apply queue and
   `workspace/stepCheckpointStore.ts`, `session/auditEventRingBuffer.ts`, the
   conversation store.
3. Prove more: the safety properties of the modules of step 2; what remains true
   of the four refuted claims (as `ReturnsSettled` does for `DagReturn`): a turn's
   session stays active while no fork is in flight, a follow-up is lost only by a
   turn that throws.
