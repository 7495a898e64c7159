------------------------------ MODULE DevCycle ------------------------------
(***************************************************************************)
(* One self-build development cycle (runDevCycle) of                       *)
(* src/src/selfbuild/runDevCycle.ts with its checkpoint file               *)
(* (devCycleCheckpoint.ts), the stage reducer and the budget (devCycle.ts),*)
(* across crashes of the process and resumptions from the file.            *)
(*                                                                         *)
(* mem is what the process knows and disk the checkpoint, which save()     *)
(* replaces as a whole (fsync, then rename).  A crash between any two      *)
(* steps loses mem; a stage or a save that throws ends the process the     *)
(* same way.  The stages are the default ones.                             *)
(***************************************************************************)
EXTENDS Naturals, Sequences

CONSTANTS
    MaxIterations, \* budget.maxIterations
    TokenBudget,   \* budget.tokenBudget, in calls that cost one
    GuardCap,      \* stages one process runs at most (100 in the code)
    HistoryCap,    \* completedStages a checkpoint holds at most (100)
    RerunCap,      \* resumeReruns a checkpoint holds at most (100)
    MaxStops,      \* bound: times the process stops before it reports
    MaxReopens,    \* bound: times a reported cycle is resumed again
    None           \* no checkpoint yet

ASSUME IterationsAssumption == MaxIterations \in Nat \ {0}
ASSUME TokensAssumption == TokenBudget \in Nat \ {0}
ASSUME CapsAssumption ==
    GuardCap \in Nat /\ HistoryCap \in Nat /\ RerunCap \in Nat
ASSUME StopsAssumption == MaxStops \in Nat /\ MaxReopens \in Nat

Work == {"select", "build", "test", "smoke", "debug", "review", "ship", "learn"}
Gates == {"test", "smoke", "review"}      \* read-only: run again after a crash
CodeChanging == {"build", "debug"}        \* CONSUMES_ATTEMPT
Stage == Work \cup {"done", "blocked"}
Verdict == {"GREEN", "YELLOW", "RED"}
Terminal(s) == s \in {"done", "blocked"}

Memory ==
    [stage: Stage, hist: Seq([stage: Work, verdict: Verdict]),
     failure: {"none", "test", "smoke"}, session: 0..MaxIterations,
     attempts: 0..MaxIterations, tokens: 0..TokenBudget, learned: BOOLEAN]

\* DevCycleCheckpointSchema, without superRefine.
CheckpointFile ==
    [mem: Memory, late: BOOLEAN, reruns: Nat,
     state: {"pending", "running", "completed"}, status: {"running", "done", "blocked"},
     verdict: Verdict \cup {"none"}]

ASSUME NoneAssumption == None \notin CheckpointFile

VARIABLES
    pc,       \* where the process is: "off" or between two awaits of the loop
    mem,      \* stage, stages, lastFailure, session id, budget, learned
    late,     \* the wall clock of the budget has run out
    reruns,   \* entries of resumeReruns
    guard,    \* stages run by this process
    captured, \* preserveAttemptForInterruptedStage with its continuation
    verdict,  \* the result of the stage that has just run
    disk,     \* the checkpoint file
    stops,    \* crashes and throws so far
    reopens,  \* resumptions of a reported cycle so far
    passed,   \* ghost: gates passed since the code last changed
    edits,    \* ghost: executor sessions that could change the code
    shipped,  \* ghost: times SHIP delivered
    facts     \* ghost: outcomes recordFact was called with

process == <<pc, mem, late, reruns, guard, captured, verdict>>
bounds == <<stops, reopens>>
world == <<passed, edits, shipped, facts>>
vars == <<process, disk, bounds, world>>

-----------------------------------------------------------------------------
(* The reducer and the checkpoint.                                         *)

NextStage(s, v) ==
    LET red == v = "RED"
    IN  CASE s = "select" -> IF red THEN "done" ELSE "build"
          [] s \in CodeChanging -> IF red THEN "blocked" ELSE "test"
          [] s = "test"   -> IF red THEN "debug" ELSE "smoke"
          [] s = "smoke"  -> IF red THEN "debug" ELSE "review"
          [] s = "review" -> IF red THEN "blocked" ELSE "ship"
          [] s = "ship"   -> IF red THEN "blocked" ELSE "learn"
          [] s = "learn"  -> "done"
          [] OTHER -> s

Has(hist, v) == \E i \in DOMAIN hist : hist[i].verdict = v

\* overallFor, and expectedTerminalVerdict of the schema.
Overall(s, hist) ==
    IF s # "done" THEN "RED"
    ELSE IF \A i \in DOMAIN hist : hist[i].stage = "select" THEN "YELLOW"
    ELSE IF Has(hist, "YELLOW") THEN "YELLOW" ELSE "GREEN"

Checkpoint(m, state) ==
    [mem |-> m, late |-> late', reruns |-> reruns', state |-> state,
     status |-> IF Terminal(m.stage) THEN m.stage ELSE "running",
     verdict |-> IF Terminal(m.stage) THEN Overall(m.stage, m.hist) ELSE "none"]

\* The two lists fit the schema, the history replays to the stage, and the rest
\* agrees with it (superRefine).
Valid(ck) ==
    LET h == ck.mem.hist
        Boundary[i \in 0..Len(h)] ==
          IF i = 0 THEN "select" ELSE NextStage(h[i].stage, h[i].verdict)
        end == Boundary[Len(h)]
    IN  /\ Len(h) <= HistoryCap /\ ck.reruns <= RerunCap
        /\ \A i \in 1..Len(h) :
             ~Terminal(Boundary[i - 1]) /\ h[i].stage = Boundary[i - 1]
        /\ ck.mem.stage = end
        /\ IF Terminal(end)
           THEN /\ ck.status = end
                /\ ck.state = "completed"
                /\ ck.verdict = Overall(end, h)
           ELSE /\ ck.status = "running"
                /\ ck.state # "completed"
                /\ ck.verdict = "none"

\* saveCheckpoint: parse, then replace the file; an invalid one throws.
Save(m, state, next) ==
    LET ck == Checkpoint(m, state)
    IN  IF Valid(ck) THEN disk' = ck /\ pc' = next
                     ELSE disk' = disk /\ pc' = "rejected"

Push(m, v) == [m EXCEPT !.hist = Append(@, [stage |-> m.stage, verdict |-> v])]

-----------------------------------------------------------------------------
(* Starting and resuming.                                                  *)

Fresh == [stage |-> "select", hist |-> <<>>, failure |-> "none", session |-> 0,
          attempts |-> 0, tokens |-> 0, learned |-> FALSE]

Init ==
    /\ pc = "off" /\ mem = Fresh /\ late = FALSE /\ reruns = 0 /\ guard = 0
    /\ captured = FALSE /\ verdict = "GREEN" /\ disk = None
    /\ stops = 0 /\ reopens = 0
    /\ passed = {} /\ edits = 0 /\ shipped = 0 /\ facts = {}

Start ==
    /\ pc = "off" /\ disk = None
    /\ mem' = Fresh /\ late' = FALSE /\ reruns' = 0
    /\ guard' = 0 /\ captured' = FALSE
    /\ Save(mem', "pending", "loop")
    /\ UNCHANGED <<verdict, bounds, world>>

\* A gate that was interrupted only reads: it is run again.
RunsAgain == disk.state = "running" /\ disk.mem.stage \in Gates

\* What the process knows after it has read the checkpoint; running a gate again
\* is noted in resumeReruns.
Hydrate ==
    /\ disk # None
    /\ mem' = disk.mem /\ late' = disk.late /\ guard' = 0
    /\ reruns' = IF RunsAgain THEN disk.reruns + 1 ELSE disk.reruns
    /\ UNCHANGED <<verdict, world>>

\* Mutant: a stage in flight is taken for a boundary and run again.
MutantAtBoundary == disk.state # "completed"

\* A boundary between two stages.
AtBoundary == disk.state = "pending"

ResumeHere ==
    /\ AtBoundary
    /\ captured' = FALSE /\ pc' = "loop"
    /\ UNCHANGED disk

ResumeGate ==
    /\ RunsAgain
    /\ captured' = FALSE
    /\ Save(mem', "pending", "loop")

\* A planner whose session was noted goes on in that session.
ResumeSession ==
    /\ disk.state = "running"
    /\ disk.mem.stage \in CodeChanging /\ disk.mem.session # 0
    /\ captured' = TRUE /\ pc' = "loop"
    /\ UNCHANGED disk

\* Any other stage may or may not have happened: never run it again.
Uncertain ==
    /\ disk.state = "running"
    /\ disk.mem.stage \notin Gates
    /\ ~(disk.mem.stage \in CodeChanging /\ disk.mem.session # 0)

BlockUncertain ==
    /\ Uncertain
    /\ captured' = FALSE
    /\ LET m == [Push(disk.mem, "RED")
                   EXCEPT !.stage = "blocked", !.learned = TRUE]
       IN  IF disk.mem.stage \in {"select", "learn"}
           THEN disk' = disk /\ pc' = "reported"
           ELSE Save(m, "completed", "reported")

\* Mutant: only a done cycle is restored, not a blocked one.
MutantReportTerminal ==
    /\ disk.state = "completed" /\ disk.status = "done"
    /\ captured' = FALSE /\ pc' = "reported"
    /\ UNCHANGED disk

ReportTerminal ==
    /\ disk.state = "completed"
    /\ captured' = FALSE /\ pc' = "reported"
    /\ UNCHANGED disk

Resumption ==
    ResumeHere \/ ResumeGate \/ ResumeSession \/ BlockUncertain \/ ReportTerminal

Resume == pc = "off" /\ Hydrate /\ Resumption /\ UNCHANGED bounds

\* The cycle has reported, and the operator resumes it once more.
Reopen ==
    /\ pc = "reported" /\ reopens < MaxReopens
    /\ reopens' = reopens + 1
    /\ Hydrate /\ Resumption
    /\ UNCHANGED stops

-----------------------------------------------------------------------------
(* The loop.                                                               *)

\* The captured attempt is already counted; it is only held to the rest.
Exhausted ==
    \/ ~captured /\ mem.attempts >= MaxIterations
    \/ mem.tokens >= TokenBudget
    \/ late

\* Mutant: the budget stop is saved as the end of the cycle.
MutantGiveUp ==
    /\ pc = "loop"
    /\ guard = GuardCap \/ Exhausted
    /\ mem' = [Push(mem, "RED") EXCEPT !.stage = "blocked", !.learned = TRUE]
    /\ facts' = IF mem.learned THEN facts ELSE facts \cup {"blocked"}
    /\ UNCHANGED <<late, reruns, guard, captured, verdict, bounds, passed, edits,
                   shipped>>
    /\ Save(mem', "completed", "reported")

\* The budget or the guard ends the loop before the stage runs: the blocker is
\* recorded, the checkpoint is left as it is.
GiveUp ==
    /\ pc = "loop"
    /\ guard = GuardCap \/ Exhausted
    /\ mem' = [Push(mem, "RED") EXCEPT !.stage = "blocked", !.learned = TRUE]
    /\ facts' = IF mem.learned THEN facts ELSE facts \cup {"blocked"}
    /\ pc' = "reported"
    /\ UNCHANGED <<late, reruns, guard, captured, verdict, disk, bounds, passed, edits,
                   shipped>>

\* Mutant: the session of the attempt before is kept.
MutantPrepared ==
    [mem EXCEPT !.attempts = IF mem.stage \in CodeChanging /\ ~captured
                             THEN @ + 1 ELSE @]

\* What the loop prepares before it saves the stage as running.
Prepared ==
    [mem EXCEPT !.attempts = IF mem.stage \in CodeChanging /\ ~captured
                             THEN @ + 1 ELSE @,
                !.session = IF mem.stage \in CodeChanging /\ ~captured
                            THEN 0 ELSE @]

Enter ==
    /\ pc = "loop"
    /\ guard < GuardCap /\ ~Exhausted
    /\ guard' = guard + 1
    /\ mem' = Prepared
    /\ UNCHANGED <<late, reruns, captured, verdict, bounds, world>>
    /\ Save(mem', "running", "run")

\* onSessionStarted: the executor names its session, and from now on the code
\* may change.  A session is named after the attempt it serves.
SessionStarted ==
    /\ pc = "run" /\ mem.stage \in CodeChanging
    /\ mem' = [mem EXCEPT !.session = mem.attempts]
    /\ edits' = edits + 1
    /\ passed' = {}
    /\ UNCHANGED <<late, reruns, guard, captured, verdict, bounds, shipped, facts>>
    /\ Save(mem', "running", "plan")

\* The executor of BUILD or DEBUG returns, with or without a completed plan.
ExecutorReturns ==
    /\ pc = "plan"
    /\ \E v \in {"GREEN", "RED"}, spent \in {0, 1} :
         /\ verdict' = v
         /\ mem' = [mem EXCEPT !.tokens = @ + spent]
    /\ pc' = "ran"
    /\ UNCHANGED <<late, reruns, guard, captured, disk, bounds, world>>

\* TEST, SMOKE or REVIEW; a failing TEST or SMOKE leaves its note for DEBUG.
GateRuns ==
    /\ pc = "run" /\ mem.stage \in Gates
    /\ \E v \in Verdict, spent \in {0, 1} :
         /\ spent = 1 => mem.stage = "review"
         /\ verdict' = v
         /\ passed' = IF v = "RED" THEN passed ELSE passed \cup {mem.stage}
         /\ mem' = [mem EXCEPT
              !.tokens = @ + spent,
              !.failure = IF v = "RED" /\ mem.stage # "review"
                          THEN mem.stage ELSE @]
    /\ pc' = "ran"
    /\ UNCHANGED <<late, reruns, guard, captured, disk, bounds, edits, shipped, facts>>

\* SELECT finds a ready task or none.
SelectRuns ==
    /\ pc = "run" /\ mem.stage = "select"
    /\ verdict' \in {"GREEN", "RED"}
    /\ pc' = "ran"
    /\ UNCHANGED <<mem, late, reruns, guard, captured, disk, bounds, world>>

\* SHIP delivers, or is refused.
ShipRuns ==
    /\ pc = "run" /\ mem.stage = "ship"
    /\ verdict' \in Verdict
    /\ shipped' = IF verdict' = "RED" THEN shipped ELSE shipped + 1
    /\ pc' = "ran"
    /\ UNCHANGED <<mem, late, reruns, guard, captured, disk, bounds, passed, edits,
                   facts>>

\* LEARN records the fact of a shipped task.
LearnRuns ==
    /\ pc = "run" /\ mem.stage = "learn"
    /\ verdict' = IF Has(mem.hist, "YELLOW") THEN "YELLOW" ELSE "GREEN"
    /\ mem' = [mem EXCEPT !.learned = TRUE]
    /\ facts' = facts \cup {"shipped"}
    /\ pc' = "ran"
    /\ UNCHANGED <<late, reruns, guard, captured, disk, bounds, passed, edits, shipped>>

\* Mutant: the exemption of a continued attempt outlives its stage.
MutantStageDone ==
    /\ pc = "ran"
    /\ mem' = [Push(mem, verdict) EXCEPT !.stage = NextStage(@, verdict)]
    /\ UNCHANGED <<late, reruns, guard, captured, verdict, bounds, world>>
    /\ IF Terminal(mem'.stage) THEN Save(mem', "completed", "closing")
                               ELSE Save(mem', "pending", "loop")

\* The outcome is appended, the reducer names the next stage, and both are saved.
StageDone ==
    /\ pc = "ran"
    /\ mem' = [Push(mem, verdict) EXCEPT !.stage = NextStage(@, verdict)]
    /\ captured' = FALSE
    /\ UNCHANGED <<late, reruns, guard, verdict, bounds, world>>
    /\ IF Terminal(mem'.stage) THEN Save(mem', "completed", "closing")
                               ELSE Save(mem', "pending", "loop")

\* After the loop: a blocked cycle records its blocker, then saves once more.
RecordBlocker ==
    /\ pc = "closing" /\ mem.stage = "blocked" /\ ~mem.learned
    /\ mem' = [mem EXCEPT !.learned = TRUE]
    /\ facts' = facts \cup {"blocked"}
    /\ UNCHANGED <<pc, late, reruns, guard, captured, verdict, disk, bounds, passed,
                   edits, shipped>>

Report ==
    /\ pc = "closing"
    /\ mem.stage = "blocked" => mem.learned
    /\ UNCHANGED <<mem, late, reruns, guard, captured, verdict, bounds, world>>
    /\ Save(mem, "completed", "reported")

\* The process is killed, or a stage or a save throws.
Stop ==
    /\ pc \notin {"off", "reported", "rejected"}
    /\ stops < MaxStops
    /\ stops' = stops + 1
    /\ pc' = "off"
    /\ UNCHANGED <<mem, late, reruns, guard, captured, verdict, disk, reopens, world>>

Tick ==
    /\ pc \notin {"off", "reported", "rejected"} /\ ~late
    /\ late' = TRUE
    /\ UNCHANGED <<pc, mem, reruns, guard, captured, verdict, disk, bounds, world>>

RunStage ==
    SessionStarted \/ ExecutorReturns \/ GateRuns \/ SelectRuns \/ ShipRuns
      \/ LearnRuns

Loop == GiveUp \/ Enter \/ RunStage \/ StageDone \/ RecordBlocker \/ Report

Next == Start \/ Resume \/ Reopen \/ Loop \/ Stop \/ Tick

Spec == Init /\ [][Next]_vars

\* A stopped cycle is resumed and a stage that runs comes back: every command
\* and request of a stage has a timeout of its own.  Nothing makes the process
\* stop, the clock run out or the operator reopen the cycle.
FairSpec == Spec /\ WF_vars(Start \/ Resume \/ Loop)

-----------------------------------------------------------------------------
(* What the cycle promises.                                                *)

\* The types of the process and of the file; the attempts that are counted
\* never exceed maxIterations, whatever was resumed.
TypeOK ==
    /\ pc \in {"off", "loop", "run", "plan", "ran", "closing", "reported",
               "rejected"}
    /\ mem \in Memory
    /\ reruns \in Nat /\ late \in BOOLEAN /\ captured \in BOOLEAN /\ verdict \in Verdict
    /\ guard \in 0..GuardCap /\ stops \in 0..MaxStops /\ reopens \in 0..MaxReopens
    /\ disk \in CheckpointFile \cup {None}
    /\ passed \subseteq Gates /\ edits \in Nat /\ shipped \in Nat
    /\ facts \subseteq {"shipped", "blocked"}

\* A cycle delivers at most once however often it is stopped and resumed, and
\* what it delivers has passed TEST, SMOKE and REVIEW since the code last
\* changed (runDevCycle.ts:299 "is never replayed", devCycle.ts:185).
ShipsOnce ==
    /\ shipped <= 1
    /\ shipped = 1 => passed = Gates

\* Every session that may change the code is an attempt of the budget, or the
\* continuation of one after a stop: resuming does not buy attempts
\* (runDevCycle.ts:196 "resume cannot reset limits").
EditsAreBudgeted == edits <= MaxIterations + stops

\* What a resumption takes from the file is of the stage it resumes: the session
\* is that of the attempt under way, and the note DEBUG repairs is that of the
\* gate that failed last.
ResumeDataIsCurrent ==
    disk # None /\ disk.mem.stage \in CodeChanging =>
      /\ disk.state = "running" => disk.mem.session \in {0, disk.mem.attempts}
      /\ disk.mem.stage = "debug" =>
           disk.mem.failure = disk.mem.hist[Len(disk.mem.hist)].stage

\* The schema accepts every checkpoint the loop writes: no history is forged,
\* none is lost, and a stage that ran is never left unrecorded by a throw (up to
\* the limits on the lengths of texts and the secret detection, not modelled).
\* It takes 3 * MaxIterations + 1 <= HistoryCap: an attempt adds three stages, and
\* behind the attempt that succeeds stand three more.  And it takes no more stops
\* than RerunCap: every gate that is run again after a stop lengthens
\* resumeReruns, and after a hundred the save of every further resumption throws.
SavesAccepted == pc # "rejected"

\* A cycle that is resumed whenever it stops reports in the end, if it does not
\* stop in more gates than resumeReruns may name.
CycleReports == pc # "reported" ~> pc = "reported"
=============================================================================
