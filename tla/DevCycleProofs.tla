--------------------------- MODULE DevCycleProofs ---------------------------
(***************************************************************************)
(* Proofs about DevCycle for every budget, guard and number of stops: a    *)
(* cycle delivers at most once, and only what its gates passed; resuming   *)
(* buys no attempts; what a resumption takes from the file is current; the *)
(* schema accepts every save of a cycle whose attempts fit the history and *)
(* whose stops fit resumeReruns.                                           *)
(*                                                                         *)
(* The argument: while the process runs, the file names the stage the      *)
(* process is at (InSync), so that what holds of the stage before a stop   *)
(* holds of the stage after it.  The schema (Valid) plays no part before   *)
(* the last section, which is about nothing else.                          *)
(***************************************************************************)
EXTENDS DevCycle, TLAPS

Assumptions == /\ MaxIterations \in Nat \ {0} /\ TokenBudget \in Nat \ {0}
               /\ GuardCap \in Nat /\ MaxStops \in Nat /\ MaxReopens \in Nat

Live == pc \in {"loop", "run", "plan", "ran", "closing"}

\* The file follows the process.
InSync ==
    /\ Live \/ pc = "reported" => disk # None
    /\ Live => /\ disk.mem.stage = mem.stage
               /\ disk.mem.attempts = mem.attempts
    /\ pc = "loop" => disk.state = IF captured THEN "running" ELSE "pending"
    /\ pc \in {"run", "plan", "ran"} => disk.state = "running"
    /\ pc = "closing" => disk.state = "completed"
    /\ pc = "plan" \/ (pc = "loop" /\ captured) => mem.stage \in CodeChanging
    /\ pc \in {"run", "plan"} => mem.tokens < TokenBudget
    /\ pc \in {"loop", "run", "plan", "ran"} => mem.stage \in Work
    /\ disk # None => (disk.state = "completed" <=> disk.mem.stage \notin Work)

Base == TypeOK /\ InSync

\* The gates that stand behind a stage.
Behind(s) == IF s = "smoke" THEN {"test"}
             ELSE IF s = "review" THEN {"test", "smoke"}
             ELSE IF s = "ship" THEN Gates ELSE {}

\* SHIP is behind all gates, and nothing leads back to it.
ShipInv ==
    /\ disk # None => Behind(disk.mem.stage) \subseteq passed
    /\ pc = "ran" /\ verdict # "RED" /\ mem.stage \in Gates =>
         mem.stage \in passed
    /\ shipped \in {0, 1}
    /\ shipped = 1 =>
         /\ passed = Gates
         /\ Live => \/ mem.stage \in {"learn", "done", "blocked"}
                    \/ mem.stage = "ship" /\ pc = "ran"
         /\ disk # None
         /\ \/ disk.mem.stage \in {"learn", "done", "blocked"}
            \/ disk.mem.stage = "ship" /\ disk.state = "running"

\* A session is paid for by an attempt or by the stop it continues after.
EditsInv ==
    /\ edits <= MaxIterations + stops
    /\ Live => edits <= mem.attempts + stops
    /\ pc = "run" /\ mem.stage \in CodeChanging =>
         edits + 1 <= mem.attempts + stops
    /\ pc = "loop" /\ captured => edits + 1 <= mem.attempts + stops
    /\ disk = None => edits = 0
    /\ pc \in {"off", "reported"} /\ disk # None =>
         /\ edits <= disk.mem.attempts + stops
         /\ disk.state = "running" /\ disk.mem.stage \in CodeChanging =>
              edits + 1 <= disk.mem.attempts + stops

\* The session and the note are those of the stage, in memory and in the file.
Noted(m) == m.stage = "debug" => m.failure = m.hist[Len(m.hist)].stage

SessionInv(m) == m.stage \in CodeChanging => m.session \in {0, m.attempts}

NotesInv ==
    /\ ResumeDataIsCurrent
    /\ Live => Noted(mem)
    /\ pc = "ran" /\ verdict = "RED" /\ mem.stage \in {"test", "smoke"} =>
         mem.failure = mem.stage
    /\ pc \in {"run", "plan", "ran"} \/ (pc = "loop" /\ captured) =>
         SessionInv(mem)

-----------------------------------------------------------------------------
LEMMA AssumptionsHold == Assumptions
  BY IterationsAssumption, TokensAssumption, CapsAssumption, StopsAssumption
     DEF Assumptions

LEMMA FreshTyped == Fresh \in Memory
  <1>1. <<>> \in Seq([stage: Work, verdict: Verdict])
    OBVIOUS
  <1> QED BY <1>1, AssumptionsHold DEF Assumptions, Fresh, Memory, Stage, Work

\* Appending an outcome keeps the memory typed, and the outcome is the last one.
LEMMA PushTyped ==
  ASSUME NEW m \in Memory, m.stage \in Work, NEW v \in Verdict
  PROVE  /\ Push(m, v) \in Memory
         /\ Len(Push(m, v).hist) = Len(m.hist) + 1
         /\ Push(m, v).hist[Len(m.hist) + 1] = [stage |-> m.stage, verdict |-> v]
  <1> DEFINE o == [stage |-> m.stage, verdict |-> v]
             T == [stage: Work, verdict: Verdict]
  <1>1. m.hist \in Seq(T) /\ o \in T
    BY DEF Memory
  <1>2. /\ Append(m.hist, o) \in Seq(T)
        /\ Len(Append(m.hist, o)) = Len(m.hist) + 1
        /\ Append(m.hist, o)[Len(m.hist) + 1] = o
    <2> HIDE DEF o, T
    <2> QED BY <1>1
  <1>3. Push(m, v) = [m EXCEPT !.hist = Append(m.hist, o)]
    BY DEF Push
  <1> HIDE DEF o
  <1>4. Push(m, v) \in Memory
    BY <1>2, <1>3 DEF Memory
  <1>5. Push(m, v).hist = Append(m.hist, o)
    BY <1>3 DEF Memory
  <1> QED BY <1>2, <1>4, <1>5 DEF o

LEMMA NextStageTyped ==
  ASSUME NEW s \in Work, NEW v \in Verdict
  PROVE  /\ NextStage(s, v) \in Stage
         /\ NextStage(s, v) \notin Work <=> Terminal(NextStage(s, v))
  BY DEF NextStage, Stage, Work, Verdict, Terminal, CodeChanging

\* What every save leaves: a new checkpoint of m, or the old file.
LEMMA SaveWrites ==
  ASSUME NEW m, NEW state, NEW next, Save(m, state, next)
  PROVE  \/ /\ pc' = next
            /\ disk' = Checkpoint(m, state)
         \/ pc' = "rejected" /\ disk' = disk
  BY DEF Save

\* A saved checkpoint is a file of the schema's type.
LEMMA CheckpointTyped ==
  ASSUME NEW m \in Memory, NEW state \in {"pending", "running", "completed"},
         late' \in BOOLEAN, reruns' \in Nat
  PROVE  /\ Checkpoint(m, state) \in CheckpointFile
         /\ Checkpoint(m, state) # None
         /\ Checkpoint(m, state).mem = m
         /\ Checkpoint(m, state).state = state
         /\ Checkpoint(m, state).reruns = reruns'
  <1>1. Overall(m.stage, m.hist) \in Verdict
    BY DEF Overall, Verdict
  <1>2. Checkpoint(m, state) \in CheckpointFile
    BY <1>1 DEF Checkpoint, CheckpointFile, Terminal
  <1> QED BY <1>2, NoneAssumption DEF Checkpoint

\* What a save does to the file and to the process, in terms of types.
LEMMA SaveTyped ==
  ASSUME NEW m \in Memory, NEW state \in {"pending", "running", "completed"},
         NEW next, late' \in BOOLEAN, reruns' \in Nat, Save(m, state, next)
  PROVE  \/ /\ pc' = next
            /\ disk' \in CheckpointFile /\ disk' # None
            /\ disk'.mem = m /\ disk'.state = state /\ disk'.reruns = reruns'
         \/ pc' = "rejected" /\ disk' = disk
  BY CheckpointTyped, SaveWrites

LEMMA BaseInit == Init => Base
  <1> SUFFICES ASSUME Init PROVE Base
    OBVIOUS
  <1>1. TypeOK
    <2>1. late \in BOOLEAN /\ captured \in BOOLEAN
      BY Zenon DEF Init
    <2> QED BY <2>1, FreshTyped, AssumptionsHold
            DEF Init, TypeOK, Assumptions, Verdict
  <1>2. InSync
    BY DEF Init, InSync, Live
  <1> QED BY <1>1, <1>2 DEF Base

-----------------------------------------------------------------------------
(* The file follows the process.                                           *)

LEMMA StartBase ==
  ASSUME Base, Start
  PROVE  Base'
  <1>1. /\ mem' = Fresh /\ mem' \in Memory
        /\ late' = FALSE /\ late' \in BOOLEAN /\ guard' = 0 /\ reruns' = 0
        /\ captured' = FALSE /\ captured' \in BOOLEAN
        /\ UNCHANGED <<verdict, bounds, world>>
        /\ Save(mem', "pending", "loop")
    BY FreshTyped DEF Start
  <1>2. \/ /\ pc' = "loop"
           /\ disk' \in CheckpointFile /\ disk' # None
           /\ disk'.mem = mem' /\ disk'.state = "pending"
        \/ pc' = "rejected" /\ disk' = disk
    BY <1>1, SaveTyped
  <1>3. TypeOK'
    BY <1>1, <1>2, AssumptionsHold
       DEF Base, TypeOK, bounds, world, Assumptions
  <1>4. InSync'
    BY <1>1, <1>2 DEF Base, InSync, Live, Fresh, Work
  <1> QED BY <1>3, <1>4 DEF Base

\* What the five ways to resume have in common.
LEMMA ResumptionBase ==
  ASSUME Base, Hydrate, Resumption, pc \in {"off", "reported"},
         stops' \in 0..MaxStops, reopens' \in 0..MaxReopens
  PROVE  Base'
  <1>1. /\ disk \in CheckpointFile /\ disk # None
        /\ mem' = disk.mem /\ mem' \in Memory
        /\ late' = disk.late /\ late' \in BOOLEAN /\ reruns' \in Nat
        /\ verdict' \in Verdict /\ guard' \in 0..GuardCap
    BY AssumptionsHold DEF Base, TypeOK, Hydrate, CheckpointFile, Assumptions
  <1>2. passed' \subseteq Gates /\ edits' \in Nat /\ shipped' \in Nat
        /\ facts' \subseteq {"shipped", "blocked"}
    BY DEF Base, TypeOK, Hydrate, world
  <1> USE DEF Base, TypeOK
  <1>3. CASE ResumeHere
    BY <1>1, <1>2, <1>3 DEF ResumeHere, AtBoundary, InSync, Live
  <1>4. CASE ResumeGate
    <2>1. \/ /\ pc' = "loop"
             /\ disk' \in CheckpointFile /\ disk' # None
             /\ disk'.mem = mem' /\ disk'.state = "pending"
          \/ pc' = "rejected" /\ disk' = disk
      <3>1. Save(mem', "pending", "loop")
        BY <1>4 DEF ResumeGate
      <3> HIDE DEF Base, TypeOK
      <3> QED BY <1>1, <3>1, SaveTyped
    <2> QED BY <1>1, <1>2, <1>4, <2>1 DEF ResumeGate, RunsAgain, InSync, Live, Gates, Work
  <1>5. CASE ResumeSession
    BY <1>1, <1>2, <1>5 DEF ResumeSession, InSync, Live
  <1>6. CASE BlockUncertain
    <2> DEFINE m == [Push(disk.mem, "RED")
                       EXCEPT !.stage = "blocked", !.learned = TRUE]
    <2>1. disk.mem.stage \in Work
      BY <1>1, <1>6 DEF BlockUncertain, Uncertain, InSync
    <2>2. m \in Memory /\ m.stage = "blocked"
      BY <1>1, <2>1, PushTyped, ZenonT(60) DEF Memory, Stage, Verdict
    <2>3. \/ pc' = "reported" /\ disk' = disk
          \/ Save(m, "completed", "reported")
      BY <1>6 DEF BlockUncertain
    <2>4. \/ pc' = "reported" /\ disk' = disk
          \/ /\ pc' = "reported"
             /\ disk' \in CheckpointFile /\ disk' # None
             /\ disk'.mem = m /\ disk'.state = "completed"
          \/ pc' = "rejected" /\ disk' = disk
      <3> HIDE DEF m, Base, TypeOK
      <3> QED BY <1>1, <2>2, <2>3, SaveTyped
    <2> HIDE DEF m
    <2> QED BY <1>1, <1>2, <1>6, <2>2, <2>4
            DEF BlockUncertain, InSync, Live, Work
  <1>7. CASE ReportTerminal
    BY <1>1, <1>2, <1>7 DEF ReportTerminal, InSync, Live
  <1> QED BY <1>3, <1>4, <1>5, <1>6, <1>7 DEF Resumption

LEMMA GiveUpBase ==
  ASSUME Base, GiveUp
  PROVE  Base'
  <1> USE DEF Base, GiveUp
  <1>1. mem' \in Memory
    BY PushTyped, ZenonT(60) DEF TypeOK, InSync, Memory, Stage, Verdict
  <1>2. TypeOK'
    BY <1>1 DEF TypeOK, bounds
  <1>3. InSync'
    BY DEF InSync, Live
  <1> QED BY <1>2, <1>3

LEMMA EnterBase ==
  ASSUME Base, Enter
  PROVE  Base'
  <1> USE DEF Base, Enter
  <1>1. /\ mem' \in Memory /\ mem'.stage = mem.stage /\ mem'.tokens = mem.tokens
        /\ mem.tokens < TokenBudget
    <2>1. mem \in Memory /\ ~Exhausted /\ mem' = Prepared
      BY DEF TypeOK
    <2>2. mem.tokens < TokenBudget
      BY <2>1, AssumptionsHold DEF Exhausted, Memory, Assumptions
    <2>3. CASE mem.stage \in CodeChanging /\ ~captured
      <3>1. mem' = [mem EXCEPT !.attempts = @ + 1, !.session = 0]
        BY <2>1, <2>3 DEF Prepared
      <3>2. ~(mem.attempts >= MaxIterations)
        BY <2>1, <2>3 DEF Exhausted
      <3>3. mem.attempts + 1 \in 0..MaxIterations /\ 0 \in 0..MaxIterations
        BY <2>1, <3>2, AssumptionsHold DEF Memory, Assumptions
      <3> HIDE DEF Enter, Base
      <3> QED BY <2>1, <2>2, <3>1, <3>3 DEF Memory
    <2>4. CASE ~(mem.stage \in CodeChanging /\ ~captured)
      <3>1. mem' = mem
        BY <2>1, <2>4 DEF Prepared, Memory
      <3> QED BY <2>1, <2>2, <3>1
    <2> QED BY <2>3, <2>4
  <1>2. \/ /\ pc' = "run"
           /\ disk' \in CheckpointFile /\ disk' # None
           /\ disk'.mem = mem' /\ disk'.state = "running"
        \/ pc' = "rejected" /\ disk' = disk
    <2>1. Save(mem', "running", "run") /\ late' \in BOOLEAN /\ reruns' \in Nat
      BY DEF TypeOK
    <2> HIDE DEF Base, Enter
    <2> QED BY <1>1, <2>1, SaveTyped
  <1>3. TypeOK'
    BY <1>1, <1>2, AssumptionsHold DEF TypeOK, bounds, world, Assumptions
  <1>4. InSync'
    BY <1>1, <1>2 DEF InSync, Live
  <1> QED BY <1>3, <1>4

LEMMA SessionBase ==
  ASSUME Base, SessionStarted
  PROVE  Base'
  <1> USE DEF Base, SessionStarted
  <1>1. /\ mem' \in Memory /\ mem'.stage = mem.stage /\ mem'.tokens = mem.tokens
        /\ mem'.attempts = mem.attempts
    BY DEF TypeOK, Memory
  <1>2. \/ /\ pc' = "plan"
           /\ disk' \in CheckpointFile /\ disk' # None
           /\ disk'.mem = mem' /\ disk'.state = "running"
        \/ pc' = "rejected" /\ disk' = disk
    <2>1. Save(mem', "running", "plan") /\ late' \in BOOLEAN /\ reruns' \in Nat
      BY DEF TypeOK
    <2> HIDE DEF Base, SessionStarted
    <2> QED BY <1>1, <2>1, SaveTyped
  <1>3. TypeOK'
    BY <1>1, <1>2 DEF TypeOK, bounds
  <1>4. InSync'
    BY <1>1, <1>2 DEF InSync, Live
  <1> QED BY <1>3, <1>4

\* A stage that runs leaves the file alone and the stage where it is.
LEMMA RunBase ==
  ASSUME Base,
         ExecutorReturns \/ GateRuns \/ SelectRuns \/ ShipRuns \/ LearnRuns
  PROVE  Base'
  <1> DEFINE P == /\ mem' \in Memory /\ mem'.stage = mem.stage
                  /\ mem'.attempts = mem.attempts
                  /\ verdict' \in Verdict
             Q == /\ pc' = "ran" /\ pc \in {"run", "plan"}
                  /\ UNCHANGED <<late, reruns, guard, captured, disk, bounds>>
                  /\ passed' \subseteq Gates /\ edits' \in Nat
                  /\ shipped' \in Nat /\ facts' \subseteq {"shipped", "blocked"}
  <1>0. /\ mem \in Memory /\ passed \subseteq Gates /\ edits \in Nat
        /\ shipped \in Nat /\ facts \subseteq {"shipped", "blocked"}
        /\ pc \in {"run", "plan"} => mem.tokens < TokenBudget
    BY DEF Base, TypeOK, InSync
  <1>a. ASSUME NEW t \in {0, 1}, pc \in {"run", "plan"}
        PROVE  mem.tokens + t \in 0..TokenBudget
    <2>1. mem.tokens \in 0..TokenBudget /\ mem.tokens < TokenBudget
      BY <1>0, <1>a DEF Memory
    <2> QED BY <2>1, AssumptionsHold DEF Assumptions
  <1>1. ASSUME ExecutorReturns PROVE P /\ Q
    <2>1. PICK v \in {"GREEN", "RED"}, t \in {0, 1} :
            verdict' = v /\ mem' = [mem EXCEPT !.tokens = @ + t]
      BY <1>1 DEF ExecutorReturns
    <2>2. mem.tokens + t \in 0..TokenBudget
      BY <1>1, <1>a DEF ExecutorReturns
    <2>3. P
      BY <1>0, <2>1, <2>2 DEF Memory, Verdict
    <2> QED BY <1>0, <1>1, <2>3 DEF ExecutorReturns, world
  <1>2. ASSUME GateRuns PROVE P /\ Q
    <2>1. PICK v \in Verdict, t \in {0, 1} :
            /\ verdict' = v
            /\ passed' = IF v = "RED" THEN passed ELSE passed \cup {mem.stage}
            /\ mem' = [mem EXCEPT
                 !.tokens = @ + t,
                 !.failure = IF v = "RED" /\ mem.stage # "review"
                             THEN mem.stage ELSE @]
      BY <1>2 DEF GateRuns
    <2>2. mem.tokens + t \in 0..TokenBudget
      BY <1>2, <1>a DEF GateRuns
    <2>3. mem.stage \in Gates
      BY <1>2 DEF GateRuns
    <2>4. P
      BY <1>0, <2>1, <2>2, <2>3 DEF Memory, Gates
    <2>5. passed' \subseteq Gates
      BY <1>0, <2>1, <2>3
    <2> QED BY <1>0, <1>2, <2>4, <2>5 DEF GateRuns
  <1>3. ASSUME SelectRuns PROVE P /\ Q
    BY <1>0, <1>3 DEF SelectRuns, Verdict, world
  <1>4. ASSUME ShipRuns PROVE P /\ Q
    BY <1>0, <1>4 DEF ShipRuns
  <1>5. ASSUME LearnRuns PROVE P /\ Q
    <2>1. P
      BY <1>0, <1>5 DEF LearnRuns, Memory, Verdict
    <2> QED BY <1>0, <1>5, <2>1 DEF LearnRuns
  <1>6. P /\ Q
    BY <1>1, <1>2, <1>3, <1>4, <1>5
  <1>7. TypeOK'
    BY <1>6 DEF Base, TypeOK, bounds
  <1>8. InSync'
    BY <1>6 DEF Base, InSync, Live
  <1> QED BY <1>7, <1>8 DEF Base

\* The outcome is the last one of the history, and the reducer names the stage.
LEMMA StageDoneMemory ==
  ASSUME Base, StageDone
  PROVE  /\ mem' \in Memory
         /\ mem'.stage = NextStage(mem.stage, verdict)
         /\ mem'.failure = mem.failure /\ mem'.attempts = mem.attempts
         /\ mem'.hist[Len(mem'.hist)].stage = mem.stage
  <1> DEFINE s == NextStage(mem.stage, verdict)
             m == Push(mem, verdict)
  <1>1. mem \in Memory /\ mem.stage \in Work /\ verdict \in Verdict
    BY DEF Base, TypeOK, InSync, StageDone
  <1>2. s \in Stage
    BY <1>1, NextStageTyped
  <1>3. /\ m \in Memory
        /\ Len(m.hist) = Len(mem.hist) + 1
        /\ m.hist[Len(mem.hist) + 1] = [stage |-> mem.stage, verdict |-> verdict]
    BY <1>1, PushTyped
  <1>4. m.failure = mem.failure /\ m.attempts = mem.attempts
    BY <1>1 DEF Push, Memory
  <1>5. mem' = [m EXCEPT !.stage = s]
    BY <1>1 DEF StageDone, Push, Memory
  <1> HIDE DEF s, m
  <1>6. /\ mem' \in Memory /\ mem'.stage = s /\ mem'.hist = m.hist
        /\ mem'.failure = m.failure /\ mem'.attempts = m.attempts
    BY <1>2, <1>3, <1>5 DEF Memory
  <1> QED BY <1>3, <1>4, <1>6 DEF s

LEMMA StageDoneBase ==
  ASSUME Base, StageDone
  PROVE  Base'
  <1> DEFINE s == NextStage(mem.stage, verdict)
  <1>2. s \in Stage /\ (s \notin Work <=> Terminal(s))
    BY NextStageTyped DEF Base, TypeOK, InSync, StageDone
  <1>5. mem' \in Memory /\ mem'.stage = s
    BY StageDoneMemory
  <1>6. /\ late' = late /\ late' \in BOOLEAN /\ captured' \in BOOLEAN
        /\ reruns' \in Nat
    BY DEF StageDone, Base, TypeOK
  <1>7. \/ /\ pc' = IF Terminal(s) THEN "closing" ELSE "loop"
           /\ disk' \in CheckpointFile /\ disk' # None
           /\ disk'.mem = mem'
           /\ disk'.state = IF Terminal(s) THEN "completed" ELSE "pending"
        \/ pc' = "rejected" /\ disk' = disk
    <2>1. IF Terminal(s) THEN Save(mem', "completed", "closing")
                         ELSE Save(mem', "pending", "loop")
      BY <1>5 DEF StageDone
    <2> HIDE DEF s
    <2> QED BY <1>5, <1>6, <2>1, SaveTyped
  <1> HIDE DEF s
  <1>8. TypeOK'
    BY <1>5, <1>6, <1>7 DEF StageDone, Base, TypeOK, bounds, world
  <1>9. InSync'
    BY <1>2, <1>5, <1>7 DEF StageDone, Base, InSync, Live
  <1> QED BY <1>8, <1>9 DEF Base

LEMMA EndBase ==
  ASSUME Base, RecordBlocker \/ Report \/ Stop \/ Tick
  PROVE  Base'
  <1>1. CASE RecordBlocker
    <2>1. /\ mem' \in Memory /\ mem'.stage = mem.stage
          /\ mem'.attempts = mem.attempts
      BY <1>1 DEF RecordBlocker, Base, TypeOK, Memory
    <2>2. TypeOK'
      BY <1>1, <2>1 DEF RecordBlocker, Base, TypeOK, bounds
    <2>3. InSync'
      BY <1>1, <2>1 DEF RecordBlocker, Base, InSync, Live
    <2> QED BY <2>2, <2>3 DEF Base
  <1>2. CASE Report
    <2>1. /\ mem' = mem /\ mem \in Memory /\ late' \in BOOLEAN /\ reruns' \in Nat
          /\ Save(mem, "completed", "reported")
      BY <1>2 DEF Report, Base, TypeOK
    <2>2. \/ /\ pc' = "reported"
             /\ disk' \in CheckpointFile /\ disk' # None
             /\ disk'.mem = mem /\ disk'.state = "completed"
          \/ pc' = "rejected" /\ disk' = disk
      BY <2>1, SaveTyped
    <2>3. TypeOK'
      BY <1>2, <2>1, <2>2 DEF Report, Base, TypeOK, bounds, world
    <2>4. InSync'
      BY <1>2, <2>1, <2>2 DEF Report, Base, InSync, Live
    <2> QED BY <2>3, <2>4 DEF Base
  <1>3. CASE Stop
    <2>1. stops' \in 0..MaxStops
      BY <1>3, AssumptionsHold DEF Stop, Base, TypeOK, Assumptions
    <2>2. TypeOK'
      BY <1>3, <2>1 DEF Stop, Base, TypeOK, world
    <2>3. InSync'
      BY <1>3 DEF Stop, Base, InSync, Live
    <2> QED BY <2>2, <2>3 DEF Base
  <1>4. CASE Tick
    <2>1. late' \in BOOLEAN
      BY <1>4, Zenon DEF Tick
    <2>2. TypeOK'
      BY <1>4, <2>1 DEF Tick, Base, TypeOK, bounds, world
    <2>3. InSync'
      BY <1>4 DEF Tick, Base, InSync, Live
    <2> QED BY <2>2, <2>3 DEF Base
  <1> QED BY <1>1, <1>2, <1>3, <1>4

LEMMA ResumeBase ==
  ASSUME Base, Resume \/ Reopen
  PROVE  Base'
  <1>1. stops' \in 0..MaxStops /\ reopens' \in 0..MaxReopens
    BY AssumptionsHold DEF Resume, Reopen, bounds, Base, TypeOK, Assumptions
  <1> QED BY <1>1, ResumptionBase DEF Resume, Reopen

LEMMA BaseStep == Base /\ [Next]_vars => Base'
  <1> SUFFICES ASSUME Base, [Next]_vars PROVE Base'
    OBVIOUS
  <1>1. CASE UNCHANGED vars
    BY <1>1 DEF vars, process, bounds, world, Base, TypeOK, InSync, Live
  <1>2. CASE Next
    BY <1>2, StartBase, ResumeBase, GiveUpBase, EnterBase, SessionBase, RunBase,
       StageDoneBase, EndBase DEF Next, Loop, RunStage
  <1> QED BY <1>1, <1>2

\* The type of the file and the sequences play no part from here on; what the
\* saves of the loop do to the stage and the state of the file is all it takes.
LEMMA SaveFields ==
  ASSUME Base', NEW m \in Memory, NEW next,
         NEW state \in {"pending", "running", "completed"}, Save(m, state, next)
  PROVE  \/ /\ pc' = next /\ disk' # None
            /\ disk'.mem = m /\ disk'.state = state /\ disk'.reruns = reruns'
         \/ pc' = "rejected" /\ disk' = disk
  BY SaveTyped DEF Base, TypeOK

\* The process and the file keep their types for every budget; the attempts
\* counted never exceed maxIterations.
THEOREM TypeCorrect == Spec => []TypeOK
  <1>1. Base => TypeOK
    BY DEF Base
  <1> QED BY <1>1, BaseInit, BaseStep, PTL DEF Spec

-----------------------------------------------------------------------------
(* SHIP delivers once.                                                     *)

LEMMA ShipResumes ==
  ASSUME Base, Base', ShipInv, Hydrate, Resumption, pc \in {"off", "reported"}
  PROVE  ShipInv'
  <1>1. /\ disk # None /\ mem' = disk.mem /\ mem' \in Memory
        /\ UNCHANGED <<passed, shipped>>
    BY DEF Hydrate, world, Base, TypeOK
  <1>2. CASE ResumeHere \/ ResumeSession \/ ReportTerminal
    <2>1. /\ disk' = disk /\ pc' \in {"loop", "reported"}
          /\ pc' = "loop" =>
               \/ disk.state = "pending"
               \/ disk.mem.stage \in CodeChanging
      BY <1>2 DEF ResumeHere, AtBoundary, ResumeSession, ReportTerminal
    <2> QED BY <1>1, <2>1 DEF ShipInv, Live, CodeChanging
  <1>3. CASE ResumeGate
    <2>1. \/ /\ pc' = "loop" /\ disk' # None /\ disk'.mem = disk.mem
          \/ pc' = "rejected" /\ disk' = disk
      BY <1>1, <1>3, SaveFields DEF ResumeGate
    <2>2. disk.mem.stage \in Gates
      BY <1>3 DEF ResumeGate, RunsAgain
    <2>3. shipped # 1
      BY <2>2 DEF ShipInv, Gates
    <2> QED BY <1>1, <2>1, <2>3 DEF ShipInv, Live
  <1>4. CASE BlockUncertain
    <2> DEFINE m == [Push(disk.mem, "RED")
                       EXCEPT !.stage = "blocked", !.learned = TRUE]
    <2>1. disk.mem.stage \in Work /\ disk.mem \in Memory
      BY <1>1, <1>4 DEF BlockUncertain, Uncertain, Base, InSync
    <2>2. m \in Memory /\ m.stage = "blocked"
      BY <2>1, PushTyped, ZenonT(60) DEF Memory, Stage, Verdict
    <2>3. \/ pc' = "reported" /\ disk' = disk
          \/ Save(m, "completed", "reported")
      BY <1>4 DEF BlockUncertain
    <2>4. \/ disk' = disk
          \/ disk' # None /\ disk'.mem = m
      <3> HIDE DEF m
      <3> QED BY <2>2, <2>3, SaveFields
    <2>5. pc' \in {"reported", "rejected"}
      <3> HIDE DEF m
      <3> QED BY <2>2, <2>3, SaveFields
    <2> HIDE DEF m
    <2> QED BY <1>1, <2>2, <2>4, <2>5 DEF ShipInv, Live, Behind
  <1> QED BY <1>2, <1>3, <1>4 DEF Resumption

LEMMA ShipStep == Base /\ Base' /\ ShipInv /\ [Next]_vars => ShipInv'
  <1> SUFFICES ASSUME Base, Base', ShipInv, [Next]_vars PROVE ShipInv'
    OBVIOUS
  <1>0. mem' \in Memory /\ mem \in Memory /\ verdict \in Verdict
    BY DEF Base, TypeOK
  <1>1. CASE UNCHANGED vars
    BY <1>1 DEF vars, process, world, ShipInv, Live
  <1>2. CASE Start
    <2>1. /\ disk = None /\ pc = "off" /\ mem'.stage = "select"
          /\ UNCHANGED <<passed, shipped>>
      BY <1>2 DEF Start, world, Fresh
    <2>2. \/ pc' = "loop" /\ disk' # None /\ disk'.mem = mem'
          \/ pc' = "rejected" /\ disk' = disk
      BY <1>0, <1>2, SaveFields DEF Start
    <2>3. shipped # 1
      BY <2>1 DEF ShipInv
    <2> QED BY <2>1, <2>2, <2>3 DEF ShipInv, Live, Behind
  <1>3. CASE Resume \/ Reopen
    BY <1>3, ShipResumes DEF Resume, Reopen
  <1>4. CASE GiveUp
    BY <1>4 DEF GiveUp, ShipInv, Live
  <1>5. CASE Enter
    <2>1. /\ pc = "loop" /\ mem'.stage = mem.stage
          /\ UNCHANGED <<passed, shipped>>
      BY <1>0, <1>5 DEF Enter, Prepared, Memory, world
    <2>2. \/ pc' = "run" /\ disk' # None /\ disk'.mem = mem'
          \/ pc' = "rejected" /\ disk' = disk
      BY <1>0, <1>5, SaveFields DEF Enter
    <2>3. disk # None /\ disk.mem.stage = mem.stage
      BY <2>1 DEF Base, InSync, Live
    <2> QED BY <2>1, <2>2, <2>3 DEF ShipInv, Live, Behind
  <1>6. CASE SessionStarted
    <2>1. /\ pc = "run" /\ mem.stage \in CodeChanging /\ mem'.stage = mem.stage
          /\ shipped' = shipped
      BY <1>0, <1>6 DEF SessionStarted, Memory
    <2>2. \/ pc' = "plan" /\ disk' # None /\ disk'.mem = mem'
          \/ pc' = "rejected" /\ disk' = disk
      BY <1>0, <1>6, SaveFields DEF SessionStarted
    <2>3. disk # None /\ disk.mem.stage = mem.stage /\ shipped # 1
      BY <2>1 DEF Base, InSync, Live, ShipInv, CodeChanging
    <2> QED BY <2>1, <2>2, <2>3 DEF ShipInv, Live, Behind, CodeChanging
  <1>7. CASE ExecutorReturns
    <2>1. /\ pc = "plan" /\ pc' = "ran" /\ mem'.stage = mem.stage
          /\ mem.stage \in CodeChanging
          /\ UNCHANGED <<disk, passed, shipped>>
      BY <1>0, <1>7 DEF ExecutorReturns, Memory, world, Base, InSync
    <2> QED BY <2>1 DEF ShipInv, Live, CodeChanging, Gates
  <1>8. CASE GateRuns
    <2>1. /\ pc = "run" /\ pc' = "ran" /\ mem'.stage = mem.stage
          /\ mem.stage \in Gates
          /\ UNCHANGED <<disk, shipped>>
          /\ passed \subseteq passed'
          /\ verdict' # "RED" => mem.stage \in passed'
      BY <1>0, <1>8 DEF GateRuns, Memory
    <2>2. shipped # 1
      BY <2>1 DEF ShipInv, Live, Gates
    <2> QED BY <2>1, <2>2 DEF ShipInv, Live
  <1>9. CASE SelectRuns \/ LearnRuns
    <2>1. /\ pc = "run" /\ pc' = "ran" /\ mem'.stage = mem.stage
          /\ mem.stage \in {"select", "learn"}
          /\ UNCHANGED <<disk, passed, shipped>>
      BY <1>0, <1>9 DEF SelectRuns, LearnRuns, Memory, world
    <2> QED BY <2>1 DEF ShipInv, Live, Gates
  <1>10. CASE ShipRuns
    <2>1. /\ pc = "run" /\ pc' = "ran" /\ mem' = mem /\ mem.stage = "ship"
          /\ UNCHANGED <<disk, passed>>
          /\ shipped' \in {shipped, shipped + 1}
      BY <1>10 DEF ShipRuns
    <2>2. disk # None /\ disk.mem.stage = "ship" /\ disk.state = "running"
      BY <2>1 DEF Base, InSync, Live
    <2>3. shipped = 0
      BY <2>1 DEF ShipInv, Live
    <2>4. passed = Gates
      BY <2>2 DEF ShipInv, Behind, Base, TypeOK
    <2> QED BY <2>1, <2>2, <2>3, <2>4 DEF ShipInv, Live, Gates
  <1>11. CASE StageDone
    <2> DEFINE s == NextStage(mem.stage, verdict)
    <2>1. /\ pc = "ran" /\ mem.stage \in Work
          /\ UNCHANGED <<passed, shipped, verdict>>
      BY <1>11 DEF StageDone, world, Base, InSync
    <2>2. mem'.stage = s
      BY <1>11, StageDoneMemory
    <2>3. \/ /\ pc' \in {"closing", "loop"}
             /\ disk' # None /\ disk'.mem = mem'
          \/ pc' = "rejected" /\ disk' = disk
      BY <1>0, <1>11, SaveFields DEF StageDone
    <2>4. disk # None /\ disk.mem.stage = mem.stage
      BY <2>1 DEF Base, InSync, Live
    <2>5. Behind(s) \subseteq passed
      BY <2>1, <2>4
         DEF ShipInv, Behind, NextStage, Work, Gates, CodeChanging
    <2>6. shipped = 1 => s \in {"learn", "done", "blocked"}
      BY <2>1 DEF ShipInv, Live, NextStage, CodeChanging
    <2> HIDE DEF s
    <2> QED BY <2>1, <2>2, <2>3, <2>5, <2>6 DEF ShipInv, Live
  <1>12. CASE RecordBlocker
    BY <1>0, <1>12 DEF RecordBlocker, ShipInv, Live, Memory
  <1>13. CASE Report
    <2>1. /\ pc = "closing" /\ UNCHANGED <<mem, passed, shipped>>
      BY <1>13 DEF Report, world
    <2>2. \/ pc' = "reported" /\ disk' # None /\ disk'.mem = mem
          \/ pc' = "rejected" /\ disk' = disk
      BY <1>0, <1>13, SaveFields DEF Report
    <2>3. disk # None /\ disk.mem.stage = mem.stage
      BY <2>1 DEF Base, InSync, Live
    <2> QED BY <2>1, <2>2, <2>3 DEF ShipInv, Live
  <1>14. CASE Stop \/ Tick
    BY <1>14 DEF Stop, Tick, ShipInv, Live, world
  <1> QED BY <1>1, <1>2, <1>3, <1>4, <1>5, <1>6, <1>7, <1>8, <1>9, <1>10, <1>11,
             <1>12, <1>13, <1>14 DEF Next, Loop, RunStage

\* A cycle delivers at most once, and only code its gates have passed, whatever
\* the budget and however often the process stops (runDevCycle.ts:287-313).
THEOREM ShipsOnceCorrect == Spec => []ShipsOnce
  <1>1. Init => ShipInv
    BY DEF Init, ShipInv, Live
  <1>2. ShipInv => ShipsOnce
    BY DEF ShipInv, ShipsOnce
  <1> QED BY <1>1, <1>2, BaseInit, BaseStep, ShipStep, PTL DEF Spec

-----------------------------------------------------------------------------
(* Resuming buys no attempts.                                              *)

LEMMA EditsStep == Base /\ Base' /\ EditsInv /\ [Next]_vars => EditsInv'
  <1> SUFFICES ASSUME Base, Base', EditsInv, [Next]_vars PROVE EditsInv'
    OBVIOUS
  <1>0. /\ mem' \in Memory /\ mem \in Memory
        /\ edits \in Nat /\ stops \in Nat /\ stops' \in Nat
        /\ mem.attempts \in Nat /\ mem'.attempts \in Nat
        /\ mem.attempts <= MaxIterations /\ mem'.attempts <= MaxIterations
        /\ MaxIterations \in Nat
        /\ disk # None => disk.mem \in Memory /\ disk.mem.attempts \in Nat
    BY AssumptionsHold DEF Base, TypeOK, Memory, CheckpointFile, Assumptions
  <1>1. CASE UNCHANGED vars
    BY <1>1 DEF vars, process, world, bounds, EditsInv, Live
  <1>2. CASE Start
    <2>1. /\ disk = None /\ UNCHANGED <<edits, stops>> /\ captured' = FALSE
      BY <1>2 DEF Start, world, bounds
    <2>2. \/ pc' = "loop" /\ disk' # None
          \/ pc' = "rejected" /\ disk' = disk
      BY <1>0, <1>2, SaveFields DEF Start
    <2> QED BY <1>0, <2>1, <2>2 DEF EditsInv, Live
  <1>3. CASE Resume \/ Reopen
    <2>1. /\ disk # None /\ mem' = disk.mem
          /\ UNCHANGED <<edits, stops>>
          /\ pc \in {"off", "reported"}
          /\ Resumption
      BY <1>3 DEF Resume, Reopen, Hydrate, world, bounds
    <2>2. CASE ResumeHere \/ ReportTerminal
      BY <1>0, <2>1, <2>2 DEF ResumeHere, AtBoundary, ReportTerminal, EditsInv, Live
    <2>3. CASE ResumeSession
      BY <1>0, <2>1, <2>3 DEF ResumeSession, EditsInv, Live
    <2>4. CASE ResumeGate
      <3>1. \/ pc' = "loop" /\ disk' # None
            \/ pc' = "rejected" /\ disk' = disk
        BY <1>0, <2>4, SaveFields DEF ResumeGate
      <3> QED BY <1>0, <2>1, <2>4, <3>1 DEF ResumeGate, RunsAgain, EditsInv, Live
    <2>5. CASE BlockUncertain
      <3> DEFINE m == [Push(disk.mem, "RED")
                         EXCEPT !.stage = "blocked", !.learned = TRUE]
      <3>1. disk.mem.stage \in Work
        BY <2>1, <2>5 DEF BlockUncertain, Uncertain, Base, InSync
      <3>2. Push(disk.mem, "RED") \in Memory
        BY <1>0, <2>1, <3>1, PushTyped DEF Verdict
      <3>3. Push(disk.mem, "RED").attempts = disk.mem.attempts
        BY <1>0, <2>1 DEF Push, Memory
      <3>4. m \in Memory /\ m.attempts = disk.mem.attempts
        BY <3>2, <3>3 DEF Memory, Stage
      <3>5. \/ pc' = "reported" /\ disk' = disk
            \/ Save(m, "completed", "reported")
        BY <2>5 DEF BlockUncertain
      <3> HIDE DEF m
      <3>6. \/ pc' = "reported" /\ disk' = disk
            \/ /\ pc' = "reported" /\ disk' # None
               /\ disk'.mem = m /\ disk'.state = "completed"
            \/ pc' = "rejected" /\ disk' = disk
        BY <3>4, <3>5, SaveFields
      <3> QED BY <1>0, <2>1, <3>4, <3>6 DEF EditsInv, Live
    <2> QED BY <2>1, <2>2, <2>3, <2>4, <2>5 DEF Resumption
  <1>4. CASE GiveUp
    <2>1. /\ pc = "loop" /\ pc' = "reported"
          /\ UNCHANGED <<edits, stops, disk>>
      BY <1>4 DEF GiveUp, bounds
    <2>2. /\ disk # None /\ disk.mem.attempts = mem.attempts
          /\ disk.state = IF captured THEN "running" ELSE "pending"
      BY <2>1 DEF Base, InSync, Live
    <2> QED BY <1>0, <2>1, <2>2 DEF EditsInv, Live
  <1>5. CASE Enter
    <2>1. /\ pc = "loop" /\ mem'.stage = mem.stage
          /\ UNCHANGED <<edits, stops>>
          /\ mem'.attempts = IF mem.stage \in CodeChanging /\ ~captured
                             THEN mem.attempts + 1 ELSE mem.attempts
      BY <1>0, <1>5 DEF Enter, Prepared, Memory, world, bounds
    <2>2. \/ pc' = "run" /\ disk' # None
          \/ pc' = "rejected" /\ disk' = disk
      BY <1>0, <1>5, SaveFields DEF Enter
    <2>3. disk # None
      BY <2>1 DEF Base, InSync, Live
    <2> QED BY <1>0, <2>1, <2>2, <2>3 DEF EditsInv, Live
  <1>6. CASE SessionStarted
    <2>1. /\ pc = "run" /\ mem.stage \in CodeChanging
          /\ mem'.attempts = mem.attempts
          /\ stops' = stops /\ edits' = edits + 1
      BY <1>0, <1>6 DEF SessionStarted, Memory, bounds
    <2>2. \/ pc' = "plan" /\ disk' # None
          \/ pc' = "rejected" /\ disk' = disk
      BY <1>0, <1>6, SaveFields DEF SessionStarted
    <2>3. disk # None
      BY <2>1 DEF Base, InSync, Live
    <2> QED BY <1>0, <2>1, <2>2, <2>3 DEF EditsInv, Live
  <1>7. CASE ExecutorReturns \/ GateRuns \/ SelectRuns \/ ShipRuns \/ LearnRuns
    <2>1. /\ pc \in {"run", "plan"} /\ pc' = "ran"
          /\ mem'.attempts = mem.attempts
          /\ UNCHANGED <<disk, edits, stops>>
      BY <1>0, <1>7 DEF ExecutorReturns, GateRuns, SelectRuns, ShipRuns, LearnRuns,
                        Memory, world, bounds
    <2> QED BY <1>0, <2>1 DEF EditsInv, Live
  <1>8. CASE StageDone
    <2>1. /\ pc = "ran" /\ captured' = FALSE
          /\ mem'.attempts = mem.attempts
          /\ UNCHANGED <<edits, stops>>
      BY <1>8, StageDoneMemory DEF StageDone, world, bounds
    <2>2. \/ pc' \in {"closing", "loop"} /\ disk' # None
          \/ pc' = "rejected" /\ disk' = disk
      BY <1>0, <1>8, SaveFields DEF StageDone
    <2> QED BY <1>0, <2>1, <2>2 DEF EditsInv, Live
  <1>9. CASE RecordBlocker
    <2>1. /\ pc = "closing" /\ mem'.attempts = mem.attempts
          /\ UNCHANGED <<pc, edits, stops, disk>>
      BY <1>0, <1>9 DEF RecordBlocker, Memory, bounds
    <2> QED BY <1>0, <2>1 DEF EditsInv, Live
  <1>10. CASE Report
    <2>1. pc = "closing" /\ UNCHANGED <<mem, edits, stops>>
      BY <1>10 DEF Report, world, bounds
    <2>2. \/ /\ pc' = "reported" /\ disk' # None
             /\ disk'.mem = mem /\ disk'.state = "completed"
          \/ pc' = "rejected" /\ disk' = disk
      BY <1>0, <1>10, SaveFields DEF Report
    <2> QED BY <1>0, <2>1, <2>2 DEF EditsInv, Live
  <1>11. CASE Stop
    <2>1. /\ Live /\ pc' = "off" /\ stops' = stops + 1
          /\ UNCHANGED <<edits, disk>>
      BY <1>11 DEF Stop, world, Base, TypeOK, Live
    <2>2. disk # None /\ disk.mem.attempts = mem.attempts
      BY <2>1 DEF Base, InSync
    <2> QED BY <1>0, <2>1, <2>2 DEF EditsInv, Live
  <1>12. CASE Tick
    BY <1>12 DEF Tick, EditsInv, Live, world, bounds
  <1> QED BY <1>1, <1>2, <1>3, <1>4, <1>5, <1>6, <1>7, <1>8, <1>9, <1>10, <1>11,
             <1>12 DEF Next, Loop, RunStage

\* However often a cycle stops and is resumed, the sessions that may change the
\* code are the attempts of the budget and one continuation per stop
\* (runDevCycle.ts:563-595).
THEOREM EditsAreBudgetedCorrect == Spec => []EditsAreBudgeted
  <1>1. Init => EditsInv
    BY AssumptionsHold DEF Init, EditsInv, Live, Assumptions
  <1>2. EditsInv => EditsAreBudgeted
    BY DEF EditsInv, EditsAreBudgeted
  <1> QED BY <1>1, <1>2, BaseInit, BaseStep, EditsStep, PTL DEF Spec

-----------------------------------------------------------------------------
(* What a resumption takes from the file is of the stage it resumes.       *)

LEMMA NotesStep == Base /\ Base' /\ NotesInv /\ [Next]_vars => NotesInv'
  <1> SUFFICES ASSUME Base, Base', NotesInv, [Next]_vars PROVE NotesInv'
    OBVIOUS
  <1> USE DEF NotesInv
  <1>0. /\ mem' \in Memory /\ mem \in Memory
        /\ disk # None => disk.mem \in Memory
    BY DEF Base, TypeOK, CheckpointFile
  <1>1. CASE UNCHANGED vars
    BY <1>1 DEF vars, process, ResumeDataIsCurrent, Live
  <1>2. CASE Start
    <2>1. mem'.stage = "select" /\ captured' = FALSE
      BY <1>2 DEF Start, Fresh
    <2>2. \/ pc' = "loop" /\ disk' # None /\ disk'.mem = mem'
          \/ pc' = "rejected" /\ disk' = disk
      BY <1>0, <1>2, SaveFields DEF Start
    <2> QED BY <2>1, <2>2
            DEF ResumeDataIsCurrent, Live, Noted, SessionInv, CodeChanging
  <1>3. CASE Resume \/ Reopen
    <2>1. disk # None /\ mem' = disk.mem /\ Resumption
      BY <1>3 DEF Resume, Reopen, Hydrate
    <2>2. Noted(mem')
      BY <2>1 DEF ResumeDataIsCurrent, Noted, CodeChanging
    <2>3. CASE ResumeHere \/ ReportTerminal \/ ResumeSession
      <3>1. /\ disk' = disk /\ pc' \in {"loop", "reported"}
            /\ captured' => disk.state = "running"
        BY <2>3 DEF ResumeHere, ReportTerminal, ResumeSession
      <3> QED BY <2>1, <2>2, <3>1 DEF ResumeDataIsCurrent, Live, SessionInv
    <2>4. CASE ResumeGate
      <3>1. /\ disk.mem.stage \in Gates /\ captured' = FALSE
            /\ \/ pc' = "loop" /\ disk' # None /\ disk'.mem = disk.mem
               \/ pc' = "rejected" /\ disk' = disk
        BY <1>0, <2>1, <2>4, SaveFields DEF ResumeGate, RunsAgain
      <3> QED BY <2>1, <2>2, <3>1 DEF ResumeDataIsCurrent, Live, Gates, CodeChanging
    <2>5. CASE BlockUncertain
      <3> DEFINE m == [Push(disk.mem, "RED")
                         EXCEPT !.stage = "blocked", !.learned = TRUE]
      <3>1. disk.mem.stage \in Work
        BY <2>1, <2>5 DEF BlockUncertain, Uncertain, Base, InSync
      <3>2. m \in Memory /\ m.stage = "blocked"
        <4>1. Push(disk.mem, "RED") \in Memory
          BY <1>0, <2>1, <3>1, PushTyped DEF Verdict
        <4> QED BY <4>1 DEF Memory, Stage
      <3>3. \/ pc' = "reported" /\ disk' = disk
            \/ Save(m, "completed", "reported")
        BY <2>5 DEF BlockUncertain
      <3> HIDE DEF m
      <3>4. /\ pc' \in {"reported", "rejected"}
            /\ \/ disk' = disk
               \/ disk' # None /\ disk'.mem = m
        BY <3>2, <3>3, SaveFields
      <3> QED BY <3>2, <3>4 DEF ResumeDataIsCurrent, Live, CodeChanging
    <2> QED BY <2>1, <2>3, <2>4, <2>5 DEF Resumption
  <1>4. CASE GiveUp
    BY <1>4 DEF GiveUp, ResumeDataIsCurrent, Live
  <1>5. CASE Enter
    <2>1. /\ pc = "loop" /\ mem'.stage = mem.stage
          /\ mem'.hist = mem.hist /\ mem'.failure = mem.failure
          /\ IF mem.stage \in CodeChanging /\ ~captured
             THEN mem'.session = 0
             ELSE mem'.session = mem.session /\ mem'.attempts = mem.attempts
      BY <1>0, <1>5 DEF Enter, Prepared, Memory
    <2>2. Noted(mem') /\ SessionInv(mem')
      BY <2>1 DEF Noted, SessionInv, Live
    <2>3. \/ pc' = "run" /\ disk' # None /\ disk'.mem = mem'
          \/ pc' = "rejected" /\ disk' = disk
      BY <1>0, <1>5, SaveFields DEF Enter
    <2> QED BY <2>2, <2>3 DEF ResumeDataIsCurrent, Live, Noted, SessionInv
  <1>6. CASE SessionStarted
    <2>1. /\ pc = "run" /\ mem'.stage = mem.stage
          /\ mem'.hist = mem.hist /\ mem'.failure = mem.failure
          /\ mem'.session = mem'.attempts
      BY <1>0, <1>6 DEF SessionStarted, Memory
    <2>2. Noted(mem') /\ SessionInv(mem')
      BY <2>1 DEF Noted, SessionInv, Live
    <2>3. \/ pc' = "plan" /\ disk' # None /\ disk'.mem = mem'
          \/ pc' = "rejected" /\ disk' = disk
      BY <1>0, <1>6, SaveFields DEF SessionStarted
    <2> QED BY <2>2, <2>3 DEF ResumeDataIsCurrent, Live, Noted, SessionInv
  <1>7. CASE ExecutorReturns \/ SelectRuns \/ ShipRuns \/ LearnRuns
    <2>1. /\ pc \in {"run", "plan"} /\ pc' = "ran" /\ disk' = disk
          /\ mem'.stage = mem.stage /\ mem.stage \notin {"test", "smoke"}
          /\ mem'.hist = mem.hist /\ mem'.failure = mem.failure
          /\ mem'.session = mem.session /\ mem'.attempts = mem.attempts
      BY <1>0, <1>7 DEF ExecutorReturns, SelectRuns, ShipRuns, LearnRuns, Memory,
                        Base, InSync, CodeChanging
    <2> QED BY <2>1 DEF ResumeDataIsCurrent, Live, Noted, SessionInv
  <1>8. CASE GateRuns
    <2>1. /\ pc' = "ran" /\ disk' = disk
          /\ mem'.stage = mem.stage /\ mem.stage \in Gates
          /\ verdict' = "RED" /\ mem.stage # "review" => mem'.failure = mem.stage
      BY <1>0, <1>8 DEF GateRuns, Memory, Gates
    <2> QED BY <2>1 DEF ResumeDataIsCurrent, Live, Noted, SessionInv, Gates,
                        CodeChanging
  <1>9. CASE StageDone
    <2>1. /\ pc = "ran" /\ captured' = FALSE
          /\ mem.stage \in Work /\ verdict \in Verdict
      BY <1>9 DEF StageDone, Base, TypeOK, InSync
    <2>2. /\ mem'.stage = NextStage(mem.stage, verdict)
          /\ mem'.failure = mem.failure
          /\ mem'.hist[Len(mem'.hist)].stage = mem.stage
      BY <1>9, StageDoneMemory
    <2>3. mem'.stage = "debug" => verdict = "RED" /\ mem.stage \in {"test", "smoke"}
      BY <2>1, <2>2 DEF NextStage, Work, CodeChanging
    <2>4. Noted(mem')
      BY <2>1, <2>2, <2>3 DEF Noted
    <2>5. \/ /\ pc' \in {"loop", "closing"} /\ disk' # None
             /\ disk'.mem = mem' /\ disk'.state # "running"
          \/ pc' = "rejected" /\ disk' = disk
      BY <1>0, <1>9, SaveFields DEF StageDone
    <2> QED BY <2>1, <2>4, <2>5 DEF ResumeDataIsCurrent, Live, Noted
  <1>10. CASE RecordBlocker
    <2>1. /\ pc = "closing" /\ mem.stage = "blocked" /\ mem'.stage = "blocked"
          /\ UNCHANGED <<pc, disk>>
      BY <1>0, <1>10 DEF RecordBlocker, Memory
    <2> QED BY <2>1 DEF ResumeDataIsCurrent, Noted
  <1>11. CASE Report
    <2>1. pc = "closing" /\ mem' = mem
      BY <1>11 DEF Report
    <2>2. \/ /\ pc' = "reported" /\ disk' # None
             /\ disk'.mem = mem /\ disk'.state = "completed"
          \/ pc' = "rejected" /\ disk' = disk
      BY <1>0, <1>11, SaveFields DEF Report
    <2> QED BY <2>1, <2>2 DEF ResumeDataIsCurrent, Live, Noted
  <1>12. CASE Stop \/ Tick
    BY <1>12 DEF Stop, Tick, ResumeDataIsCurrent, Live
  <1> QED BY <1>1, <1>2, <1>3, <1>4, <1>5, <1>6, <1>7, <1>8, <1>9, <1>10, <1>11,
             <1>12 DEF Next, Loop, RunStage

\* A resumed BUILD or DEBUG continues the session of the attempt under way, and
\* DEBUG repairs the gate that failed last (runDevCycle.ts:315-330, 593-595).
THEOREM ResumeDataCorrect == Spec => []ResumeDataIsCurrent
  <1>1. Init => NotesInv
    BY DEF Init, NotesInv, ResumeDataIsCurrent, Live
  <1>2. NotesInv => ResumeDataIsCurrent
    BY DEF NotesInv
  <1> QED BY <1>1, <1>2, BaseInit, BaseStep, NotesStep, PTL DEF Spec

-----------------------------------------------------------------------------
(* The schema accepts what the loop saves.  Its replay (superRefine) is     *)
(* what the loop did, and the history fits: each attempt adds at most three *)
(* stages (its own, TEST and SMOKE), and after the last attempt the budget  *)
(* lets no other stage in.                                                  *)

\* The stage that stands behind the first i outcomes.
Bound(h, i) == IF i = 0 THEN "select" ELSE NextStage(h[i].stage, h[i].verdict)

\* The history leads to the stage, and nothing runs after the end.
Replays(m) ==
    /\ m.stage = Bound(m.hist, Len(m.hist))
    /\ \A i \in 1..Len(m.hist) :
         ~Terminal(Bound(m.hist, i - 1)) /\ m.hist[i].stage = Bound(m.hist, i - 1)

\* How far a stage is from the attempt before it; an attempt that is counted
\* already stands in its own place.
Room(s, counted) ==
    CASE s \in CodeChanging -> IF counted THEN 0 ELSE 3
      [] s = "test" -> 1
      [] s \in {"select", "smoke"} -> 2
      [] s = "review" -> 3
      [] s = "ship" -> 4
      [] s = "learn" -> 5
      [] OTHER -> 6

\* The history is as long as the attempts allow; behind the last attempt only
\* the stage it is spent on may run.
Fits(m, counted) ==
    /\ Len(m.hist) + 2 <= 3 * m.attempts + Room(m.stage, counted)
    /\ m.attempts = MaxIterations => Len(m.hist) + 1 <= 3 * MaxIterations
    /\ counted /\ m.attempts = MaxIterations => m.stage \in CodeChanging

Sound(m, counted) == Replays(m) /\ Fits(m, counted)

\* The attempt of the present stage is in the budget: from Enter to StageDone, and
\* when an interrupted attempt is continued.
Counted == pc \in {"run", "plan", "ran"} \/ (pc = "loop" /\ captured)

SaveInv ==
    /\ pc # "rejected"
    /\ Live => Sound(mem, Counted)
    /\ disk # None => Sound(disk.mem, disk.state = "running")

\* A gate that is run again was stopped before.
RerunInv ==
    /\ reruns <= stops
    /\ disk # None => disk.reruns <= stops
    /\ pc \in {"off", "reported"} /\ disk # None /\ RunsAgain =>
         disk.reruns + 1 <= stops

\* There are no more stops than gates a checkpoint can note.
RerunsFit == MaxStops <= RerunCap

\* The longest history: SELECT, three stages for each attempt but the last, which
\* is not made, and REVIEW, SHIP and LEARN.
HistoryFits == 3 * MaxIterations + 1 <= HistoryCap

\* Only the stage, the history and the attempts matter.
LEMMA SameRecord ==
  ASSUME NEW m, NEW k, NEW counted \in BOOLEAN, Sound(m, counted),
         k.hist = m.hist, k.stage = m.stage, k.attempts = m.attempts
  PROVE  Sound(k, counted)
  BY DEF Sound, Replays, Fits

LEMMA MemoryNumbers ==
  ASSUME NEW m \in Memory
  PROVE  /\ m.attempts \in Nat /\ m.attempts <= MaxIterations /\ MaxIterations \in Nat
         /\ Len(m.hist) \in Nat
         /\ m.stage \in Stage
  BY AssumptionsHold DEF Memory, Assumptions

LEMMA RoomNumbers == \A s, counted : Room(s, counted) \in 0..6
  BY DEF Room

\* What is counted is sound as a boundary, too.
LEMMA Uncounted ==
  ASSUME NEW m \in Memory, NEW counted \in BOOLEAN, Sound(m, counted)
  PROVE  Sound(m, FALSE)
  <1> DEFINE r == Room(m.stage, counted)
             q == Room(m.stage, FALSE)
             n == Len(m.hist)
             a == m.attempts
  <1>1. r \in 0..6 /\ q \in 0..6 /\ r <= q
    BY DEF Room
  <1>2. n + 2 <= 3 * a + r /\ n \in Nat /\ a \in Nat
    BY MemoryNumbers DEF Sound, Fits
  <1> HIDE DEF r, q, n, a
  <1>3. n + 2 <= 3 * a + q
    BY <1>1, <1>2
  <1> QED BY <1>3 DEF Sound, Fits, n, a, q

\* A stage of its own that the budget lets in needs no room.
LEMMA LetIn ==
  ASSUME NEW m \in Memory, m.stage \notin CodeChanging, m.attempts < MaxIterations,
         NEW c \in BOOLEAN, NEW d \in BOOLEAN, Sound(m, c)
  PROVE  Sound(m, d)
  <1>1. Room(m.stage, c) = Room(m.stage, d)
    BY DEF Room
  <1>2. m.attempts # MaxIterations
    BY MemoryNumbers
  <1> QED BY <1>1, <1>2 DEF Sound, Fits

\* The history of a sound memory fits into the file.
LEMMA SoundFits ==
  ASSUME HistoryFits, NEW m \in Memory, NEW counted \in BOOLEAN, Sound(m, counted)
  PROVE  Len(m.hist) <= HistoryCap
  <1> DEFINE n == Len(m.hist)
             a == m.attempts
             r == Room(m.stage, counted)
  <1>1. /\ n \in Nat /\ a \in Nat /\ MaxIterations \in Nat /\ HistoryCap \in Nat
        /\ a <= MaxIterations /\ r \in 0..6
    BY MemoryNumbers, RoomNumbers, CapsAssumption
  <1>2. /\ n + 2 <= 3 * a + r
        /\ a = MaxIterations => n + 1 <= 3 * MaxIterations
        /\ 3 * MaxIterations + 1 <= HistoryCap
    BY DEF HistoryFits, Sound, Fits
  <1> HIDE DEF n, a, r
  <1>3. CASE a = MaxIterations
    BY <1>1, <1>2, <1>3 DEF n
  <1>4. CASE a # MaxIterations
    <2>1. a + 1 <= MaxIterations
      BY <1>1, <1>4
    <2>2. n + 2 <= 3 * a + 6
      BY <1>1, <1>2
    <2>3. n <= HistoryCap
      BY <1>1, <1>2, <2>1, <2>2
    <2> QED BY <2>3 DEF n
  <1> QED BY <1>3, <1>4

\* saveCheckpoint parses what it is given.
LEMMA SaveAccepted ==
  ASSUME HistoryFits, NEW m \in Memory, NEW counted \in BOOLEAN, Sound(m, counted),
         reruns' <= RerunCap, NEW state \in {"pending", "running", "completed"},
         state = "completed" <=> Terminal(m.stage),
         NEW next, Save(m, state, next)
  PROVE  pc' = next /\ disk' = Checkpoint(m, state)
  <1> DEFINE ck == Checkpoint(m, state)
             h == m.hist
  <1>1. /\ ck.mem = m /\ ck.state = state /\ ck.reruns <= RerunCap
        /\ ck.status = IF Terminal(m.stage) THEN m.stage ELSE "running"
        /\ ck.verdict = IF Terminal(m.stage) THEN Overall(m.stage, m.hist) ELSE "none"
    BY DEF Checkpoint
  <1>2. Len(h) <= HistoryCap /\ Len(h) \in Nat
    BY SoundFits, MemoryNumbers
  <1>3. \A i \in 0..Len(h) :
          [j \in 0..Len(h) |-> IF j = 0 THEN "select"
                                 ELSE NextStage(h[j].stage, h[j].verdict)][i] = Bound(h, i)
    BY DEF Bound
  <1>4. Valid(ck)
    <2>1. /\ m.stage = Bound(h, Len(h))
          /\ \A i \in 1..Len(h) :
               ~Terminal(Bound(h, i - 1)) /\ h[i].stage = Bound(h, i - 1)
      BY DEF Sound, Replays
    <2>2. \A i \in 1..Len(h) : i - 1 \in 0..Len(h)
      BY <1>2
    <2>3. Len(h) \in 0..Len(h)
      BY <1>2
    <2> HIDE DEF ck, h
    <2> QED BY <1>1, <1>2, <1>3, <2>1, <2>2, <2>3 DEF Valid, h
  <1> QED BY <1>4 DEF Save

\* An outcome and the stage that follows it.
LEMMA PushSound ==
  ASSUME NEW m \in Memory, m.stage \in Work, Sound(m, TRUE), NEW v \in Verdict,
         NEW k \in Memory, k.hist = Push(m, v).hist, k.attempts = m.attempts,
         k.stage = NextStage(m.stage, v)
  PROVE  Sound(k, FALSE)
  <1> DEFINE h == m.hist
             n == Len(m.hist)
             g == k.hist
             o == [stage |-> m.stage, verdict |-> v]
  <1>1. g = Append(h, o) /\ h \in Seq([stage: Work, verdict: Verdict]) /\ o \in [stage: Work, verdict: Verdict]
    BY DEF Push, Memory
  <1>2. n \in Nat /\ Len(g) = n + 1 /\ g[n + 1] = o /\ \A i \in 1..n : g[i] = h[i]
    <2> HIDE DEF o
    <2> QED BY <1>1
  <1>3. o.stage = m.stage /\ o.verdict = v
    OBVIOUS
  <1> HIDE DEF h, n, g, o
  <1>4. /\ m.stage = Bound(h, n)
        /\ \A i \in 1..n : ~Terminal(Bound(h, i - 1)) /\ h[i].stage = Bound(h, i - 1)
    BY DEF Sound, Replays, h, n
  <1>5. \A i \in 0..n : Bound(g, i) = Bound(h, i)
    BY <1>2 DEF Bound
  <1>6. Bound(g, n + 1) = k.stage
    BY <1>2, <1>3 DEF Bound
  <1>7. ~Terminal(m.stage)
    BY DEF Terminal, Work
  <1>8. Replays(k)
    <2>1. ASSUME NEW i \in 1..n + 1
          PROVE  ~Terminal(Bound(g, i - 1)) /\ g[i].stage = Bound(g, i - 1)
      <3>1. i - 1 \in 0..n
        BY <1>2
      <3>2. Bound(g, i - 1) = Bound(h, i - 1)
        BY <1>5, <3>1
      <3>3. CASE i \in 1..n
        BY <1>2, <1>4, <3>2, <3>3
      <3>4. CASE i = n + 1
        BY <1>2, <1>3, <1>4, <1>7, <3>2, <3>4
      <3> QED BY <1>2, <3>3, <3>4
    <2> QED BY <1>2, <1>6, <2>1 DEF Replays, g
  <1>9. Fits(k, FALSE)
    <2>1. Room(m.stage, TRUE) + 1 <= Room(k.stage, FALSE)
      BY DEF Room, NextStage, Work, CodeChanging
    <2>2. m.attempts = MaxIterations => Room(m.stage, TRUE) = 0
      <3>1. m.stage \in CodeChanging => Room(m.stage, TRUE) = 0
        BY DEF Room, CodeChanging
      <3>2. m.attempts = MaxIterations => m.stage \in CodeChanging
        BY DEF Sound, Fits
      <3> QED BY <3>1, <3>2
    <2> DEFINE r == Room(m.stage, TRUE)
               q == Room(k.stage, FALSE)
               a == m.attempts
    <2>3. r \in 0..6 /\ q \in 0..6 /\ r + 1 <= q /\ a \in Nat /\ MaxIterations \in Nat
      BY <2>1, RoomNumbers, MemoryNumbers
    <2>4. n + 2 <= 3 * a + r /\ (a = MaxIterations => r = 0)
      BY <2>2 DEF Sound, Fits, n
    <2>5. k.attempts = a /\ Len(k.hist) = n + 1
      BY <1>2 DEF g
    <2> HIDE DEF r, q, a
    <2>6. (n + 1) + 2 <= 3 * a + q /\ (a = MaxIterations => (n + 1) + 1 <= 3 * MaxIterations)
      BY <1>2, <2>3, <2>4, SMTT(30)
    <2> QED BY <2>5, <2>6 DEF Fits, q
  <1> QED BY <1>8, <1>9 DEF Sound

\* A save of a sound memory replaces the file.
LEMMA SaveSound ==
  ASSUME HistoryFits, Base', NEW m \in Memory, NEW counted \in BOOLEAN,
         Sound(m, counted), reruns' <= RerunCap,
         NEW state \in {"pending", "running", "completed"},
         state = "completed" <=> Terminal(m.stage),
         NEW next, next # "rejected", Save(m, state, next)
  PROVE  pc' = next /\ disk' # None /\ disk'.mem = m /\ disk'.state = state
  BY SaveAccepted, SaveFields

LEMMA RerunStep == Base /\ Base' /\ RerunInv /\ [Next]_vars => RerunInv'
  <1> SUFFICES ASSUME Base, Base', RerunInv, [Next]_vars PROVE RerunInv'
    OBVIOUS
  <1>0. /\ mem' \in Memory /\ mem \in Memory
        /\ reruns \in Nat /\ reruns' \in Nat /\ stops \in Nat /\ stops' \in Nat
        /\ disk # None => disk.mem \in Memory /\ disk.reruns \in Nat
    BY DEF Base, TypeOK, CheckpointFile
  <1> USE DEF RerunInv, RunsAgain
  <1>1. CASE UNCHANGED vars
    BY <1>1 DEF vars, process, bounds
  <1>2. CASE Start
    <2>1. /\ reruns' = 0 /\ disk = None /\ stops' = stops
          /\ Save(mem', "pending", "loop")
      BY <1>2 DEF Start, bounds
    <2>2. \/ pc' = "loop" /\ disk' # None /\ disk'.reruns = 0
          \/ pc' = "rejected" /\ disk' = disk
      BY <1>0, <2>1, SaveFields
    <2> QED BY <1>0, <2>1, <2>2
  <1>3. CASE Resume \/ Reopen
    <2>1. /\ pc \in {"off", "reported"} /\ disk # None /\ mem' = disk.mem
          /\ stops' = stops /\ Resumption
          /\ reruns' = IF RunsAgain THEN disk.reruns + 1 ELSE disk.reruns
      BY <1>3 DEF Resume, Reopen, Hydrate, bounds
    <2>2. reruns' <= stops
      BY <1>0, <2>1
    <2>3. CASE ResumeHere \/ ResumeSession \/ ReportTerminal
      BY <1>0, <2>1, <2>2, <2>3 DEF ResumeHere, ResumeSession, ReportTerminal
    <2>4. CASE ResumeGate
      <3>1. \/ pc' = "loop" /\ disk' # None /\ disk'.reruns = reruns'
            \/ pc' = "rejected" /\ disk' = disk
        BY <1>0, <2>4, SaveFields DEF ResumeGate
      <3> QED BY <1>0, <2>1, <2>2, <3>1
    <2>5. CASE BlockUncertain
      <3> DEFINE m == [Push(disk.mem, "RED")
                         EXCEPT !.stage = "blocked", !.learned = TRUE]
      <3>1. disk.mem.stage \in Work /\ disk.mem.stage \notin Gates
        BY <2>1, <2>5 DEF BlockUncertain, Uncertain, Base, InSync
      <3>2. Push(disk.mem, "RED") \in Memory
        BY <1>0, <2>1, <3>1, PushTyped DEF Verdict
      <3>3. m \in Memory
        BY <3>2 DEF Memory, Stage
      <3>4. \/ pc' = "reported" /\ disk' = disk
            \/ Save(m, "completed", "reported")
        BY <2>5 DEF BlockUncertain
      <3> HIDE DEF m
      <3>5. \/ disk' = disk
            \/ disk' # None /\ disk'.state = "completed" /\ disk'.reruns = reruns'
        BY <3>3, <3>4, SaveFields
      <3> QED BY <1>0, <2>1, <2>2, <3>1, <3>5
    <2> QED BY <2>1, <2>3, <2>4, <2>5 DEF Resumption
  <1>4. CASE GiveUp
    <2>1. pc = "loop" /\ UNCHANGED <<reruns, disk, stops>>
      BY <1>4 DEF GiveUp, bounds
    <2>2. ~RunsAgain
      BY <2>1 DEF Base, InSync, Live, CodeChanging, Gates
    <2> QED BY <2>1, <2>2
  <1>5. CASE Enter
    <2>1. UNCHANGED <<reruns, stops>>
      BY <1>5 DEF Enter, bounds
    <2>2. \/ pc' = "run" /\ disk' # None /\ disk'.reruns = reruns'
          \/ pc' = "rejected" /\ disk' = disk
      BY <1>0, <1>5, SaveFields DEF Enter
    <2> QED BY <2>1, <2>2
  <1>6. CASE SessionStarted
    <2>1. UNCHANGED <<reruns, stops>>
      BY <1>6 DEF SessionStarted, bounds
    <2>2. \/ pc' = "plan" /\ disk' # None /\ disk'.reruns = reruns'
          \/ pc' = "rejected" /\ disk' = disk
      BY <1>0, <1>6, SaveFields DEF SessionStarted
    <2> QED BY <2>1, <2>2
  <1>7. CASE ExecutorReturns \/ GateRuns \/ SelectRuns \/ ShipRuns \/ LearnRuns
    <2>1. pc' = "ran" /\ UNCHANGED <<reruns, disk, stops>>
      BY <1>7 DEF ExecutorReturns, GateRuns, SelectRuns, ShipRuns, LearnRuns, bounds
    <2> QED BY <2>1
  <1>8. CASE StageDone
    <2>1. UNCHANGED <<reruns, stops>>
      BY <1>8 DEF StageDone, bounds
    <2>2. \/ pc' \in {"loop", "closing"} /\ disk' # None /\ disk'.reruns = reruns'
          \/ pc' = "rejected" /\ disk' = disk
      BY <1>0, <1>8, SaveFields DEF StageDone
    <2> QED BY <2>1, <2>2
  <1>9. CASE RecordBlocker
    <2>1. pc' = "closing" /\ UNCHANGED <<reruns, disk, stops>>
      BY <1>9 DEF RecordBlocker, bounds
    <2> QED BY <2>1
  <1>10. CASE Report
    <2>1. UNCHANGED <<reruns, stops>>
      BY <1>10 DEF Report, bounds
    <2>2. \/ /\ pc' = "reported" /\ disk' # None
             /\ disk'.state = "completed" /\ disk'.reruns = reruns'
          \/ pc' = "rejected" /\ disk' = disk
      BY <1>0, <1>10, SaveFields DEF Report
    <2> QED BY <2>1, <2>2
  <1>11. CASE Stop
    BY <1>0, <1>11 DEF Stop
  <1>12. CASE Tick
    BY <1>12 DEF Tick, bounds
  <1> QED BY <1>1, <1>2, <1>3, <1>4, <1>5, <1>6, <1>7, <1>8, <1>9, <1>10, <1>11,
             <1>12 DEF Next, Loop, RunStage

LEMMA FreshSound == Sound(Fresh, FALSE)
  <1>1. /\ Len(Fresh.hist) = 0 /\ Fresh.stage = "select" /\ Fresh.attempts = 0
        /\ MaxIterations \in Nat \ {0}
    BY AssumptionsHold DEF Fresh, Assumptions
  <1>2. Room("select", FALSE) = 2
    BY DEF Room, CodeChanging
  <1>3. Replays(Fresh)
    BY <1>1 DEF Replays, Bound
  <1>4. 0 + 2 <= 3 * 0 + 2 /\ 0 # MaxIterations
    BY <1>1
  <1>5. Fits(Fresh, FALSE)
    BY <1>1, <1>2, <1>4 DEF Fits
  <1> QED BY <1>3, <1>5 DEF Sound

LEMMA ResumeSound ==
  ASSUME HistoryFits, Base, Base', SaveInv, reruns' <= RerunCap, Resume \/ Reopen
  PROVE  SaveInv'
  <1>1. disk # None /\ mem' = disk.mem /\ Resumption
    BY DEF Resume, Reopen, Hydrate
  <1>2. disk.mem \in Memory /\ Sound(disk.mem, disk.state = "running")
    BY <1>1 DEF Base, TypeOK, CheckpointFile, SaveInv
  <1>3. CASE ResumeHere
    BY <1>1, <1>2, <1>3 DEF ResumeHere, AtBoundary, SaveInv, Live, Counted
  <1>4. CASE ResumeGate
    <2>1. /\ Sound(disk.mem, FALSE) /\ Save(disk.mem, "pending", "loop")
          /\ captured' = FALSE /\ ~Terminal(disk.mem.stage)
      BY <1>1, <1>2, <1>4, Uncounted DEF ResumeGate, RunsAgain, Gates, Terminal
    <2>2. pc' = "loop" /\ disk'.mem = disk.mem /\ disk'.state = "pending"
      BY <1>2, <2>1, SaveSound
    <2> QED BY <1>1, <2>1, <2>2 DEF SaveInv, Counted
  <1>5. CASE ResumeSession
    BY <1>1, <1>2, <1>5 DEF ResumeSession, SaveInv, Live, Counted
  <1>6. CASE BlockUncertain
    <2> DEFINE m == [Push(disk.mem, "RED")
                       EXCEPT !.stage = "blocked", !.learned = TRUE]
    <2>1. disk.mem.stage \in Work /\ Sound(disk.mem, TRUE)
      BY <1>1, <1>2, <1>6 DEF BlockUncertain, Uncertain, Base, InSync
    <2>2. CASE disk.mem.stage \in {"select", "learn"}
      BY <1>2, <1>6, <2>2 DEF BlockUncertain, SaveInv, Live
    <2>3. CASE disk.mem.stage \notin {"select", "learn"}
      <3>1. Push(disk.mem, "RED") \in Memory
        BY <1>2, <2>1, PushTyped DEF Verdict
      <3>2. /\ m \in Memory /\ m.stage = "blocked"
            /\ m.hist = Push(disk.mem, "RED").hist
            /\ m.attempts = disk.mem.attempts
        BY <1>2, <3>1 DEF Memory, Stage, Push
      <3>3. NextStage(disk.mem.stage, "RED") = "blocked"
        BY <1>6, <2>1, <2>3
           DEF BlockUncertain, Uncertain, Work, Gates, NextStage, CodeChanging
      <3>4. Save(m, "completed", "reported")
        BY <1>6, <2>3 DEF BlockUncertain
      <3> HIDE DEF m
      <3>5. Sound(m, FALSE)
        BY <1>2, <2>1, <3>2, <3>3, PushSound DEF Verdict
      <3>6. pc' = "reported" /\ disk'.mem = m /\ disk'.state = "completed"
        BY <3>2, <3>4, <3>5, SaveSound DEF Terminal
      <3> QED BY <3>5, <3>6 DEF SaveInv, Live
    <2> QED BY <2>2, <2>3
  <1>7. CASE ReportTerminal
    BY <1>1, <1>2, <1>7 DEF ReportTerminal, SaveInv, Live
  <1> QED BY <1>1, <1>3, <1>4, <1>5, <1>6, <1>7 DEF Resumption

\* The stage that runs is saved with its attempt counted.
LEMMA RunningSaved ==
  ASSUME HistoryFits, Base', reruns' <= RerunCap, NEW next \in {"run", "plan"},
         mem' \in Memory,
         mem'.stage \in Work, Sound(mem', TRUE), Save(mem', "running", next)
  PROVE  SaveInv'
  <1>1. ~Terminal(mem'.stage)
    BY DEF Terminal, Work
  <1> DEFINE m == mem'
  <1>2. m \in Memory /\ Sound(m, TRUE) /\ Save(m, "running", next) /\ ~Terminal(m.stage)
    BY <1>1
  <1>3. pc' = next /\ disk'.mem = m /\ disk'.state = "running"
    <2> HIDE DEF m
    <2> QED BY <1>2, SaveSound
  <1> QED BY <1>2, <1>3 DEF SaveInv, Counted

\* What the loop prepares before it saves the stage as running.
LEMMA EnterSound ==
  ASSUME HistoryFits, Base, Base', SaveInv, reruns' <= RerunCap, Enter
  PROVE  SaveInv'
  <1>1. /\ mem \in Memory /\ mem' \in Memory /\ mem' = Prepared
        /\ pc = "loop" /\ ~Exhausted /\ Sound(mem, captured)
        /\ captured \in BOOLEAN /\ captured' = captured
        /\ Save(mem', "running", "run")
    BY DEF Enter, Base, TypeOK, SaveInv, Live, Counted
  <1>2. mem.stage \in Work /\ mem'.stage = mem.stage
    BY <1>1 DEF Base, InSync, Live, Prepared, Memory
  <1>3. CASE ~captured /\ mem.stage \in CodeChanging
    <2> DEFINE n == Len(mem.hist)
               a == mem.attempts
    <2>1. mem'.hist = mem.hist /\ mem'.attempts = a + 1
      BY <1>1, <1>3 DEF Prepared, Memory
    <2>2. Room(mem.stage, FALSE) = 3 /\ Room(mem.stage, TRUE) = 0
      BY <1>3 DEF Room, CodeChanging
    <2>3. /\ n + 2 <= 3 * a + 3 /\ ~(a >= MaxIterations)
          /\ n \in Nat /\ a \in Nat /\ MaxIterations \in Nat
      BY <1>1, <1>3, <2>2, MemoryNumbers DEF Sound, Fits, Exhausted
    <2>4. Replays(mem')
      BY <1>1, <1>2, <2>1 DEF Sound, Replays
    <2> HIDE DEF n, a
    <2>5. /\ n + 2 <= 3 * (a + 1) + 0
          /\ a + 1 = MaxIterations => n + 1 <= 3 * MaxIterations
      BY <2>3
    <2>6. Fits(mem', TRUE)
      BY <1>2, <1>3, <2>1, <2>2, <2>5 DEF Fits, n
    <2>7. Sound(mem', TRUE)
      BY <2>4, <2>6 DEF Sound
    <2> QED BY <1>1, <1>2, <2>7, RunningSaved
  <1>4. CASE captured
    <2>1. mem' = mem
      BY <1>1, <1>4 DEF Prepared, Memory
    <2> QED BY <1>1, <1>2, <1>4, <2>1, RunningSaved
  <1>5. CASE ~captured /\ mem.stage \notin CodeChanging
    <2>1. mem' = mem
      BY <1>1, <1>5 DEF Prepared, Memory
    <2>2. mem.attempts < MaxIterations
      BY <1>1, <1>5, MemoryNumbers DEF Exhausted
    <2>3. Sound(mem', TRUE)
      BY <1>1, <1>5, <2>1, <2>2, LetIn
    <2> QED BY <1>1, <1>2, <2>3, RunningSaved
  <1> QED BY <1>1, <1>3, <1>4, <1>5

LEMMA SaveStep ==
  ASSUME HistoryFits, Base, Base', SaveInv, reruns' <= RerunCap, [Next]_vars
  PROVE  SaveInv'
  <1>0. /\ mem' \in Memory /\ mem \in Memory /\ captured \in BOOLEAN
        /\ disk # None => disk.mem \in Memory
    BY DEF Base, TypeOK, CheckpointFile
  <1>1. CASE UNCHANGED vars
    BY <1>1 DEF vars, process, SaveInv, Live, Counted
  <1>2. CASE Start
    <2>1. /\ mem' = Fresh /\ captured' = FALSE /\ Fresh \in Memory
          /\ Save(Fresh, "pending", "loop") /\ ~Terminal(Fresh.stage)
      BY <1>0, <1>2 DEF Start, Fresh, Terminal
    <2>2. pc' = "loop" /\ disk'.mem = Fresh /\ disk'.state = "pending"
      BY <2>1, FreshSound, SaveSound
    <2> QED BY <2>1, <2>2, FreshSound DEF SaveInv, Counted
  <1>3. CASE Resume \/ Reopen
    BY <1>3, ResumeSound
  <1>4. CASE GiveUp
    BY <1>4 DEF GiveUp, SaveInv, Live
  <1>5. CASE Enter
    BY <1>5, EnterSound
  <1>6. CASE SessionStarted
    <2>1. /\ pc = "run" /\ mem.stage \in Work /\ Save(mem', "running", "plan")
          /\ mem'.stage = mem.stage /\ mem'.hist = mem.hist
          /\ mem'.attempts = mem.attempts
      BY <1>0, <1>6 DEF SessionStarted, Memory, Base, InSync
    <2>2. Sound(mem, TRUE)
      BY <2>1 DEF SaveInv, Live, Counted
    <2>3. Sound(mem', TRUE)
      BY <2>1, <2>2, SameRecord
    <2> QED BY <1>0, <2>1, <2>3, RunningSaved
  <1>7. CASE ExecutorReturns \/ GateRuns \/ SelectRuns \/ ShipRuns \/ LearnRuns
    <2>1. /\ pc \in {"run", "plan"} /\ pc' = "ran" /\ disk' = disk
          /\ mem'.stage = mem.stage /\ mem'.hist = mem.hist
          /\ mem'.attempts = mem.attempts
      BY <1>0, <1>7 DEF ExecutorReturns, GateRuns, SelectRuns, ShipRuns, LearnRuns,
                        Memory
    <2>2. Sound(mem, TRUE)
      BY <2>1 DEF SaveInv, Live, Counted
    <2>3. Sound(mem', TRUE)
      BY <2>1, <2>2, SameRecord
    <2> QED BY <2>1, <2>3 DEF SaveInv, Counted
  <1>8. CASE StageDone
    <2>1. /\ pc = "ran" /\ captured' = FALSE
          /\ mem.stage \in Work /\ verdict \in Verdict
      BY <1>8 DEF StageDone, Base, TypeOK, InSync
    <2>2. /\ mem'.stage = NextStage(mem.stage, verdict)
          /\ mem'.hist = Push(mem, verdict).hist
          /\ mem'.attempts = mem.attempts
      BY <1>0, <1>8, StageDoneMemory DEF StageDone, Push, Memory
    <2>3. Sound(mem, TRUE)
      BY <2>1 DEF SaveInv, Live, Counted
    <2> DEFINE m == mem'
    <2>4. m \in Memory /\ Sound(m, FALSE)
      BY <1>0, <2>1, <2>2, <2>3, PushSound
    <2>5. IF Terminal(m.stage) THEN Save(m, "completed", "closing")
                               ELSE Save(m, "pending", "loop")
      BY <1>8 DEF StageDone
    <2>6. /\ pc' \in {"loop", "closing"} /\ disk'.mem = m
          /\ disk'.state \in {"completed", "pending"}
      <3> HIDE DEF m
      <3>1. CASE Terminal(m.stage)
        BY <2>4, <2>5, <3>1, SaveSound
      <3>2. CASE ~Terminal(m.stage)
        BY <2>4, <2>5, <3>2, SaveSound
      <3> QED BY <3>1, <3>2
    <2> QED BY <2>1, <2>4, <2>6 DEF SaveInv, Counted
  <1>9. CASE RecordBlocker
    <2>1. /\ pc = "closing" /\ UNCHANGED <<pc, disk, captured>>
          /\ mem'.stage = mem.stage /\ mem'.hist = mem.hist
          /\ mem'.attempts = mem.attempts
      BY <1>0, <1>9 DEF RecordBlocker, Memory
    <2>2. Sound(mem, FALSE)
      BY <2>1 DEF SaveInv, Live, Counted
    <2>3. Sound(mem', FALSE)
      BY <2>1, <2>2, SameRecord
    <2> QED BY <2>1, <2>3 DEF SaveInv, Counted
  <1>10. CASE Report
    <2>1. pc = "closing" /\ Save(mem, "completed", "reported")
      BY <1>10 DEF Report
    <2>2. Sound(mem, FALSE) /\ Terminal(mem.stage)
      BY <1>0, <2>1 DEF SaveInv, Live, Counted, Base, TypeOK, InSync, Memory, Stage,
                        Terminal
    <2>3. pc' = "reported" /\ disk'.mem = mem /\ disk'.state = "completed"
      BY <1>0, <2>1, <2>2, SaveSound
    <2> QED BY <2>2, <2>3 DEF SaveInv, Live
  <1>11. CASE Stop \/ Tick
    BY <1>11 DEF Stop, Tick, SaveInv, Live, Counted
  <1> QED BY <1>1, <1>2, <1>3, <1>4, <1>5, <1>6, <1>7, <1>8, <1>9, <1>10, <1>11
          DEF Next, Loop, RunStage

\* The schema accepts every checkpoint of a cycle whose longest history and
\* whose stops fit into it (devCycleCheckpoint.ts:103, 110): the default of six
\* attempts takes nineteen of the hundred stages, and 33 attempts are the most
\* that fit.  Beyond either cap the claim is false: devCycle.ts:31 admits a
\* hundred attempts, the guard of a hundred stages counts anew in every process,
\* and nothing bounds the gates that are interrupted; a cycle resumed that often
\* outgrows its own schema, and every later resumption throws at its save.
THEOREM SavesAcceptedCorrect ==
  ASSUME HistoryFits, RerunsFit
  PROVE  Spec => []SavesAccepted
  <1>1. Init => SaveInv /\ RerunInv
    BY DEF Init, SaveInv, RerunInv, Live
  <1>2. SaveInv => SavesAccepted
    BY DEF SaveInv, SavesAccepted
  <1>3. /\ Base /\ Base' /\ SaveInv /\ RerunInv /\ RerunInv' /\ [Next]_vars
        => SaveInv'
    <2> SUFFICES ASSUME Base, Base', SaveInv, RerunInv, RerunInv', [Next]_vars
                 PROVE  SaveInv'
      OBVIOUS
    <2>1. /\ reruns' \in Nat /\ stops' \in 0..MaxStops /\ reruns' <= stops'
          /\ MaxStops \in Nat /\ RerunCap \in Nat /\ MaxStops <= RerunCap
      BY CapsAssumption, StopsAssumption DEF Base, TypeOK, RerunInv, RerunsFit
    <2>2. reruns' <= RerunCap
      BY <2>1
    <2> QED BY <2>2, SaveStep
  <1> QED BY <1>1, <1>2, <1>3, BaseInit, BaseStep, RerunStep, PTL DEF Spec
=============================================================================
