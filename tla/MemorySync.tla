----------------------------- MODULE MemorySync -----------------------------
(***************************************************************************)
(* syncUp of src/src/memory/sync.ts: under the publication lock, the facts *)
(* of the file memory (L1) are replayed to the operational store (L2) and  *)
(* to Honcho (L3), by processes that may die between any two steps.        *)
(*                                                                         *)
(* A checkpoint is the hash a sink took and when.  An edit gives a fact a  *)
(* new hash (its updatedAt is part of the hashed text), so versions count  *)
(* up and stand for hashes.  Versions may say the same: an edit of the     *)
(* description alone, or one that is taken back, changes the hash and not  *)
(* what the operational store compares.  The clock may step back.  What    *)
(* the model leaves out: typed loadouts (an upsert per layer instead of    *)
(* one snapshot), the secret gate, legacy orphan files and malformed       *)
(* ledgers.                                                                *)
(***************************************************************************)
EXTENDS PublicationLock, Naturals, FiniteSets

CONSTANTS
    NumFacts,    \* facts; a round takes them in turn (memory.list() sorts the last
                 \* edited first, which no property sees: facts share nothing)
    MaxVersion,  \* edits of one fact
    MaxTime      \* readings of the clock that differ

ASSUME BoundsAssumption == {NumFacts, MaxVersion, MaxTime} \subseteq Nat \ {0}

Facts == 1..NumFacts
Sinks == {"l2", "l3"}
Never == [version |-> 0, time |-> 0]
Checkpoint == [version : 0..MaxVersion, time : 0..MaxTime]
Ledger == [Facts \X Sinks -> Checkpoint]
EmptyLedger == [e \in Facts \X Sinks |-> Never]
NoFile == {}   \* a file is the set of what it holds
Deeds == Facts \X (1..MaxVersion)

VARIABLES
    edits,    \* the versions a fact has had
    content,  \* the L1 fact: its version, or 0 when it is forgotten
    says,     \* title, body and confidence of a version: those of which version
    clock,    \* now()
    setback,  \* history: the clock has stepped back
    primary,  \* the ledger file, or NoFile
    pending,  \* the pending checkpoint file, or NoFile
    intents,  \* the L3 intent files: "none", "partial" or "whole"
    inserts,  \* snapshots on their way to the operational store
    written,  \* the versions the operational store took
    net,      \* remember requests on their way to Honcho
    taken,    \* how often Honcho took a version
    job       \* the locals of a client's syncUpWhileLocked

l1Vars   == <<edits, content, says>>
timeVars == <<clock, setback>>
diskVars == <<primary, pending, intents>>
l2Vars   == <<inserts, written>>
l3Vars   == <<net, taken>>
sinkVars == <<l2Vars, l3Vars>>
vars == <<lockVars, l1Vars, timeVars, diskVars, sinkVars, job>>

Steps == {"none", "load", "l2", "l2list", "l2write", "l2save", "l3", "intent", "send", "answer",
          "recall", "l3save", "close", "publish", "unpend", "unintend", "leave"}

NoJob == [step |-> "none", fact |-> 1, entries |-> [f \in Facts |-> 0], state |-> EmptyLedger,
          dirty |-> FALSE, saved |-> FALSE, gate |-> "unasked", complete |-> {}, time |-> 0]

Jobs == [step : Steps, fact : 1..(NumFacts + 1), entries : [Facts -> 0..MaxVersion],
         state : Ledger, dirty : BOOLEAN, saved : BOOLEAN, gate : {"unasked", "ready", "refused"},
         complete : SUBSET Deeds, time : 0..MaxTime]

IsFile(file) == file = NoFile \/ \E s \in Ledger : file = {s}

TypeOK ==
    /\ edits \in [Facts -> 0..MaxVersion] /\ content \in [Facts -> 0..MaxVersion]
    /\ says \in [Deeds -> 1..MaxVersion]
    /\ clock \in 0..MaxTime /\ setback \in BOOLEAN
    /\ IsFile(primary) /\ IsFile(pending)
    /\ intents \in [Deeds -> {"none", "partial", "whole"}]
    /\ inserts \subseteq Deeds /\ written \subseteq Deeds
    /\ net \subseteq Deeds /\ taken \in [Deeds -> Nat]
    /\ job \in [Clients -> Jobs]

Init ==
    /\ LockInit
    /\ edits = [f \in Facts |-> 1] /\ content = edits
    /\ says \in {s \in [Deeds -> 1..MaxVersion] : \A d \in Deeds : s[d] <= d[2]}
    /\ clock = 1 /\ setback = FALSE
    /\ primary = NoFile /\ pending = NoFile
    /\ intents = [d \in Deeds |-> "none"]
    /\ inserts = {} /\ written = {}
    /\ net = {} /\ taken = [d \in Deeds |-> 0]
    /\ job = [c \in Clients |-> NoJob]

-----------------------------------------------------------------------------
(* The user, and what reaches the sinks.                                   *)

\* The user edits a fact, writes a forgotten one anew, or forgets it.
Edit(f) ==
    /\ \/ /\ edits[f] < MaxVersion
          /\ edits' = [edits EXCEPT ![f] = @ + 1]
          /\ content' = [content EXCEPT ![f] = edits'[f]]
       \/ /\ content[f] /= 0
          /\ content' = [content EXCEPT ![f] = 0]
          /\ UNCHANGED edits
    /\ UNCHANGED <<lockVars, says, timeVars, diskVars, sinkVars, job>>

\* A snapshot reaches the operational store, also one whose sync has gone on or
\* died, or is lost.
Insert(d) ==
    /\ d \in inserts
    /\ inserts' = inserts \ {d}
    /\ \/ written' = written \cup {d}
       \/ UNCHANGED written
    /\ UNCHANGED <<lockVars, l1Vars, timeVars, diskVars, l3Vars, job>>

\* A request reaches Honcho, also one whose sender is gone, or is lost.
Deliver(d) ==
    /\ d \in net
    /\ net' = net \ {d}
    /\ \/ taken' = [taken EXCEPT ![d] = @ + 1]
       \/ UNCHANGED taken
    /\ UNCHANGED <<lockVars, l1Vars, timeVars, diskVars, l2Vars, job>>

-----------------------------------------------------------------------------
(* The ledger.                                                             *)

\* acceptedCheckpoint(): of the primary's a and the pending's b.  Versions of
\* the same time that differ are an error (Clash).
Newer(a, b) == IF a = Never THEN b ELSE IF b = Never THEN a
               ELSE IF b.time >= a.time THEN b ELSE a

Contents(file) == IF file = NoFile THEN EmptyLedger ELSE CHOOSE s \in file : TRUE
Clash == \E e \in Facts \X Sinks :
            LET a == Contents(primary)[e]  b == Contents(pending)[e]
            IN a /= Never /\ b /= Never /\ a.time = b.time /\ a.version /= b.version

\* loadState(): the primary merged with what a sync that died had accepted.
Merged == [e \in Facts \X Sinks |-> Newer(Contents(primary)[e], Contents(pending)[e])]

-----------------------------------------------------------------------------
(* One sync.  Each action is what runs between two awaits, or one change   *)
(* of the disk, since the process may die between two of those.            *)

Job(c) == job[c]
Fact(c) == job[c].fact
Deed(c) == <<Fact(c), job[c].entries[Fact(c)]>>
AtStep(c, s) == lk[c] = "held" /\ job[c].step = s
Goto(c, s) == job' = [job EXCEPT ![c].step = s]
Abandon(c) == job' = [job EXCEPT ![c] = [NoJob EXCEPT !.step = "leave"]]
KeepSinks == UNCHANGED <<lockVars, l1Vars, timeVars, sinkVars>>

\* The lock is taken: the job begins with it.
Take(c) ==
    /\ Acquiring(c)
    /\ job' = IF lk'[c] = "held" THEN [job EXCEPT ![c] = [NoJob EXCEPT !.step = "load"]] ELSE job
    /\ UNCHANGED <<l1Vars, timeVars, diskVars, sinkVars>>

\* now(), loadState() and memory.list().  The clock is the wall clock: it may
\* have been set back since the last sync.
Load(c) ==
    /\ AtStep(c, "load")
    /\ clock' \in 1..MaxTime
    /\ setback' = (setback \/ clock' < clock)
    /\ IF Clash THEN Abandon(c)
       ELSE job' = [job EXCEPT ![c] =
                      [NoJob EXCEPT !.step = "l2", !.entries = content, !.state = Merged,
                                    !.dirty = (pending /= NoFile), !.saved = (pending /= NoFile),
                                    !.time = clock']]
    /\ UNCHANGED <<lockVars, l1Vars, diskVars, sinkVars>>

\* The loop goes on with locals j: the next fact, or the end.
NextFact(c, j) ==
    [job EXCEPT ![c] = [j EXCEPT !.fact = @ + 1,
                                 !.step = IF j.fact = NumFacts THEN "close" ELSE "l2"]]

\* replayL2() up to its first await; a fact that is not live has no entry.
BeginL2(c) ==
    LET j == Job(c)  v == j.entries[j.fact]
    IN /\ AtStep(c, "l2")
       /\ IF v = 0 THEN job' = NextFact(c, j)
          ELSE Goto(c, IF j.state[<<j.fact, "l2">>].version = v THEN "l3" ELSE "l2list")
       /\ KeepSinks /\ UNCHANGED diskVars

\* hasMatchingSnapshot(): the store has this version, or one that says the same.
Matching(d) == \E w \in written : w[1] = d[1] /\ says[w] = says[d]

\* listStateSnapshots() fails, or answers: what matches is not written again,
\* anything else is sent by writeStateSnapshot() in the same turn.
ListL2(c) ==
    /\ AtStep(c, "l2list")
    /\ \/ Matching(Deed(c)) /\ Goto(c, "l2save") /\ UNCHANGED inserts
       \/ ~ Matching(Deed(c)) /\ Goto(c, "l2write") /\ inserts' = inserts \cup {Deed(c)}
       \/ Goto(c, "l3") /\ UNCHANGED inserts
    /\ UNCHANGED <<lockVars, l1Vars, timeVars, diskVars, written, l3Vars>>

\* Mutant: the insert is not awaited.
MutantWriteL2(c) ==
    /\ AtStep(c, "l2write")
    /\ Goto(c, "l2save")
    /\ KeepSinks /\ UNCHANGED diskVars

\* writeStateSnapshot() answers: taken, or an error, which says nothing of an
\* insert that is still on its way.
WriteL2(c) ==
    /\ AtStep(c, "l2write")
    /\ \/ Deed(c) \in written \ inserts /\ Goto(c, "l2save")
       \/ Goto(c, "l3")
    /\ KeepSinks /\ UNCHANGED diskVars

\* The locals j with the checkpoint of the current fact in a sink.
Accepted(j, sink) ==
    [j EXCEPT !.state[<<j.fact, sink>>] = [version |-> j.entries[j.fact], time |-> j.time],
              !.dirty = TRUE, !.saved = TRUE]

\* persistAcceptedProgress(): the accepted state goes to the pending file.
SaveL2(c) ==
    LET j == Accepted(Job(c), "l2")
    IN /\ AtStep(c, "l2save")
       /\ pending' = {j.state}
       /\ job' = [job EXCEPT ![c] = [j EXCEPT !.step = "l3"]]
       /\ KeepSinks /\ UNCHANGED <<primary, intents>>

\* replayL3() up to the fact's own requests.  Honcho's status is asked for once
\* in a sync.
BeginL3(c) ==
    LET j == Job(c)  d == Deed(c)
    IN /\ AtStep(c, "l3")
       /\ IF intents[d] = "partial" THEN Abandon(c)
          ELSE IF j.state[<<j.fact, "l3">>].version = d[2]
            THEN job' = NextFact(c, IF intents[d] = "whole" THEN [j EXCEPT !.complete = @ \cup {d}] ELSE j)
          ELSE \E g \in IF j.gate = "unasked" THEN {"ready", "refused"} ELSE {j.gate} :
                 job' = IF g = "refused" THEN NextFact(c, [j EXCEPT !.gate = g])
                        ELSE [job EXCEPT ![c].gate = g,
                                         ![c].step = IF intents[d] = "whole" THEN "recall" ELSE "intent"]
       /\ KeepSinks /\ UNCHANGED diskVars

\* Mutant: the intent is only kept in memory.
MutantWriteIntent(c) ==
    /\ AtStep(c, "intent")
    /\ Goto(c, "send")
    /\ KeepSinks /\ UNCHANGED diskVars

\* ensureL3Intent(): the file is created, then filled.
WriteIntent(c) ==
    /\ AtStep(c, "intent")
    /\ intents' = [intents EXCEPT ![Deed(c)] = IF @ = "none" THEN "partial" ELSE "whole"]
    /\ Goto(c, IF intents[Deed(c)] = "none" THEN "intent" ELSE "send")
    /\ KeepSinks /\ UNCHANGED <<primary, pending>>

\* remember() sends the fact.
Send(c) ==
    /\ AtStep(c, "send")
    /\ net' = net \cup {Deed(c)}
    /\ Goto(c, "answer")
    /\ UNCHANGED <<lockVars, l1Vars, timeVars, diskVars, l2Vars, taken>>

\* remember() answers: accepted, or an answer that says nothing.
Answer(c) ==
    /\ AtStep(c, "answer")
    /\ \/ taken[Deed(c)] > 0 /\ Goto(c, "l3save")
       \/ Goto(c, "recall")
    /\ KeepSinks /\ UNCHANGED diskVars

\* Honcho rejects the write: nothing was taken and the intent is withdrawn; if
\* that fails, the answer counts as one that says nothing.
Rejected(c) ==
    /\ AtStep(c, "answer")
    /\ Deed(c) \in net
    /\ net' = net \ {Deed(c)}
    /\ \/ /\ intents' = [intents EXCEPT ![Deed(c)] = "none"]
          /\ job' = NextFact(c, Job(c))
       \/ UNCHANGED intents /\ Goto(c, "recall")
    /\ UNCHANGED <<lockVars, l1Vars, timeVars, primary, pending, l2Vars, taken>>

\* Mutant: a recall that does not find the write permits a new one.
MutantRecall(c) ==
    /\ AtStep(c, "recall")
    /\ Goto(c, IF taken[Deed(c)] > 0 THEN "l3save" ELSE "send")
    /\ KeepSinks /\ UNCHANGED diskVars

\* reconcileL3Intent(): only a match settles it; absent is not "not written",
\* the request may still be on its way.
Recall(c) ==
    /\ AtStep(c, "recall")
    /\ \/ taken[Deed(c)] > 0 /\ Goto(c, "l3save")
       \/ job' = NextFact(c, Job(c))
    /\ KeepSinks /\ UNCHANGED diskVars

\* The L3 checkpoint is accepted and its intent is complete.
SaveL3(c) ==
    LET j == Accepted(Job(c), "l3")
    IN /\ AtStep(c, "l3save")
       /\ pending' = {j.state}
       /\ job' = NextFact(c, [j EXCEPT !.complete = @ \cup {Deed(c)}])
       /\ KeepSinks /\ UNCHANGED <<primary, intents>>

\* Mutant: the pending file goes before the primary is replaced.
MutantClose(c) ==
    /\ AtStep(c, "close")
    /\ Goto(c, IF Job(c).saved THEN "unpend" ELSE "publish")
    /\ KeepSinks /\ UNCHANGED diskVars

\* After the loop forgotten facts leave the state; a state that changed goes
\* to pending first, if anything of it was accepted there.
Close(c) ==
    LET j == Job(c)
        s == [e \in Facts \X Sinks |-> IF j.entries[e[1]] = 0 THEN Never ELSE j.state[e]]
        dirty == j.dirty \/ s /= j.state
    IN /\ AtStep(c, "close")
       /\ pending' = IF dirty /\ j.saved THEN {s} ELSE pending
       /\ job' = [job EXCEPT ![c] = [j EXCEPT !.state = s, !.dirty = dirty,
                                              !.step = IF dirty THEN "publish" ELSE "unintend"]]
       /\ KeepSinks /\ UNCHANGED <<primary, intents>>

\* writeStateWhileLocked(): the primary is replaced.
Publish(c) ==
    /\ AtStep(c, "publish")
    /\ primary' = {Job(c).state}
    /\ Goto(c, IF Job(c).saved THEN "unpend" ELSE "unintend")
    /\ KeepSinks /\ UNCHANGED <<pending, intents>>

\* removePendingCheckpoint().
Unpend(c) ==
    /\ AtStep(c, "unpend")
    /\ pending' = NoFile
    /\ Goto(c, "unintend")
    /\ KeepSinks /\ UNCHANGED <<primary, intents>>

\* removeL3Intent() of each completed intent.
Unintend(c) ==
    /\ AtStep(c, "unintend")
    /\ IF Job(c).complete = {} THEN Abandon(c) /\ UNCHANGED intents
       ELSE \E d \in Job(c).complete :
              /\ intents' = [intents EXCEPT ![d] = "none"]
              /\ job' = [job EXCEPT ![c].complete = @ \ {d}]
    /\ KeepSinks /\ UNCHANGED <<primary, pending>>

\* A change of the disk may throw, and syncUp with it.
DiskSteps == {"l2save", "intent", "l3save", "close", "publish", "unpend", "unintend"}

DiskFails(c) ==
    /\ lk[c] = "held" /\ Job(c).step \in DiskSteps
    /\ Abandon(c)
    /\ KeepSinks /\ UNCHANGED diskVars

\* The finally of syncUp.
Leave(c) ==
    /\ AtStep(c, "leave")
    /\ Unlock(c)
    /\ job' = [job EXCEPT ![c] = NoJob]
    /\ UNCHANGED <<l1Vars, timeVars, diskVars, sinkVars>>

\* The process dies; its requests may still be on their way.
Crash(c) ==
    /\ Perish(c)
    /\ job' = [job EXCEPT ![c] = NoJob]
    /\ UNCHANGED <<l1Vars, timeVars, diskVars, sinkVars>>

SyncStep(c) ==
    \/ Load(c) \/ BeginL2(c) \/ ListL2(c) \/ WriteL2(c) \/ SaveL2(c)
    \/ BeginL3(c) \/ WriteIntent(c) \/ Send(c) \/ Answer(c) \/ Rejected(c) \/ Recall(c)
    \/ SaveL3(c) \/ Close(c) \/ Publish(c) \/ Unpend(c) \/ Unintend(c) \/ DiskFails(c) \/ Leave(c)

Next ==
    \/ \E c \in Clients : Take(c) \/ SyncStep(c) \/ Crash(c)
    \/ \E f \in Facts : Edit(f)
    \/ \E d \in Deeds : Insert(d) \/ Deliver(d)

Spec == Init /\ [][Next]_vars

-----------------------------------------------------------------------------
(* Properties.  They hold until one of two things the code does not guard  *)
(* against: a process strays from the path of the lock, after which two    *)
(* may hold it, or the clock is set back.                                  *)

Undisturbed == ~ strayed /\ ~ setback

\* At most once: Honcho, which would not notice, never takes a version of a fact
\* twice, however often syncs die, answers are lost, requests arrive late and
\* syncs are retried.
HonchoTakesOnce == Undisturbed => \A d \in Deeds : taken[d] <= 1

\* A checkpoint on the disk is never ahead of its sink: Honcho took the version
\* it names, and the operational store that one or one that says the same, so a
\* fact that is skipped as unchanged is really there.
CheckpointsAreTrue ==
    Undisturbed =>
    \A file \in {Contents(primary), Contents(pending)}, f \in Facts :
        LET v2 == file[<<f, "l2">>].version  v3 == file[<<f, "l3">>].version
        IN /\ v2 /= 0 => Matching(<<f, v2>>)
           /\ v3 /= 0 => taken[<<f, v3>>] > 0

\* What the next sync would load never goes back to an older version of a
\* fact, whatever dies between the files, but in a sync that found the fact
\* forgotten and drops it.  (The merge compares times: after the clock was set
\* back an older checkpoint with a later time would win.)
LedgerNeverRegresses ==
    [][Undisturbed' =>
         \A e \in Facts \X Sinks :
             \/ Merged'[e].version >= Merged[e].version
             \/ \E c \in Holders : job[c].entries[e[1]] = 0]_vars

\* A request for what the fact says now that is on its way, or taken and not in
\* the ledger yet, is covered by its intent on the disk: whoever syncs next
\* must reconcile and not send.
IntentCovers ==
    Undisturbed =>
    \A d \in Deeds :
        d[2] = content[d[1]]
        /\ (d \in net
            \/ (taken[d] > 0 /\ Merged[<<d[1], "l3">>].version < d[2]))
            => intents[d] = "whole"
=============================================================================
