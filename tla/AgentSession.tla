---------------------------- MODULE AgentSession ----------------------------
(***************************************************************************)
(* The engine session of src/src/session/agentSession.ts: one transcript   *)
(* (history), the steer queue, the turn in flight, the follow-up driver    *)
(* promptDrainingFollowUps and manual compaction.  State is kept per       *)
(* session, so that RpcSurface composes several sessions by EXTENDS.       *)
(*                                                                         *)
(* An action is what runs between two awaits: JavaScript runs it to the    *)
(* end before any other handler.  The end of a turn and the start of the   *)
(* next queued follow-up are separated by microtasks only, no input        *)
(* handler runs between them, so they are one action (NextFollowUp).       *)
(*                                                                         *)
(* Operator inputs are numbered in the order they arrive (next); a         *)
(* message stands for the set of inputs it carries ("covers").             *)
(***************************************************************************)
EXTENDS Naturals, Sequences, FiniteSets

CONSTANTS
    Sessions,      \* the AgentSession objects
    Routes,        \* provider routes a session may be switched to
    DefaultRoute,  \* deps.route, the route given to the constructor
    MaxInputs      \* bound: how many inputs the operator sends in a run

ASSUME RouteAssumption == DefaultRoute \in Routes
ASSUME InputAssumption == MaxInputs \in Nat

Inputs == 1..MaxInputs
InputKinds == {"prompt", "steer", "follow_up"}
NoInput == [kind |-> "none"]

(***************************************************************************)
(* Messages.  "system" is the system prompt, "steering" a drained steer    *)
(* (pushed with role system), "summary" a compaction summary (role system  *)
(* with SUMMARY_ENTRY_PREFIX).                                             *)
(***************************************************************************)
Roles == {"system", "steering", "summary", "user", "assistant"}
Message == [role : Roles, covers : SUBSET Inputs]

SystemPrompt == [role |-> "system", covers |-> {}]
Reply == [role |-> "assistant", covers |-> {}]
UserMsg(t) == [role |-> "user", covers |-> {t}]
Notes(q) == [i \in DOMAIN q |-> [role |-> "steering", covers |-> {q[i]}]]

Elems(q) == {q[i] : i \in DOMAIN q}
Covered(h) == UNION {h[i].covers : i \in DOMAIN h}
CoversAt(h, P) == UNION {h[i].covers : i \in P}
Increasing(q) == \A i, j \in DOMAIN q : i < j => q[i] < q[j]

VARIABLES
    history,     \* AgentSession.history
    steers,      \* the "steer" items of steerQueue, in order
    followUps,   \* the "follow_up" items of steerQueue, in order
    turn,        \* currentAbort: "none", "running" or (signal tripped) "aborted"
    queued,      \* the batch promptDrainingFollowUps took and has not run yet
    compacting,  \* compactionRunning
    snapshot,    \* the adapted history compact() holds across its await
    route,       \* selectedRoute
    turnRoute,   \* the route the turn in flight (or the last one) was given
    next,        \* number of the next operator input
    input,       \* ghost: what each input was and which session took it
    told,        \* ghost: inputs written into a session's transcript
    steered,     \* ghost: steers handed to the model, in order
    ran,         \* ghost: follow-ups started as turns, in order
    discarded,   \* ghost: steers dropped by discardPendingSteers
    failed,      \* ghost: sessions whose driver ended with a thrown turn
    unread       \* ghost: inputs folded away that no summarizer read or reported

codeVars == <<history, steers, followUps, turn, queued, compacting, snapshot,
              route, turnRoute>>
ghostVars == <<input, told, steered, ran, discarded, failed, unread>>
sessionVars == <<codeVars, next, ghostVars>>

Init ==
    /\ history \in [Sessions -> {<<>>, <<SystemPrompt>>}]
    /\ steers = [s \in Sessions |-> <<>>]
    /\ followUps = [s \in Sessions |-> <<>>]
    /\ turn = [s \in Sessions |-> "none"]
    /\ queued = [s \in Sessions |-> <<>>]
    /\ compacting = [s \in Sessions |-> FALSE]
    /\ snapshot = [s \in Sessions |-> <<>>]
    /\ route = [s \in Sessions |-> DefaultRoute]
    /\ turnRoute = [s \in Sessions |-> DefaultRoute]
    /\ next = 1
    /\ input = [t \in Inputs |-> NoInput]
    /\ told = [s \in Sessions |-> {}]
    /\ steered = [s \in Sessions |-> <<>>]
    /\ ran = [s \in Sessions |-> <<>>]
    /\ discarded = [s \in Sessions |-> {}]
    /\ failed = {}
    /\ unread = [s \in Sessions |-> {}]

-----------------------------------------------------------------------------
(* Operator inputs.                                                        *)

Accept(kind, s) ==
    /\ next \in Inputs
    /\ next' = next + 1
    /\ input' = [input EXCEPT ![next] = [kind |-> kind, to |-> s]]

\* steer(): queue a nudge; it is pulled mid-run or at the next boundary.
Steer(s) ==
    /\ Accept("steer", s)
    /\ steers' = [steers EXCEPT ![s] = Append(@, next)]
    /\ UNCHANGED <<history, followUps, turn, queued, compacting, snapshot,
                   route, turnRoute, told, steered, ran, discarded, failed,
                   unread>>

\* followUp(): queue a fresh turn for when the agent stops.
FollowUp(s) ==
    /\ Accept("follow_up", s)
    /\ followUps' = [followUps EXCEPT ![s] = Append(@, next)]
    /\ UNCHANGED <<history, steers, turn, queued, compacting, snapshot, route,
                   turnRoute, told, steered, ran, discarded, failed, unread>>

\* discardPendingSteers(): follow-ups stay.
DiscardPendingSteers(s) ==
    /\ steers[s] # <<>>
    /\ steers' = [steers EXCEPT ![s] = <<>>]
    /\ discarded' = [discarded EXCEPT ![s] = @ \cup Elems(steers[s])]
    /\ UNCHANGED <<history, followUps, turn, queued, compacting, snapshot,
                   route, turnRoute, next, input, told, steered, ran, failed,
                   unread>>

\* abort(): trips the signal of the turn in flight, once.
Abort(s) ==
    /\ turn[s] = "running"
    /\ turn' = [turn EXCEPT ![s] = "aborted"]
    /\ UNCHANGED <<history, steers, followUps, queued, compacting, snapshot,
                   route, turnRoute, next, ghostVars>>

\* switchRoute(): refused while a turn runs.
SwitchRoute(s, r) ==
    /\ turn[s] = "none"
    /\ route' = [route EXCEPT ![s] = r]
    /\ UNCHANGED <<history, steers, followUps, turn, queued, compacting,
                   snapshot, turnRoute, next, ghostVars>>

-----------------------------------------------------------------------------
(* The turn.                                                               *)

\* Mutant: compactionRunning is not looked at.
MutantCanStartTurn(s) == turn[s] = "none"

\* prompt() and driveTurn(): both refuse during a compaction or a turn.
CanStartTurn(s) == ~compacting[s] /\ turn[s] = "none"

\* prompt(): boundary drain of the steers, then the user push.
Drained(h, q, t) == h \o Notes(q) \o <<UserMsg(t)>>

\* The turn on transcript h that answers t: what prompt() and driveTurn() do
\* up to the call of runTurn.
StartTurn(s, h, t) ==
    /\ history' = [history EXCEPT ![s] = Drained(h, steers[s], t)]
    /\ told' = [told EXCEPT ![s] = @ \cup Elems(steers[s]) \cup {t}]
    /\ steered' = [steered EXCEPT ![s] = @ \o steers[s]]
    /\ steers' = [steers EXCEPT ![s] = <<>>]
    /\ turn' = [turn EXCEPT ![s] = "running"]
    /\ turnRoute' = [turnRoute EXCEPT ![s] = route[s]]

\* promptDrainingFollowUps(): the primary prompt.
SubmitPrompt(s) ==
    /\ CanStartTurn(s)
    /\ Accept("prompt", s)
    /\ StartTurn(s, history[s], next)
    /\ UNCHANGED <<followUps, queued, compacting, snapshot, route, ran,
                   discarded, failed, unread>>

\* Mutant: the pulled items are not spliced out of the queue.
MutantPullSteering(s) ==
    /\ turn[s] = "running"
    /\ steers[s] # <<>>
    /\ steered' = [steered EXCEPT ![s] = @ \o steers[s]]
    /\ UNCHANGED <<codeVars, next, input, told, ran, discarded, failed,
                   unread>>

\* drainMidRunSteers(), called by the turn loop between two provider requests
\* and never after it saw the abort.  The notes go to the request, not to the
\* transcript.
PullSteering(s) ==
    /\ turn[s] = "running"
    /\ steers[s] # <<>>
    /\ steered' = [steered EXCEPT ![s] = @ \o steers[s]]
    /\ steers' = [steers EXCEPT ![s] = <<>>]
    /\ UNCHANGED <<history, followUps, turn, queued, compacting, snapshot,
                   route, turnRoute, next, input, told, ran, discarded, failed,
                   unread>>

\* An empty reply is never pushed.
AfterReply(s, replied) ==
    IF replied THEN Append(history[s], Reply) ELSE history[s]

\* The batch the driver runs next: what is left of the one it took, else
\* whatever takeFollowUps() finds.
Batch(s) == IF queued[s] # <<>> THEN queued[s] ELSE followUps[s]

\* The turn returns and the driver starts the next follow-up.
NextFollowUp(s, replied) ==
    /\ turn[s] # "none"
    /\ Batch(s) # <<>>
    /\ StartTurn(s, AfterReply(s, replied), Head(Batch(s)))
    /\ queued' = [queued EXCEPT ![s] = Tail(Batch(s))]
    /\ followUps' = [followUps EXCEPT ![s] = IF queued[s] # <<>> THEN @ ELSE <<>>]
    /\ ran' = [ran EXCEPT ![s] = Append(@, Head(Batch(s)))]
    /\ UNCHANGED <<compacting, snapshot, route, next, input, discarded, failed,
                   unread>>

\* Mutant: takeFollowUps() is not asked again after its batch.
MutantDriverStops(s) == queued[s] = <<>>

DriverStops(s) == Batch(s) = <<>>

\* The turn returns and nothing is queued: promptDrainingFollowUps resolves.
LastTurn(s, replied) ==
    /\ turn[s] # "none"
    /\ DriverStops(s)
    /\ history' = [history EXCEPT ![s] = AfterReply(s, replied)]
    /\ turn' = [turn EXCEPT ![s] = "none"]
    /\ UNCHANGED <<steers, followUps, queued, compacting, snapshot, route,
                   turnRoute, next, ghostVars>>

\* runTurn throws: nothing is pushed and the exception leaves the driver, with
\* the rest of the batch it had taken.
FailTurn(s) ==
    /\ turn[s] # "none"
    /\ turn' = [turn EXCEPT ![s] = "none"]
    /\ queued' = [queued EXCEPT ![s] = <<>>]
    /\ failed' = failed \cup {s}
    /\ UNCHANGED <<history, steers, followUps, compacting, snapshot, route,
                   turnRoute, next, input, told, steered, ran, discarded,
                   unread>>

EndTurn(s) ==
    \/ \E replied \in BOOLEAN : NextFollowUp(s, replied) \/ LastTurn(s, replied)
    \/ FailTurn(s)

-----------------------------------------------------------------------------
(* Compaction.                                                             *)

\* Mutant: a leading summary is protected like any other system message.
MutantHeadLen(h) ==
    IF h # <<>> /\ h[1].role \in {"system", "steering", "summary"} THEN 1 ELSE 0

\* A leading system message that is not a summary is protected; it is the
\* system prompt, or a steer drained before the first prompt.
HeadLen(h) ==
    IF h # <<>> /\ h[1].role \in {"system", "steering"} THEN 1 ELSE 0

\* findCutPoint(): the first kept entry is a user or assistant message and
\* something is folded.  Which one depends on token estimates, so any.
CutPoints(h) ==
    {k \in DOMAIN h :
        /\ h[k].role \in {"user", "assistant"}
        /\ \E j \in HeadLen(h) + 1..k - 1 : h[j].role # "summary"}

Folded(h, k) == HeadLen(h) + 1..k - 1

\* A kept suffix that begins inside a turn which is not the first.
SplitTurns(h, k) ==
    {u \in Folded(h, k) :
        /\ h[k].role = "assistant"
        /\ h[u].role = "user"
        /\ \A i \in u + 1..k - 1 : h[i].role # "user"
        /\ \E i \in HeadLen(h) + 1..u - 1 : h[i].role # "summary"}

\* runCompaction() folds in one request, or in two when a turn is split: what is
\* before that turn, and its prefix.  Each request has the previous summary.
Before(h, k, u) == {i \in Folded(h, k) : i < u \/ h[i].role = "summary"}
Prefix(h, k, u) == {i \in Folded(h, k) : i >= u \/ h[i].role = "summary"}

\* Mutant: the previous summary is not handed to the summarizer.
MutantRendered(h, region) == {{i \in region : h[i].role # "summary"}}

\* renderTranscriptBlock(): what the summarizer may get to read of a region.  A
\* text longer than MAX_SUMMARY_BLOCK_CHARS loses its middle, and with it the
\* messages that lie wholly inside; the two at the cuts keep a part.  The
\* previous summary is not in the block.
Rendered(h, region) ==
    LET block == {i \in region : h[i].role # "summary"}
    IN  {region \ {i \in block : a < i /\ i < b} : a, b \in block}

\* A reply may be empty.  With one request that is an error (FailCompaction); the
\* text made of two replies is never empty, so nobody notices.
Answered(h, region) == Rendered(h, region) \cup {{}}

\* The positions the new summary may stand for.
Summaries(h, k) ==
    IF SplitTurns(h, k) = {}
    THEN Rendered(h, Folded(h, k))
    ELSE UNION {{x \cup y : x \in Answered(h, Before(h, k, u)),
                            y \in Answered(h, Prefix(h, k, u))} :
                   u \in SplitTurns(h, k)}

\* What was elided or fell to an empty reply; an old summary falls to two.
Skipped(h, k, summed) ==
    {i \in Folded(h, k) \ summed : h[i].role # "summary" \/ summed = {}}

\* rebuildHistoryAfterCompaction(): head, one summary of the messages at the
\* positions summed, the kept suffix.
Rebuilt(h, k, summed) ==
    SubSeq(h, 1, HeadLen(h))
        \o <<[role |-> "summary", covers |-> CoversAt(h, summed)]>>
        \o SubSeq(h, k, Len(h))

\* compact(): returns busy (no step) during a turn or another compaction, and
\* resolves at once (no step) when there is nothing to fold.
BeginCompaction(s) ==
    /\ turn[s] = "none"
    /\ ~compacting[s]
    /\ CutPoints(history[s]) # {}
    /\ compacting' = [compacting EXCEPT ![s] = TRUE]
    /\ snapshot' = [snapshot EXCEPT ![s] = history[s]]
    /\ UNCHANGED <<history, steers, followUps, turn, queued, route, turnRoute,
                   next, ghostVars>>

\* The summaries arrived: the whole array is spliced from the adapted snapshot.
FinishCompaction(s) ==
    /\ compacting[s]
    /\ \E k \in CutPoints(snapshot[s]) : \E summed \in Summaries(snapshot[s], k) :
          /\ history' = [history EXCEPT ![s] = Rebuilt(snapshot[s], k, summed)]
          /\ unread' = [unread EXCEPT ![s] =
                @ \cup CoversAt(snapshot[s], Skipped(snapshot[s], k, summed))]
    /\ compacting' = [compacting EXCEPT ![s] = FALSE]
    /\ snapshot' = [snapshot EXCEPT ![s] = <<>>]
    /\ UNCHANGED <<steers, followUps, turn, queued, route, turnRoute, next,
                   input, told, steered, ran, discarded, failed>>

\* The summarizer threw or answered nothing: history untouched.
FailCompaction(s) ==
    /\ compacting[s]
    /\ compacting' = [compacting EXCEPT ![s] = FALSE]
    /\ snapshot' = [snapshot EXCEPT ![s] = <<>>]
    /\ UNCHANGED <<history, steers, followUps, turn, queued, route, turnRoute,
                   next, ghostVars>>

-----------------------------------------------------------------------------
SessionStep(s) ==
    \/ Steer(s)
    \/ FollowUp(s)
    \/ DiscardPendingSteers(s)
    \/ Abort(s)
    \/ \E r \in Routes : SwitchRoute(s, r)
    \/ SubmitPrompt(s)
    \/ PullSteering(s)
    \/ EndTurn(s)
    \/ BeginCompaction(s)
    \/ FinishCompaction(s)
    \/ FailCompaction(s)

Next == \E s \in Sessions : SessionStep(s)

Spec == Init /\ [][Next]_sessionVars

\* Every provider request ends: it answers, fails or reaches its timeout.
FairSpec == Spec /\ \A s \in Sessions : WF_sessionVars(EndTurn(s))

-----------------------------------------------------------------------------
(* Properties.                                                             *)

TypeOK ==
    /\ history \in [Sessions -> Seq(Message)]
    /\ steers \in [Sessions -> Seq(Inputs)]
    /\ followUps \in [Sessions -> Seq(Inputs)]
    /\ turn \in [Sessions -> {"none", "running", "aborted"}]
    /\ queued \in [Sessions -> Seq(Inputs)]
    /\ compacting \in [Sessions -> BOOLEAN]
    /\ snapshot \in [Sessions -> Seq(Message)]
    /\ route \in [Sessions -> Routes]
    /\ turnRoute \in [Sessions -> Routes]
    /\ next \in 1..MaxInputs + 1
    /\ input \in [Inputs -> [kind : InputKinds, to : Sessions] \cup {NoInput}]
    /\ told \in [Sessions -> SUBSET Inputs]
    /\ steered \in [Sessions -> Seq(Inputs)]
    /\ ran \in [Sessions -> Seq(Inputs)]
    /\ discarded \in [Sessions -> SUBSET Inputs]
    /\ failed \in SUBSET Sessions
    /\ unread \in [Sessions -> SUBSET Inputs]

\* While compact() awaits the summarizer no turn runs and nobody touches the
\* transcript, so the splice of the rebuilt snapshot overwrites nothing newer.
HistoryFrozenWhileCompacting ==
    \A s \in Sessions :
        compacting[s] => turn[s] = "none" /\ history[s] = snapshot[s]

\* No interleaving of prompts, follow-ups, steers and compactions loses an
\* input that was written into the transcript: it is still there verbatim or
\* folded into the summary, unless the summarizer was not given it (the elided
\* middle of engine.ts:98) or answered nothing about it (engine.ts:186).
TranscriptRemembersInputs ==
    \A s \in Sessions : told[s] \subseteq Covered(history[s]) \cup unread[s]

\* However often a transcript is compacted it has one summary at most, behind
\* the head: historyToCompactionEntries() hands on only the last it finds
\* (sessionHistory.ts:30-34), so a second one would be forgotten.
OneSummary ==
    \A s \in Sessions : \A i \in DOMAIN history[s] :
        history[s][i].role = "summary" => i = HeadLen(history[s]) + 1

\* Every accepted input is used exactly once and in the order it was typed: a
\* steer is pending, was handed to the model, or was discarded; a follow-up is
\* waiting or was run, as long as no turn of the session has thrown.
InputsOnceInOrder ==
    \A s \in Sessions :
        /\ Increasing(steered[s] \o steers[s])
        /\ Increasing(ran[s] \o queued[s] \o followUps[s])
        /\ \A t \in Inputs :
              /\ input[t] = [kind |-> "steer", to |-> s] =>
                     t \in Elems(steered[s]) \cup Elems(steers[s]) \cup discarded[s]
              /\ input[t] = [kind |-> "follow_up", to |-> s] /\ s \notin failed =>
                     t \in Elems(ran[s]) \cup Elems(queued[s]) \cup Elems(followUps[s])

\* A follow-up that waits behind a driven turn is eventually run, unless a
\* turn of the driver throws.
FollowUpEventuallyRuns ==
    \A s \in Sessions, t \in Inputs :
        (turn[s] # "none" /\ t \in Elems(followUps[s]))
            ~> (t \in Elems(ran[s]) \/ s \in failed)

\* followUp() promises "Queue a follow-up to run when the agent next stops":
\* an accepted follow-up is waiting or has been run, whatever its
\* predecessors' turns did.
AcceptedFollowUpIsKept ==
    \A s \in Sessions, t \in Inputs :
        input[t] = [kind |-> "follow_up", to |-> s] =>
            t \in Elems(ran[s]) \cup Elems(queued[s]) \cup Elems(followUps[s])
=============================================================================
