----------------------------- MODULE RpcSurface -----------------------------
(***************************************************************************)
(* Headless RPC mode: runRpcMode and dispatchRpc (src/src/surfaces/rpc.ts) *)
(* over the session graph (src/src/surfaces/rpcSessionGraph.ts) and the    *)
(* engine sessions of AgentSession.                                        *)
(*                                                                         *)
(* "prompt" and "set_model" go through one promise chain in input order;   *)
(* every other request runs at once on the session that is active then.    *)
(* fork awaits a session factory between its checks and its registration.  *)
(* A turn may block on an operator question held by the question broker,   *)
(* which end of input closes before it waits for the chain.                *)
(***************************************************************************)
EXTENDS AgentSession

CONSTANTS
    Root,      \* the session runRpcMode starts with
    MaxNodes   \* MAX_RPC_SESSION_NODES

ASSUME RootAssumption == Root \in Sessions
ASSUME NodesAssumption == MaxNodes \in Nat \ {0}

Idle == [session |-> "none"]

VARIABLES
    nodes,        \* registered sessions of the graph
    active,       \* currentSessionId
    runningTurns, \* sessionsWithRunningTurn
    chain,        \* orderedChain: accepted ordered requests not yet dispatched
    driving,      \* the prompt request the chain is awaiting, or Idle
    forks,        \* fork requests awaiting createForkSession()
    asking,       \* sessions whose turn awaits an operator question
    phase,        \* "open", then end of input: "finishing", then "closed"
    wanted        \* ghost: the route of the last set_model request received

graphVars == <<nodes, active, runningTurns, forks>>
rpcVars == <<graphVars, chain, driving, asking, phase, wanted>>
vars == <<sessionVars, rpcVars>>

OrderedRequest ==
    [kind : {"prompt"}, n : Inputs, route : Routes]
        \cup [kind : {"set_model"}, route : Routes]

ForkRequest ==
    [child : Sessions, parent : Sessions, index : Nat, folded : BOOLEAN]

RpcInit ==
    /\ Init
    /\ history = [s \in Sessions |-> <<>>]
    /\ nodes = {Root}
    /\ active = Root
    /\ runningTurns = {}
    /\ chain = <<>>
    /\ driving = Idle
    /\ forks = {}
    /\ asking = {}
    /\ phase = "open"
    /\ wanted = DefaultRoute

Reading == phase = "open"

-----------------------------------------------------------------------------
(* Ordered requests: prompt and set_model.                                 *)

ReceivePrompt ==
    /\ Reading
    /\ Accept("prompt", active)
    /\ chain' = Append(chain, [kind |-> "prompt", n |-> next, route |-> wanted])
    /\ UNCHANGED <<codeVars, told, steered, ran, discarded, failed, unread,
                   graphVars, driving, asking, phase, wanted>>

\* Mutant: set_model is dispatched at once, like steer or abort.
MutantReceiveSetModel(r) ==
    /\ Reading
    /\ wanted' = r
    /\ SwitchRoute(active, r)
    /\ UNCHANGED <<graphVars, chain, driving, asking, phase>>

\* At most one set_model waits behind each prompt (a bound of the model).
ReceiveSetModel(r) ==
    /\ Reading
    /\ r # wanted
    /\ \A i \in DOMAIN chain : i = Len(chain) => chain[i].kind = "prompt"
    /\ wanted' = r
    /\ chain' = Append(chain, [kind |-> "set_model", route |-> r])
    /\ UNCHANGED <<sessionVars, graphVars, driving, asking, phase>>

\* The chain runs its next link only when the one before has settled.
ChainReady(kind) ==
    /\ driving = Idle
    /\ chain # <<>>
    /\ Head(chain).kind = kind

\* dispatchRpc "set_model": on whatever session is active when its turn comes.
DispatchSetModel ==
    /\ ChainReady("set_model")
    /\ SwitchRoute(active, Head(chain).route)
    /\ chain' = Tail(chain)
    /\ UNCHANGED <<graphVars, driving, asking, phase, wanted>>

\* dispatchRpc "prompt" through withActiveTurn: the turn is registered, then
\* promptDrainingFollowUps starts it.
DispatchPrompt ==
    /\ ChainReady("prompt")
    /\ active \notin runningTurns
    /\ CanStartTurn(active)
    /\ StartTurn(active, history[active], Head(chain).n)
    /\ runningTurns' = runningTurns \cup {active}
    /\ driving' = [session |-> active, n |-> Head(chain).n, route |-> Head(chain).route]
    /\ chain' = Tail(chain)
    /\ UNCHANGED <<followUps, queued, compacting, snapshot, route, next, input,
                   ran, discarded, failed, unread, nodes, active, forks,
                   asking, phase, wanted>>

\* The session refuses the prompt (a compaction is running): the registered
\* turn is released at once and the request is answered with the error.
RefusePrompt ==
    /\ ChainReady("prompt")
    /\ ~CanStartTurn(active)
    /\ chain' = Tail(chain)
    /\ UNCHANGED <<sessionVars, graphVars, driving, asking, phase, wanted>>

-----------------------------------------------------------------------------
(* The turn a prompt drives.                                               *)

\* The turn's steps wait while it is blocked on the operator.
Stepping(s) == turn[s] # "none" /\ s \notin asking

TurnGoesOn(s) ==
    /\ Stepping(s)
    /\ PullSteering(s) \/ \E replied \in BOOLEAN : NextFollowUp(s, replied)
    /\ UNCHANGED rpcVars

\* Mutant: the finally of withActiveTurn is missing when the driver throws.
MutantDriverEnds(s) ==
    /\ Stepping(s)
    /\ \/ /\ \E replied \in BOOLEAN : LastTurn(s, replied)
          /\ runningTurns' = runningTurns \ {s}
       \/ /\ FailTurn(s)
          /\ UNCHANGED runningTurns
    /\ driving' = Idle
    /\ UNCHANGED <<nodes, active, forks, chain, asking, phase, wanted>>

\* promptDrainingFollowUps settles; withActiveTurn releases the session and
\* the chain goes on.
DriverEnds(s) ==
    /\ Stepping(s)
    /\ \/ \E replied \in BOOLEAN : LastTurn(s, replied)
       \/ FailTurn(s)
    /\ runningTurns' = runningTurns \ {s}
    /\ driving' = Idle
    /\ UNCHANGED <<nodes, active, forks, chain, asking, phase, wanted>>

\* The ask_question tool: the turn waits; a closed broker refuses it at once.
AskQuestion(s) ==
    /\ Reading
    /\ Stepping(s)
    /\ turn[s] = "running"
    /\ asking' = asking \cup {s}
    /\ UNCHANGED <<sessionVars, graphVars, chain, driving, phase, wanted>>

\* operator.answer; abort does not reach a waiting question.
Answer(s) ==
    /\ Reading
    /\ s \in asking
    /\ asking' = asking \ {s}
    /\ UNCHANGED <<sessionVars, graphVars, chain, driving, phase, wanted>>

-----------------------------------------------------------------------------
(* Requests that run at once on the active session.                        *)

ImmediateRequest ==
    /\ Reading
    /\ \/ Steer(active)
       \/ FollowUp(active)
       \/ Abort(active)
       \/ BeginCompaction(active)
    /\ UNCHANGED rpcVars

\* compact() of any session resolves; forks of it in flight are marked.
CompactionEnds(s) ==
    /\ \/ /\ FinishCompaction(s)
          /\ forks' = {IF f.parent = s THEN [f EXCEPT !.folded = TRUE] ELSE f : f \in forks}
       \/ /\ FailCompaction(s)
          /\ UNCHANGED forks
    /\ UNCHANGED <<nodes, active, runningTurns, chain, driving, asking, phase,
                   wanted>>

\* Mutant: the role of the message at throughHistoryIndex is not checked.
MutantForkable(p, i) == p \in nodes /\ i \in DOMAIN history[p]

\* fork(): what must hold of the parent and the index when it is requested.
Forkable(p, i) ==
    /\ p \in nodes
    /\ i \in DOMAIN history[p]
    /\ history[p][i].role = "user"

\* fork() up to its await of createForkSession().
BeginFork(p, c) ==
    /\ Reading
    /\ p \notin runningTurns
    /\ active \notin runningTurns
    /\ Cardinality(nodes) < MaxNodes
    /\ c \notin nodes \cup {f.child : f \in forks}
    /\ \E i \in DOMAIN history[p] :
          /\ Forkable(p, i)
          /\ forks' = forks \cup {[child |-> c, parent |-> p, index |-> i, folded |-> FALSE]}
    /\ UNCHANGED <<sessionVars, nodes, active, runningTurns, chain, driving,
                   asking, phase, wanted>>

\* The slice of the parent's transcript as it is when the factory returns.
ForkHistory(f) ==
    LET h == history[f.parent]
    IN  SubSeq(h, 1, IF f.index < Len(h) THEN f.index ELSE Len(h))

\* fork() after the await: copy, register, activate.  Nothing is rechecked.
CompleteFork(f) ==
    /\ history' = [history EXCEPT ![f.child] = ForkHistory(f)]
    /\ told' = [told EXCEPT ![f.child] = Covered(ForkHistory(f))]
    /\ nodes' = nodes \cup {f.child}
    /\ active' = f.child
    /\ forks' = forks \ {f}
    /\ UNCHANGED <<steers, followUps, turn, queued, compacting, snapshot,
                   route, turnRoute, next, input, steered, ran, discarded,
                   failed, unread, runningTurns, chain, driving, asking,
                   phase, wanted>>

\* The factory rejects: the graph is as before.
FailFork(f) ==
    /\ forks' = forks \ {f}
    /\ UNCHANGED <<sessionVars, nodes, active, runningTurns, chain, driving,
                   asking, phase, wanted>>

ForkEnds == \E f \in forks : CompleteFork(f) \/ FailFork(f)

\* switchSession(): refused while the active or the target session has a turn.
SwitchSession(s) ==
    /\ Reading
    /\ s \in nodes \ {active}
    /\ active \notin runningTurns
    /\ s \notin runningTurns
    /\ active' = s
    /\ UNCHANGED <<sessionVars, nodes, runningTurns, forks, chain, driving,
                   asking, phase, wanted>>

-----------------------------------------------------------------------------
(* End of input.                                                           *)

\* Mutant: finish() waits for the chain without closing the questions first.
MutantEndOfInput ==
    /\ Reading
    /\ phase' = "finishing"
    /\ UNCHANGED <<sessionVars, graphVars, chain, driving, asking, wanted>>

\* finish(): pending questions are rejected, the broker is closed.
EndOfInput ==
    /\ Reading
    /\ phase' = "finishing"
    /\ asking' = {}
    /\ UNCHANGED <<sessionVars, graphVars, chain, driving, wanted>>

\* orderedChain, then every pending dispatch, has settled: the mode returns.
CloseMode ==
    /\ phase = "finishing"
    /\ chain = <<>>
    /\ driving = Idle
    /\ forks = {}
    /\ \A s \in Sessions : ~compacting[s]
    /\ phase' = "closed"
    /\ UNCHANGED <<sessionVars, graphVars, chain, driving, asking, wanted>>

-----------------------------------------------------------------------------
RpcNext ==
    \/ ReceivePrompt
    \/ \E r \in Routes : ReceiveSetModel(r)
    \/ DispatchSetModel
    \/ DispatchPrompt
    \/ RefusePrompt
    \/ ImmediateRequest
    \/ \E s \in Sessions :
          TurnGoesOn(s) \/ DriverEnds(s) \/ AskQuestion(s) \/ Answer(s)
          \/ CompactionEnds(s) \/ SwitchSession(s)
    \/ \E p, c \in Sessions : BeginFork(p, c)
    \/ ForkEnds
    \/ EndOfInput
    \/ CloseMode

RpcSpec == RpcInit /\ [][RpcNext]_vars

\* What the host owes: every provider request, summary and session factory
\* settles, and settled promises run their continuations.
RpcFairSpec ==
    /\ RpcSpec
    /\ WF_vars(DispatchSetModel \/ DispatchPrompt \/ RefusePrompt)
    /\ WF_vars(ForkEnds)
    /\ WF_vars(CloseMode)
    /\ \A s \in Sessions :
          /\ WF_vars(DriverEnds(s) \/ TurnGoesOn(s))
          /\ WF_vars(CompactionEnds(s))

-----------------------------------------------------------------------------
(* Properties.                                                             *)

\* The graph's record of running turns, the chain's link and the engine agree:
\* one turn at a time in the whole graph, and the session it runs in is the one
\* marked, so that fork and switch checks look at the truth.
OneTurnAcrossGraph ==
    /\ runningTurns = {s \in Sessions : turn[s] # "none"}
    /\ runningTurns = IF driving = Idle THEN {} ELSE {driving.session}

\* set_model keeps its place among the prompts: as long as the root is the only
\* session, each prompt's turns run on the route last asked for before it.
RouteFollowsInputOrder ==
    (nodes = {Root} /\ driving # Idle) => turnRoute[Root] = driving.route

\* A new branch ends with the user message it was asked to fork through, unless
\* its parent was compacted while the factory was awaited.
ForkEndsAtUserMessage ==
    [][\A f \in forks :
          (f.child \in nodes' /\ ~f.folded) =>
              /\ history'[f.child] # <<>>
              /\ history'[f.child][Len(history'[f.child])].role = "user"]_vars

\* End of input never deadlocks on a question: the mode returns.
EndOfInputCloses == phase = "finishing" ~> phase = "closed"

\* fork and switch are blocked during turns, so the session whose turn runs is
\* the active one: abort and steer reach it and its events are wired.
RunningTurnIsActive == runningTurns \subseteq {active}
=============================================================================
