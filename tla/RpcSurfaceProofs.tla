-------------------------- MODULE RpcSurfaceProofs --------------------------
(***************************************************************************)
(* TLAPS proofs about RpcSurface for every set of sessions and routes and  *)
(* every number of inputs.                                                 *)
(*                                                                         *)
(* A step of the surface is a step of one engine session, or it starts a   *)
(* prompt it accepted earlier, or it registers a fork (StepKinds).  So the *)
(* invariants of AgentSession hold of every session of the graph, and with *)
(* them RpcInv is inductive: Living says that only registered sessions     *)
(* have turns and compactions, ForksSound that the child of a fork in      *)
(* flight is nobody yet and its parent still holds the message it is cut   *)
(* at, LinkedRoutes that along the chain each prompt has the route of its  *)
(* predecessor.                                                            *)
(***************************************************************************)
EXTENDS RpcSurface, AgentSessionProofs

USE DEF sessionVars, codeVars, ghostVars

-----------------------------------------------------------------------------
(* The invariant.                                                          *)

Request == [session : Sessions, n : Inputs, route : Routes]

GraphTypeOK ==
    /\ nodes \subseteq Sessions
    /\ Root \in nodes
    /\ active \in nodes
    /\ runningTurns \subseteq Sessions
    /\ chain \in Seq(OrderedRequest)
    /\ driving \in Request \cup {Idle}
    /\ forks \subseteq ForkRequest
    /\ wanted \in Routes

\* Only sessions of the graph have turns and compactions.
Living == \A s \in Sessions : turn[s] # "none" \/ compacting[s] => s \in nodes

\* A fork in flight.
ForksSound ==
    /\ \A f \in forks : f.child \notin nodes /\ f.parent \in nodes
    /\ \A f, g \in forks : f.child = g.child => f = g
    /\ \A f \in forks :
          ~f.folded => /\ f.index \in DOMAIN history[f.parent]
                       /\ history[f.parent][f.index].role = "user"

\* The route that is selected when the chain has come to its i-th request.
RouteAt(i) == IF i = 1 THEN route[Root] ELSE chain[i - 1].route

LinkedRoutes ==
    nodes = {Root} =>
        /\ driving # Idle => driving.route = route[Root]
        /\ \A i \in DOMAIN chain : chain[i].kind = "prompt" => chain[i].route = RouteAt(i)
        /\ wanted = RouteAt(Len(chain) + 1)

SessionInv == TypeOK /\ Remembers /\ TurnKeepsRoute /\ InOrder

RpcInv ==
    /\ SessionInv
    /\ GraphTypeOK
    /\ OneTurnAcrossGraph
    /\ Living
    /\ ForksSound
    /\ LinkedRoutes

-----------------------------------------------------------------------------
(* Types of the graph and the chain.                                       *)

LEMMA IdleIsNoRequest == \A q \in Request : q # Idle /\ q.session \in Sessions
  <1> SUFFICES ASSUME NEW q \in Request PROVE q # Idle /\ q.session \in Sessions
    OBVIOUS
  <1>1. "n" \in DOMAIN q /\ q.session \in Sessions
    BY DEF Request
  <1>2. "n" \notin DOMAIN Idle
    BY DEF Idle
  <1> QED
    BY <1>1, <1>2

\* The chain has its first request taken.
LEMMA TailOfChain ==
    ASSUME GraphTypeOK, chain # <<>>, chain' = Tail(chain)
    PROVE  /\ Head(chain) \in OrderedRequest /\ Head(chain) = chain[1]
           /\ chain' \in Seq(OrderedRequest)
           /\ Len(chain) \in Nat \ {0} /\ Len(chain') = Len(chain) - 1
           /\ DOMAIN chain = 1..Len(chain) /\ DOMAIN chain' = 1..Len(chain')
           /\ \A i \in 1..Len(chain') : chain'[i] = chain[i + 1]
  <1>1. chain \in Seq(OrderedRequest)
    BY DEF GraphTypeOK
  <1> QED
    BY <1>1

\* The chain has a request more.
LEMMA LongerChain ==
    ASSUME GraphTypeOK, NEW q \in OrderedRequest, chain' = Append(chain, q)
    PROVE  /\ chain' \in Seq(OrderedRequest)
           /\ Len(chain) \in Nat /\ Len(chain') = Len(chain) + 1
           /\ DOMAIN chain = 1..Len(chain) /\ DOMAIN chain' = 1..Len(chain')
           /\ \A i \in 1..Len(chain) : chain'[i] = chain[i]
           /\ chain'[Len(chain) + 1] = q
  <1>1. chain \in Seq(OrderedRequest)
    BY DEF GraphTypeOK
  <1> QED
    BY <1>1

LEMMA OrderedRequests ==
    /\ \A q \in OrderedRequest : q.route \in Routes /\ q.kind \in {"prompt", "set_model"}
    /\ \A q \in OrderedRequest : q.kind = "prompt" => q.n \in Inputs
    /\ \A t \in Inputs, r \in Routes : [kind |-> "prompt", n |-> t, route |-> r] \in OrderedRequest
    /\ \A r \in Routes : [kind |-> "set_model", route |-> r] \in OrderedRequest
  BY DEF OrderedRequest

-----------------------------------------------------------------------------
(* The engine sessions of the graph.                                       *)

\* A step of the surface is a step of an engine session, or one of three.
LEMMA StepKinds ==
    ASSUME GraphTypeOK, [RpcNext]_vars
    PROVE  \/ [Next]_sessionVars
           \/ ReceivePrompt
           \/ DispatchPrompt
           \/ \E f \in forks : CompleteFork(f)
  <1>1. active \in Sessions
    BY DEF GraphTypeOK
  <1>2. CASE UNCHANGED vars
    BY <1>2 DEF vars
  <1>3. CASE DispatchSetModel
    <2>1. Head(chain).route \in Routes
      BY <1>3, TailOfChain, OrderedRequests DEF DispatchSetModel, ChainReady
    <2> QED
      BY <1>1, <1>3, <2>1 DEF DispatchSetModel, Next, SessionStep
  <1>4. CASE ImmediateRequest
    BY <1>1, <1>4 DEF ImmediateRequest, Next, SessionStep
  <1>5. ASSUME NEW s \in Sessions, TurnGoesOn(s) \/ DriverEnds(s) \/ CompactionEnds(s)
        PROVE  Next
    BY <1>5 DEF TurnGoesOn, DriverEnds, CompactionEnds, Next, SessionStep, EndTurn
  <1>6. ASSUME \/ \E r \in Routes : ReceiveSetModel(r)
               \/ RefusePrompt \/ EndOfInput \/ CloseMode
               \/ \E s \in Sessions : AskQuestion(s) \/ Answer(s) \/ SwitchSession(s)
               \/ \E p, c \in Sessions : BeginFork(p, c)
               \/ \E f \in forks : FailFork(f)
        PROVE  UNCHANGED sessionVars
    BY <1>6 DEF ReceiveSetModel, RefusePrompt, EndOfInput, CloseMode, AskQuestion, Answer,
                SwitchSession, BeginFork, FailFork
  <1> QED
    BY <1>2, <1>3, <1>4, <1>5, <1>6 DEF RpcNext, ForkEnds

\* A prompt that is accepted and waits in the chain.
LEMMA AcceptedKeeps == ASSUME SessionInv, GraphTypeOK, ReceivePrompt PROVE SessionInv'
  <1>1. active \in Sessions /\ Accept("prompt", active)
        /\ UNCHANGED <<codeVars, told, steered, ran, discarded, failed, unread>>
    BY DEF GraphTypeOK, ReceivePrompt
  <1>2. /\ TypeOK
        /\ next \in Inputs /\ next' \in 1..MaxInputs + 1 /\ next <= next'
        /\ input' \in [Inputs -> [kind : InputKinds, to : Sessions] \cup {NoInput}]
        /\ input'[next] = [kind |-> "prompt", to |-> active]
        /\ \A t \in Inputs : t # next => input'[t] = input[t]
    BY <1>1, AcceptTypes, AcceptFacts DEF SessionInv, InputKinds
  <1>3. TypeOK'
    BY <1>1, <1>2 DEF TypeOK
  <1>4. Remembers' /\ TurnKeepsRoute'
    BY <1>1 DEF SessionInv, Remembers, HistoryFrozenWhileCompacting,
                TranscriptRemembersInputs, TurnKeepsRoute
  <1>5. ASSUME NEW u \in Sessions PROVE OrderOf(u)'
    <2>1. SteerLine(u)' = SteerLine(u) /\ FollowLine(u)' = FollowLine(u)
      BY <1>1 DEF SteerLine, FollowLine
    <2>2. NothingFor(u)
      BY <1>2 DEF NothingFor
    <2>3. discarded'[u] = discarded[u] /\ failed \subseteq failed'
      BY <1>1
    <2> QED
      BY <1>2, <1>3, <2>1, <2>2, <2>3, QuietStep DEF SessionInv, InOrder
  <1> QED
    BY <1>3, <1>4, <1>5 DEF SessionInv, InOrder

\* The chain starts the prompt.
LEMMA StartedKeeps == ASSUME SessionInv, GraphTypeOK, DispatchPrompt PROVE SessionInv'
  <1> DEFINE t == Head(chain).n
  <1>1. active \in Sessions /\ CanStartTurn(active) /\ t \in Inputs
        /\ StartTurn(active, history[active], t)
        /\ UNCHANGED <<followUps, queued, compacting, snapshot, route, next, input,
                       ran, discarded, failed, unread>>
    BY TailOfChain, OrderedRequests DEF GraphTypeOK, DispatchPrompt, ChainReady
  <1> HIDE DEF t
  <1>2. TypeOK /\ Remembers /\ TurnKeepsRoute /\ history[active] \in Seq(Message)
    BY <1>1 DEF SessionInv, TypeOK
  <1>3. TypeOK'
    BY <1>1, <1>2, StartTypes DEF TypeOK
  <1>4. Remembers'
    BY <1>1, <1>2, StartRemembers DEF CanStartTurn
  <1>5. TurnKeepsRoute'
    BY <1>1, <1>2 DEF TurnKeepsRoute, StartTurn, TypeOK
  <1>6. ASSUME NEW u \in Sessions PROVE OrderOf(u)'
    <2>1. SteerLine(u)' = SteerLine(u)
      BY <1>1, <1>2, HandedOver DEF StartTurn
    <2>2. FollowLine(u)' = FollowLine(u)
      BY <1>1 DEF FollowLine
    <2>3. NothingFor(u) /\ discarded'[u] = discarded[u] /\ failed \subseteq failed'
      BY <1>1 DEF NothingFor
    <2>4. next <= next'
      BY <1>1, <1>2, InputAssumption DEF TypeOK
    <2> QED
      BY <1>2, <1>3, <2>1, <2>2, <2>3, <2>4, QuietStep DEF SessionInv, InOrder
  <1> QED
    BY <1>3, <1>4, <1>5, <1>6 DEF SessionInv, InOrder

\* A slice of a transcript.
LEMMA SliceOfParent ==
    ASSUME TypeOK, GraphTypeOK, ForksSound, NEW f \in forks
    PROVE  /\ f.child \in Sessions \ nodes /\ f.parent \in nodes
           /\ ForkHistory(f) \in Seq(Message)
           /\ ~f.folded => /\ Len(ForkHistory(f)) = f.index
                           /\ f.index \in Nat \ {0}
                           /\ ForkHistory(f)[f.index].role = "user"
  <1> DEFINE h == history[f.parent]
             n == IF f.index < Len(h) THEN f.index ELSE Len(h)
  <1>1. /\ f.child \in Sessions \ nodes /\ f.parent \in nodes /\ f.parent \in Sessions
        /\ f.index \in Nat
    BY DEF GraphTypeOK, ForksSound, ForkRequest
  <1>2. h \in Seq(Message) /\ Len(h) \in Nat
    BY <1>1 DEF TypeOK
  <1>3. n \in 0..Len(h)
    BY <1>1, <1>2
  <1>4. ForkHistory(f) = SubSeq(h, 1, n)
    BY DEF ForkHistory
  <1>5. ~f.folded => f.index \in 1..Len(h) /\ h[f.index].role = "user" /\ n = f.index
    BY <1>1, <1>2 DEF ForksSound
  <1> HIDE DEF h, n
  <1>6. SubSeq(h, 1, n) \in Seq(Message) /\ Len(SubSeq(h, 1, n)) = n
        /\ \A i \in 1..n : SubSeq(h, 1, n)[i] = h[i]
    BY <1>2, <1>3
  <1> QED
    BY <1>1, <1>4, <1>5, <1>6

\* A fork gets its transcript.
LEMMA ForkedKeeps ==
    ASSUME SessionInv, GraphTypeOK, Living, ForksSound, NEW f \in forks, CompleteFork(f)
    PROVE  SessionInv'
  <1> DEFINE c == f.child
             h == ForkHistory(f)
  <1>1. TypeOK /\ Remembers /\ TurnKeepsRoute
    BY DEF SessionInv
  <1>2. c \in Sessions \ nodes /\ h \in Seq(Message)
    BY <1>1, SliceOfParent
  <1>3. /\ history' = [history EXCEPT ![c] = h]
        /\ told' = [told EXCEPT ![c] = Covered(h)]
        /\ UNCHANGED <<steers, followUps, turn, queued, compacting, snapshot, route, turnRoute,
                       next, input, steered, ran, discarded, failed, unread>>
    BY DEF CompleteFork
  <1> HIDE DEF c, h
  <1>4. Covered(h) \subseteq Inputs
    <2>1. \A i \in DOMAIN h : h[i] \in Message
      BY <1>2
    <2>2. \A i \in DOMAIN h : h[i].covers \subseteq Inputs
      BY <2>1 DEF Message
    <2> QED
      BY <2>2 DEF Covered
  <1>5. TypeOK'
    BY <1>1, <1>2, <1>3, <1>4 DEF TypeOK
  <1>6. ~compacting[c]
    BY <1>2 DEF Living
  <1>7. Remembers' /\ TurnKeepsRoute'
    BY <1>1, <1>2, <1>3, <1>6
    DEF Remembers, HistoryFrozenWhileCompacting, TranscriptRemembersInputs, TurnKeepsRoute, TypeOK
  <1>8. ASSUME NEW u \in Sessions PROVE OrderOf(u)'
    <2>1. SteerLine(u)' = SteerLine(u) /\ FollowLine(u)' = FollowLine(u)
      BY <1>3 DEF SteerLine, FollowLine
    <2>2. NothingFor(u) /\ discarded'[u] = discarded[u] /\ failed \subseteq failed'
      BY <1>3 DEF NothingFor
    <2>3. next <= next'
      BY <1>1, <1>3, InputAssumption DEF TypeOK
    <2> QED
      BY <1>1, <1>5, <2>1, <2>2, <2>3, QuietStep DEF SessionInv, InOrder
  <1> QED
    BY <1>5, <1>7, <1>8 DEF SessionInv, InOrder

\* Every session of the graph keeps what AgentSession promises.
LEMMA SessionsKeep ==
    ASSUME SessionInv, GraphTypeOK, Living, ForksSound, [RpcNext]_vars
    PROVE  SessionInv'
  <1>1. CASE [Next]_sessionVars
    <2>1. TypeOK'
      BY <1>1, TypesInductive DEF SessionInv
    <2> QED
      BY <1>1, <2>1, RemembersInductive, RouteInductive, OrderStep DEF SessionInv
  <1> QED
    BY <1>1, StepKinds, AcceptedKeeps, StartedKeeps, ForkedKeeps

-----------------------------------------------------------------------------
(* The graph.                                                              *)

LEMMA GraphTypesKeep ==
    ASSUME TypeOK, GraphTypeOK, ForksSound, [RpcNext]_vars
    PROVE  GraphTypeOK'
  <1> USE DEF GraphTypeOK
  <1>1. CASE UNCHANGED vars
    BY <1>1 DEF vars, rpcVars, graphVars
  <1>2. ASSUME ReceivePrompt PROVE GraphTypeOK'
    <2> DEFINE q == [kind |-> "prompt", n |-> next, route |-> wanted]
    <2>1. next \in Inputs /\ chain' = Append(chain, q)
          /\ UNCHANGED <<graphVars, driving, wanted>>
      BY <1>2 DEF ReceivePrompt, Accept
    <2>2. q \in OrderedRequest
      BY <2>1, OrderedRequests
    <2> HIDE DEF q
    <2>3. chain' \in Seq(OrderedRequest)
      BY <2>1, <2>2
    <2> QED
      BY <2>1, <2>3 DEF graphVars
  <1>3. ASSUME NEW r \in Routes, ReceiveSetModel(r) PROVE GraphTypeOK'
    <2> DEFINE q == [kind |-> "set_model", route |-> r]
    <2>1. chain' = Append(chain, q) /\ wanted' = r /\ UNCHANGED <<graphVars, driving>>
      BY <1>3 DEF ReceiveSetModel
    <2>2. q \in OrderedRequest
      BY OrderedRequests
    <2> HIDE DEF q
    <2>3. chain' \in Seq(OrderedRequest)
      BY <2>1, <2>2
    <2> QED
      BY <2>1, <2>3 DEF graphVars
  <1>4. ASSUME DispatchSetModel \/ RefusePrompt PROVE GraphTypeOK'
    <2>1. chain # <<>> /\ chain' = Tail(chain) /\ UNCHANGED <<graphVars, driving, wanted>>
      BY <1>4 DEF DispatchSetModel, RefusePrompt, ChainReady
    <2> QED
      BY <2>1, TailOfChain DEF graphVars
  <1>5. ASSUME DispatchPrompt PROVE GraphTypeOK'
    <2>1. /\ chain # <<>> /\ chain' = Tail(chain) /\ Head(chain).kind = "prompt"
          /\ runningTurns' = runningTurns \cup {active}
          /\ driving' = [session |-> active, n |-> Head(chain).n, route |-> Head(chain).route]
          /\ UNCHANGED <<nodes, active, forks, wanted>>
      BY <1>5 DEF DispatchPrompt, ChainReady
    <2>2. Head(chain) \in OrderedRequest /\ chain' \in Seq(OrderedRequest)
      BY <2>1, TailOfChain
    <2>3. Head(chain).n \in Inputs /\ Head(chain).route \in Routes
      BY <2>1, <2>2, OrderedRequests
    <2>4. driving' \in Request
      BY <2>1, <2>3 DEF Request
    <2> QED
      BY <2>1, <2>2, <2>4
  <1>6. ASSUME NEW s \in Sessions, DriverEnds(s) PROVE GraphTypeOK'
    BY <1>6 DEF DriverEnds
  <1>7. ASSUME NEW s \in Sessions, CompactionEnds(s) PROVE GraphTypeOK'
    <2>1. ASSUME NEW f \in forks
          PROVE  (IF f.parent = s THEN [f EXCEPT !.folded = TRUE] ELSE f) \in ForkRequest
      BY DEF ForkRequest
    <2> QED
      BY <1>7, <2>1 DEF CompactionEnds
  <1>8. ASSUME NEW s \in Sessions, SwitchSession(s) PROVE GraphTypeOK'
    BY <1>8 DEF SwitchSession
  <1>9. ASSUME NEW p \in Sessions, NEW c \in Sessions, BeginFork(p, c) PROVE GraphTypeOK'
    <2>1. ASSUME NEW i \in DOMAIN history[p]
          PROVE  [child |-> c, parent |-> p, index |-> i, folded |-> FALSE] \in ForkRequest
      <3>1. i \in Nat
        <4>1. history[p] \in Seq(Message)
          BY DEF TypeOK
        <4> QED
          BY <4>1
      <3> QED
        BY <3>1 DEF ForkRequest
    <2> QED
      BY <1>9, <2>1 DEF BeginFork
  <1>10. ASSUME NEW f \in forks, CompleteFork(f) PROVE GraphTypeOK'
    BY <1>10, SliceOfParent DEF CompleteFork
  <1>11. ASSUME NEW f \in forks, FailFork(f) PROVE GraphTypeOK'
    BY <1>11 DEF FailFork
  <1>12. ASSUME ImmediateRequest \/ EndOfInput \/ CloseMode
                \/ \E s \in Sessions : TurnGoesOn(s) \/ AskQuestion(s) \/ Answer(s)
         PROVE  GraphTypeOK'
    BY <1>12 DEF ImmediateRequest, EndOfInput, CloseMode, TurnGoesOn, AskQuestion, Answer,
                 rpcVars, graphVars
  <1> QED
    BY <1>1, <1>2, <1>3, <1>4, <1>5, <1>6, <1>7, <1>8, <1>9, <1>10, <1>11, <1>12
    DEF RpcNext, ForkEnds

\* A step that leaves the turns, the marks and the compactions.
LEMMA SameTurns ==
    ASSUME OneTurnAcrossGraph, Living, nodes \subseteq nodes',
           UNCHANGED <<turn, compacting, runningTurns, driving>>
    PROVE  OneTurnAcrossGraph' /\ Living'
  BY DEF OneTurnAcrossGraph, Living

LEMMA TurnsKeep ==
    ASSUME TypeOK, GraphTypeOK, OneTurnAcrossGraph, Living, [RpcNext]_vars
    PROVE  OneTurnAcrossGraph' /\ Living'
  <1>0. /\ turn \in [Sessions -> {"none", "running", "aborted"}]
        /\ compacting \in [Sessions -> BOOLEAN]
        /\ active \in Sessions /\ active \in nodes
    BY DEF TypeOK, GraphTypeOK
  <1>1. CASE UNCHANGED vars
    BY <1>1, SameTurns DEF vars, rpcVars, graphVars
  <1>2. CASE DispatchPrompt
    <2>1. /\ driving = Idle /\ turn[active] = "none"
          /\ turn' = [turn EXCEPT ![active] = "running"]
          /\ runningTurns' = runningTurns \cup {active}
          /\ driving' = [session |-> active, n |-> Head(chain).n, route |-> Head(chain).route]
          /\ UNCHANGED <<nodes, compacting>>
          /\ chain # <<>> /\ Head(chain).kind = "prompt"
      BY <1>2 DEF DispatchPrompt, ChainReady, CanStartTurn, StartTurn
    <2>2. driving'.session = active
      BY <2>1
    <2>3. driving' # Idle
      <3>1. "n" \in DOMAIN driving'
        BY <2>1
      <3>2. "n" \notin DOMAIN Idle
        BY DEF Idle
      <3> QED
        BY <3>1, <3>2
    <2>4. runningTurns = {} /\ \A s \in Sessions : turn[s] = "none"
      BY <2>1 DEF OneTurnAcrossGraph
    <2> HIDE DEF Idle
    <2>5. runningTurns' = {active} /\ {s \in Sessions : turn'[s] # "none"} = {active}
      BY <1>0, <2>1, <2>4
    <2>6. OneTurnAcrossGraph'
      BY <2>2, <2>3, <2>5 DEF OneTurnAcrossGraph
    <2>7. Living'
      BY <1>0, <2>1 DEF Living
    <2> QED
      BY <2>6, <2>7
  <1>3. ASSUME NEW s \in Sessions, DriverEnds(s) PROVE OneTurnAcrossGraph' /\ Living'
    <2>1. /\ turn[s] # "none" /\ turn' = [turn EXCEPT ![s] = "none"]
          /\ runningTurns' = runningTurns \ {s} /\ driving' = Idle
          /\ UNCHANGED <<nodes, compacting>>
      BY <1>3 DEF DriverEnds, LastTurn, FailTurn
    <2>2. runningTurns = {s}
      <3>1. s \in runningTurns /\ runningTurns \subseteq {driving.session}
        BY <2>1 DEF OneTurnAcrossGraph
      <3> QED
        BY <3>1
    <2>3. runningTurns' = {} /\ {u \in Sessions : turn'[u] # "none"} = {}
      BY <1>0, <2>1, <2>2 DEF OneTurnAcrossGraph
    <2>4. OneTurnAcrossGraph'
      BY <2>1, <2>3 DEF OneTurnAcrossGraph
    <2>5. Living'
      BY <1>0, <2>1 DEF Living
    <2> QED
      BY <2>4, <2>5
  <1>4. ASSUME NEW s \in Sessions, turn[s] # "none",
               UNCHANGED <<nodes, compacting, runningTurns, driving>>,
               turn' = [turn EXCEPT ![s] = "running"] \/ turn' = [turn EXCEPT ![s] = "aborted"]
        PROVE  OneTurnAcrossGraph' /\ Living'
    <2>1. \A u \in Sessions : (turn'[u] # "none") <=> (turn[u] # "none")
      BY <1>0, <1>4
    <2> QED
      BY <1>4, <2>1 DEF OneTurnAcrossGraph, Living
  <1>5. ASSUME NEW s \in Sessions, TurnGoesOn(s) PROVE OneTurnAcrossGraph' /\ Living'
    <2>1. UNCHANGED <<nodes, runningTurns, driving>> /\ turn[s] # "none"
      BY <1>5 DEF TurnGoesOn, Stepping, rpcVars, graphVars
    <2>2. CASE PullSteering(s)
      BY <2>1, <2>2, SameTurns DEF PullSteering
    <2>3. CASE \E replied \in BOOLEAN : NextFollowUp(s, replied)
      BY <1>4, <2>1, <2>3 DEF NextFollowUp, StartTurn
    <2> QED
      BY <1>5, <2>2, <2>3 DEF TurnGoesOn
  <1>6. CASE ImmediateRequest
    <2>1. UNCHANGED <<nodes, runningTurns, driving>>
      BY <1>6 DEF ImmediateRequest, rpcVars, graphVars
    <2>2. CASE Steer(active) \/ FollowUp(active)
      BY <2>1, <2>2, SameTurns DEF Steer, FollowUp
    <2>3. CASE Abort(active)
      BY <1>0, <1>4, <2>1, <2>3 DEF Abort
    <2>4. CASE BeginCompaction(active)
      BY <1>0, <2>1, <2>4 DEF BeginCompaction, OneTurnAcrossGraph, Living
    <2> QED
      BY <1>6, <2>2, <2>3, <2>4 DEF ImmediateRequest
  <1>7. ASSUME NEW s \in Sessions, CompactionEnds(s) PROVE OneTurnAcrossGraph' /\ Living'
    <2>1. /\ UNCHANGED <<nodes, turn, runningTurns, driving>>
          /\ compacting' = [compacting EXCEPT ![s] = FALSE]
      BY <1>7 DEF CompactionEnds, FinishCompaction, FailCompaction
    <2> QED
      BY <1>0, <2>1 DEF OneTurnAcrossGraph, Living
  <1>8. ASSUME \/ ReceivePrompt \/ DispatchSetModel \/ RefusePrompt \/ EndOfInput \/ CloseMode
               \/ \E r \in Routes : ReceiveSetModel(r)
               \/ \E s \in Sessions : AskQuestion(s) \/ Answer(s) \/ SwitchSession(s)
               \/ \E p, c \in Sessions : BeginFork(p, c)
               \/ \E f \in forks : CompleteFork(f) \/ FailFork(f)
        PROVE  OneTurnAcrossGraph' /\ Living'
    <2>1. nodes \subseteq nodes' /\ UNCHANGED <<turn, compacting, runningTurns, driving>>
      BY <1>8 DEF ReceivePrompt, DispatchSetModel, SwitchRoute, RefusePrompt, EndOfInput,
                  CloseMode, ReceiveSetModel, AskQuestion, Answer, SwitchSession, BeginFork,
                  CompleteFork, FailFork, graphVars
    <2> QED
      BY <2>1, SameTurns
  <1> QED
    BY <1>1, <1>2, <1>3, <1>5, <1>6, <1>7, <1>8 DEF RpcNext, ForkEnds

-----------------------------------------------------------------------------
(* The routes along the chain.                                             *)

\* A step that leaves the chain and the selected route.
LEMMA SameLinks ==
    ASSUME LinkedRoutes, nodes' = {Root} => nodes = {Root},
           UNCHANGED <<chain, wanted>>, nodes = {Root} => route'[Root] = route[Root],
           driving' = driving \/ driving' = Idle
    PROVE  LinkedRoutes'
  BY DEF LinkedRoutes, RouteAt

\* A request joins the chain.
LEMMA LongerLinks ==
    ASSUME LinkedRoutes, GraphTypeOK, NEW q \in OrderedRequest,
           q.kind = "prompt" => q.route = wanted,
           chain' = Append(chain, q), wanted' = q.route, UNCHANGED <<nodes, route, driving>>
    PROVE  LinkedRoutes'
  <1>1. PICK m \in Nat :
            /\ m = Len(chain) /\ Len(chain') = m + 1
            /\ DOMAIN chain = 1..m /\ DOMAIN chain' = 1..m + 1
            /\ \A i \in 1..m : chain'[i] = chain[i]
            /\ chain'[m + 1] = q
    BY LongerChain
  <1> SUFFICES ASSUME nodes = {Root}
               PROVE  /\ driving # Idle => driving.route = route[Root]
                      /\ \A i \in 1..m + 1 : chain'[i].kind = "prompt" => chain'[i].route = RouteAt(i)'
                      /\ wanted' = RouteAt(m + 2)'
    <2>1. RouteAt(Len(chain) + 1)' = RouteAt(m + 2)'
      BY <1>1 DEF RouteAt
    <2> QED
      BY <1>1, <2>1 DEF LinkedRoutes
  <1>2. /\ driving # Idle => driving.route = route[Root]
        /\ \A i \in 1..m : chain[i].kind = "prompt" => chain[i].route = RouteAt(i)
        /\ wanted = RouteAt(m + 1)
    BY <1>1 DEF LinkedRoutes
  <1>3. \A i \in 1..m + 1 : RouteAt(i)' = RouteAt(i)
    BY <1>1 DEF RouteAt
  <1>4. RouteAt(m + 2)' = q.route
    BY <1>1 DEF RouteAt
  <1> QED
    BY <1>1, <1>2, <1>3, <1>4

\* The chain has run its first request on the only session.
LEMMA ShorterLinks ==
    ASSUME LinkedRoutes, GraphTypeOK, chain # <<>>, chain' = Tail(chain),
           nodes = {Root} => route'[Root] = Head(chain).route,
           driving' = Idle \/ driving'.route = Head(chain).route,
           UNCHANGED <<nodes, wanted>>
    PROVE  LinkedRoutes'
  <1>1. PICK m \in Nat :
            /\ Len(chain) = m + 1 /\ Len(chain') = m
            /\ DOMAIN chain = 1..m + 1 /\ DOMAIN chain' = 1..m
            /\ \A i \in 1..m : chain'[i] = chain[i + 1]
            /\ Head(chain) = chain[1]
    <2>1. Len(chain) - 1 \in Nat /\ (Len(chain) - 1) + 1 = Len(chain)
      BY TailOfChain
    <2> QED
      BY <2>1, TailOfChain
  <1> SUFFICES ASSUME nodes = {Root}
               PROVE  /\ driving' # Idle => driving'.route = route'[Root]
                      /\ \A i \in 1..m : chain'[i].kind = "prompt" => chain'[i].route = RouteAt(i)'
                      /\ wanted' = RouteAt(m + 1)'
    <2>1. RouteAt(Len(chain) + 1)' = RouteAt(m + 1)'
      BY <1>1 DEF RouteAt
    <2> QED
      BY <1>1, <2>1 DEF LinkedRoutes
  <1>2. /\ \A i \in 1..m + 1 : chain[i].kind = "prompt" => chain[i].route = RouteAt(i)
        /\ wanted = RouteAt(m + 2)
    BY <1>1 DEF LinkedRoutes
  <1>3. \A i \in 1..m + 1 : RouteAt(i)' = RouteAt(i + 1)
    BY <1>1 DEF RouteAt
  <1> QED
    BY <1>1, <1>2, <1>3

LEMMA RoutesKeep ==
    ASSUME TypeOK, GraphTypeOK, OneTurnAcrossGraph, LinkedRoutes, [RpcNext]_vars
    PROVE  LinkedRoutes'
  <1>0. /\ Root \in nodes /\ active \in nodes /\ active \in Sessions
        /\ route \in [Sessions -> Routes] /\ Root \in Sessions
    BY RootAssumption DEF TypeOK, GraphTypeOK
  <1>1. CASE UNCHANGED vars
    BY <1>1, SameLinks DEF vars, rpcVars, graphVars
  <1>2. CASE ReceivePrompt
    <2> DEFINE q == [kind |-> "prompt", n |-> next, route |-> wanted]
    <2>1. next \in Inputs /\ wanted \in Routes /\ chain' = Append(chain, q)
          /\ UNCHANGED <<nodes, route, driving, wanted>>
      BY <1>2 DEF ReceivePrompt, Accept, GraphTypeOK, graphVars
    <2>2. q \in OrderedRequest /\ q.route = wanted
      BY <2>1, OrderedRequests
    <2> HIDE DEF q
    <2> QED
      BY <2>1, <2>2, LongerLinks
  <1>3. ASSUME NEW r \in Routes, ReceiveSetModel(r) PROVE LinkedRoutes'
    <2> DEFINE q == [kind |-> "set_model", route |-> r]
    <2>1. chain' = Append(chain, q) /\ wanted' = r /\ UNCHANGED <<nodes, route, driving>>
      BY <1>3 DEF ReceiveSetModel, graphVars
    <2>2. q \in OrderedRequest /\ q.route = r /\ q.kind = "set_model"
      BY OrderedRequests
    <2> HIDE DEF q
    <2> QED
      BY <2>1, <2>2, LongerLinks
  <1>4. CASE DispatchSetModel
    <2>1. /\ chain # <<>> /\ chain' = Tail(chain) /\ driving = Idle
          /\ route' = [route EXCEPT ![active] = Head(chain).route]
          /\ UNCHANGED <<nodes, driving, wanted>>
      BY <1>4 DEF DispatchSetModel, ChainReady, SwitchRoute, graphVars
    <2>2. nodes = {Root} => route'[Root] = Head(chain).route
      BY <1>0, <2>1
    <2> QED
      BY <2>1, <2>2, ShorterLinks
  <1>5. ASSUME chain # <<>>, Head(chain).kind = "prompt", nodes = {Root}
        PROVE  route[Root] = Head(chain).route
    <2>1. 1 \in DOMAIN chain /\ Head(chain) = chain[1]
      BY <1>5 DEF GraphTypeOK
    <2> QED
      BY <1>5, <2>1 DEF LinkedRoutes, RouteAt
  <1>6. CASE DispatchPrompt
    <2>1. /\ chain # <<>> /\ Head(chain).kind = "prompt" /\ chain' = Tail(chain)
          /\ driving' = [session |-> active, n |-> Head(chain).n, route |-> Head(chain).route]
          /\ UNCHANGED <<nodes, wanted, route>>
      BY <1>6 DEF DispatchPrompt, ChainReady
    <2>2. driving'.route = Head(chain).route
      BY <2>1
    <2> QED
      BY <1>5, <2>1, <2>2, ShorterLinks
  <1>7. CASE RefusePrompt
    <2>1. /\ chain # <<>> /\ Head(chain).kind = "prompt" /\ chain' = Tail(chain)
          /\ driving = Idle /\ UNCHANGED <<nodes, wanted, route, driving>>
      BY <1>7 DEF RefusePrompt, ChainReady, graphVars
    <2> QED
      BY <1>5, <2>1, ShorterLinks
  <1>8. ASSUME \/ ImmediateRequest \/ EndOfInput \/ CloseMode
               \/ \E s \in Sessions : TurnGoesOn(s) \/ DriverEnds(s) \/ AskQuestion(s) \/ Answer(s)
               \/ \E s \in Sessions : CompactionEnds(s) \/ SwitchSession(s)
               \/ \E p, c \in Sessions : BeginFork(p, c)
               \/ \E f \in forks : CompleteFork(f) \/ FailFork(f)
        PROVE  LinkedRoutes'
    <2>1. /\ UNCHANGED <<chain, wanted, route>> /\ nodes \subseteq nodes'
          /\ driving' = driving \/ driving' = Idle
      BY <1>8 DEF ImmediateRequest, Steer, FollowUp, Abort, BeginCompaction, EndOfInput,
                  CloseMode, TurnGoesOn, PullSteering, NextFollowUp, DriverEnds, LastTurn,
                  FailTurn, AskQuestion, Answer, CompactionEnds, FinishCompaction,
                  FailCompaction, SwitchSession, BeginFork, CompleteFork, FailFork,
                  rpcVars, graphVars
    <2> QED
      BY <1>0, <2>1, SameLinks
  <1> QED
    BY <1>1, <1>2, <1>3, <1>4, <1>6, <1>7, <1>8 DEF RpcNext, ForkEnds

-----------------------------------------------------------------------------
(* Forks in flight.                                                        *)

\* What a transcript holds it holds still, at its place.
Extends(g, h) == \A i \in DOMAIN g : i \in DOMAIN h /\ h[i] = g[i]

\* The transcripts of the graph only grow.
GraphGrows == \A u \in nodes : Extends(history[u], history'[u])

LEMMA DrainedExtends ==
    ASSUME NEW h \in Seq(Message), NEW q \in Seq(Inputs), NEW t \in Inputs
    PROVE  Extends(h, Drained(h, q, t))
  <1>1. Notes(q) \in Seq(Message) /\ <<UserMsg(t)>> \in Seq(Message)
    BY NotesType, MessageTypes
  <1>2. ASSUME NEW g \in Seq(Message), NEW tail \in Seq(Message)
        PROVE  g \o tail \in Seq(Message) /\ Extends(g, g \o tail)
    BY DEF Extends
  <1>3. h \o Notes(q) \in Seq(Message) /\ Extends(h, h \o Notes(q))
    BY <1>1, <1>2
  <1>4. Extends(h \o Notes(q), Drained(h, q, t))
    BY <1>1, <1>2, <1>3 DEF Drained
  <1> QED
    BY <1>3, <1>4 DEF Extends

LEMMA ReplyExtends ==
    ASSUME TypeOK, NEW s \in Sessions, NEW replied \in BOOLEAN
    PROVE  /\ AfterReply(s, replied) \in Seq(Message)
           /\ Extends(history[s], AfterReply(s, replied))
  <1>1. history[s] \in Seq(Message) /\ Reply \in Message
    BY MessageTypes DEF TypeOK
  <1>2. /\ Append(history[s], Reply) \in Seq(Message)
        /\ Extends(history[s], Append(history[s], Reply))
        /\ Extends(history[s], history[s])
    BY <1>1 DEF Extends
  <1> QED
    BY <1>1, <1>2 DEF AfterReply

\* A step that appends to one transcript.
LEMMA OneGrows ==
    ASSUME TypeOK, GraphTypeOK, NEW s \in Sessions, NEW h, Extends(history[s], h),
           history' = [history EXCEPT ![s] = h]
    PROVE  GraphGrows
  <1> SUFFICES ASSUME NEW u \in nodes PROVE Extends(history[u], history'[u])
    BY DEF GraphGrows
  <1>1. u \in Sessions /\ history \in [Sessions -> Seq(Message)]
    BY DEF GraphTypeOK, TypeOK
  <1> QED
    BY <1>1 DEF Extends

\* No step but the end of a compaction takes a message from its place.
LEMMA TranscriptsGrow ==
    ASSUME TypeOK, GraphTypeOK, ForksSound, [RpcNext]_vars,
           ~ \E s \in Sessions : CompactionEnds(s)
    PROVE  GraphGrows
  <1>1. UNCHANGED history => GraphGrows
    BY DEF GraphGrows, Extends
  <1>2. ASSUME DispatchPrompt PROVE GraphGrows
    <2>1. /\ active \in Sessions /\ Head(chain).n \in Inputs
          /\ history' = [history EXCEPT ![active] = Drained(history[active], steers[active], Head(chain).n)]
      BY <1>2, TailOfChain, OrderedRequests
      DEF DispatchPrompt, ChainReady, StartTurn, GraphTypeOK
    <2>2. history[active] \in Seq(Message) /\ steers[active] \in Seq(Inputs)
      BY <2>1 DEF TypeOK
    <2> QED
      BY <2>1, <2>2, DrainedExtends, OneGrows
  <1>3. ASSUME NEW s \in Sessions, NEW replied \in BOOLEAN, NextFollowUp(s, replied)
        PROVE  GraphGrows
    <2> DEFINE h == AfterReply(s, replied)
               t == Head(Batch(s))
    <2>1. h \in Seq(Message) /\ Extends(history[s], h)
      BY ReplyExtends
    <2>2. t \in Inputs /\ steers[s] \in Seq(Inputs)
      BY <1>3 DEF NextFollowUp, Batch, TypeOK
    <2>3. history' = [history EXCEPT ![s] = Drained(h, steers[s], t)]
      BY <1>3 DEF NextFollowUp, StartTurn
    <2> HIDE DEF h, t
    <2>4. Extends(h, Drained(h, steers[s], t))
      BY <2>1, <2>2, DrainedExtends
    <2>5. Extends(history[s], Drained(h, steers[s], t))
      BY <2>1, <2>4 DEF Extends
    <2> QED
      BY <2>3, <2>5, OneGrows
  <1>4. ASSUME NEW s \in Sessions, NEW replied \in BOOLEAN, LastTurn(s, replied)
        PROVE  GraphGrows
    BY <1>4, ReplyExtends, OneGrows DEF LastTurn
  <1>5. ASSUME NEW s \in Sessions, TurnGoesOn(s) \/ DriverEnds(s) PROVE GraphGrows
    BY <1>1, <1>3, <1>4, <1>5 DEF TurnGoesOn, DriverEnds, PullSteering, FailTurn
  <1>6. ASSUME NEW f \in forks, CompleteFork(f) PROVE GraphGrows
    <2>1. f.child \notin nodes /\ history' = [history EXCEPT ![f.child] = ForkHistory(f)]
      BY <1>6 DEF CompleteFork, ForksSound
    <2>2. \A u \in nodes : u \in Sessions /\ u # f.child
      BY <2>1 DEF GraphTypeOK
    <2>3. \A u \in nodes : history'[u] = history[u]
      BY <2>1, <2>2 DEF TypeOK
    <2> QED
      BY <2>3 DEF GraphGrows, Extends
  <1>7. ASSUME \/ UNCHANGED vars
               \/ ReceivePrompt \/ DispatchSetModel \/ RefusePrompt \/ ImmediateRequest
               \/ EndOfInput \/ CloseMode
               \/ \E r \in Routes : ReceiveSetModel(r)
               \/ \E s \in Sessions : AskQuestion(s) \/ Answer(s) \/ SwitchSession(s)
               \/ \E p, c \in Sessions : BeginFork(p, c)
               \/ \E f \in forks : FailFork(f)
        PROVE  UNCHANGED history
    BY <1>7 DEF vars, ReceivePrompt, DispatchSetModel, SwitchRoute, RefusePrompt,
                ImmediateRequest, Steer, FollowUp, Abort, BeginCompaction, EndOfInput,
                CloseMode, ReceiveSetModel, AskQuestion, Answer, SwitchSession, BeginFork, FailFork
  <1> QED
    BY <1>1, <1>2, <1>5, <1>6, <1>7 DEF RpcNext, ForkEnds

\* Forks that were in flight before stay sound while the transcripts grow.
LEMMA ForksStay ==
    ASSUME ForksSound, GraphGrows, forks' \subseteq forks, nodes \subseteq nodes',
           \A f \in forks' : f.child \notin nodes'
    PROVE  ForksSound'
  <1>1. ASSUME NEW f \in forks', ~f.folded
        PROVE  f.index \in DOMAIN history'[f.parent] /\ history'[f.parent][f.index].role = "user"
    <2>1. f.parent \in nodes /\ f.index \in DOMAIN history[f.parent]
          /\ history[f.parent][f.index].role = "user"
      BY <1>1 DEF ForksSound
    <2>2. Extends(history[f.parent], history'[f.parent])
      BY <2>1 DEF GraphGrows
    <2> QED
      BY <2>1, <2>2 DEF Extends
  <1> QED
    BY <1>1 DEF ForksSound

LEMMA ForksKeep ==
    ASSUME TypeOK, GraphTypeOK, ForksSound, [RpcNext]_vars
    PROVE  ForksSound'
  <1>1. ASSUME NEW s \in Sessions, CompactionEnds(s) PROVE ForksSound'
    <2>1. CASE FailCompaction(s) /\ UNCHANGED forks
      BY <1>1, <2>1 DEF CompactionEnds, FailCompaction, ForksSound
    <2>2. CASE FinishCompaction(s) /\ UNCHANGED nodes
               /\ forks' = {IF f.parent = s THEN [f EXCEPT !.folded = TRUE] ELSE f : f \in forks}
      <3>1. \A g \in forks' : \E f \in forks :
               /\ g.child = f.child /\ g.parent = f.parent /\ g.index = f.index
               /\ ~g.folded => f = g /\ f.parent # s
               /\ g = IF f.parent = s THEN [f EXCEPT !.folded = TRUE] ELSE f
        <4> SUFFICES ASSUME NEW f \in forks,
                            NEW g, g = IF f.parent = s THEN [f EXCEPT !.folded = TRUE] ELSE f
                     PROVE  /\ g.child = f.child /\ g.parent = f.parent /\ g.index = f.index
                            /\ ~g.folded => f = g /\ f.parent # s
          BY <2>2
        <4>1. f \in ForkRequest
          BY DEF GraphTypeOK
        <4> QED
          BY <4>1 DEF ForkRequest
      <3>2. \A u \in Sessions : u # s => history'[u] = history[u]
        <4>1. PICK h : history' = [history EXCEPT ![s] = h]
          BY <2>2 DEF FinishCompaction
        <4> QED
          BY <4>1 DEF TypeOK
      <3>3. \A f \in forks' : f.child \notin nodes' /\ f.parent \in nodes'
        BY <2>2, <3>1 DEF ForksSound
      <3>4. ASSUME NEW f \in forks', NEW g \in forks', f.child = g.child PROVE f = g
        <4>1. PICK e \in forks : e.child = f.child
                                 /\ f = IF e.parent = s THEN [e EXCEPT !.folded = TRUE] ELSE e
          BY <3>1
        <4>2. PICK d \in forks : d.child = g.child
                                 /\ g = IF d.parent = s THEN [d EXCEPT !.folded = TRUE] ELSE d
          BY <3>1
        <4>3. d = e
          BY <3>4, <4>1, <4>2 DEF ForksSound
        <4> QED
          BY <4>1, <4>2, <4>3
      <3>5. ASSUME NEW g \in forks', ~g.folded
            PROVE  g.index \in DOMAIN history'[g.parent] /\ history'[g.parent][g.index].role = "user"
        <4>1. g \in forks /\ g.parent # s
          BY <3>1, <3>5
        <4>2. g.parent \in Sessions
          BY <4>1 DEF ForksSound, GraphTypeOK
        <4> QED
          BY <3>2, <3>5, <4>1, <4>2 DEF ForksSound
      <3> QED
        BY <3>3, <3>4, <3>5 DEF ForksSound
    <2> QED
      BY <1>1, <2>1, <2>2 DEF CompactionEnds
  <1>2. ASSUME NEW p \in Sessions, NEW c \in Sessions, BeginFork(p, c) PROVE ForksSound'
    <2>1. PICK i \in DOMAIN history[p] :
             /\ Forkable(p, i)
             /\ forks' = forks \cup {[child |-> c, parent |-> p, index |-> i, folded |-> FALSE]}
      BY <1>2 DEF BeginFork
    <2>2. c \notin nodes /\ (\A f \in forks : f.child # c) /\ UNCHANGED <<history, nodes>>
      BY <1>2 DEF BeginFork
    <2> DEFINE new == [child |-> c, parent |-> p, index |-> i, folded |-> FALSE]
    <2>3. /\ new.child = c /\ new.parent = p /\ new.index = i
          /\ p \in nodes /\ history[p][i].role = "user"
      BY <2>1 DEF Forkable
    <2> HIDE DEF new
    <2>4. forks' = forks \cup {new}
      BY <2>1 DEF new
    <2> QED
      BY <2>2, <2>3, <2>4 DEF ForksSound
  <1> SUFFICES ASSUME ~ \E s \in Sessions : CompactionEnds(s),
                      ~ \E p, c \in Sessions : BeginFork(p, c)
               PROVE  ForksSound'
    BY <1>1, <1>2
  <1>3. GraphGrows
    BY TranscriptsGrow
  <1>4. ASSUME NEW f \in forks, CompleteFork(f) PROVE ForksSound'
    <2>1. forks' = forks \ {f} /\ nodes' = nodes \cup {f.child}
      BY <1>4 DEF CompleteFork
    <2>2. \A g \in forks' : g.child \notin nodes'
      BY <2>1 DEF ForksSound
    <2> QED
      BY <1>3, <2>1, <2>2, ForksStay
  <1>5. ASSUME forks' \subseteq forks, UNCHANGED nodes PROVE ForksSound'
    <2>1. \A g \in forks' : g.child \notin nodes'
      BY <1>5 DEF ForksSound
    <2> QED
      BY <1>3, <1>5, <2>1, ForksStay
  <1>6. ASSUME NEW f \in forks, FailFork(f) PROVE ForksSound'
    BY <1>5, <1>6 DEF FailFork
  <1>7. ASSUME \/ UNCHANGED vars
               \/ ReceivePrompt \/ DispatchSetModel \/ DispatchPrompt \/ RefusePrompt
               \/ ImmediateRequest \/ EndOfInput \/ CloseMode
               \/ \E r \in Routes : ReceiveSetModel(r)
               \/ \E s \in Sessions : TurnGoesOn(s) \/ DriverEnds(s) \/ AskQuestion(s) \/ Answer(s)
               \/ \E s \in Sessions : SwitchSession(s)
        PROVE  UNCHANGED <<forks, nodes>>
    BY <1>7 DEF vars, rpcVars, graphVars, ReceivePrompt, DispatchSetModel, DispatchPrompt,
                RefusePrompt, ImmediateRequest, EndOfInput, CloseMode, ReceiveSetModel,
                TurnGoesOn, DriverEnds, AskQuestion, Answer, SwitchSession
  <1> QED
    BY <1>4, <1>5, <1>6, <1>7 DEF RpcNext, ForkEnds

-----------------------------------------------------------------------------
(* The theorems.                                                           *)

LEMMA RpcHolds == RpcInit => RpcInv
  <1> SUFFICES ASSUME RpcInit PROVE RpcInv
    OBVIOUS
  <1>1. SessionInv
    BY TypesHold, RemembersHolds, RouteHolds, OrderHolds DEF RpcInit, SessionInv
  <1>2. GraphTypeOK
    BY RootAssumption, RouteAssumption DEF RpcInit, GraphTypeOK
  <1>3. \A s \in Sessions : turn[s] = "none" /\ ~compacting[s]
    BY DEF RpcInit, Init
  <1>4. OneTurnAcrossGraph /\ Living
    BY <1>3 DEF RpcInit, OneTurnAcrossGraph, Living
  <1>5. ForksSound
    BY DEF RpcInit, ForksSound
  <1>6. route[Root] = DefaultRoute
    BY RootAssumption DEF RpcInit, Init
  <1>7. LinkedRoutes
    BY <1>6 DEF RpcInit, LinkedRoutes, RouteAt
  <1> QED
    BY <1>1, <1>2, <1>4, <1>5, <1>7 DEF RpcInv

LEMMA RpcInductive == RpcInv /\ [RpcNext]_vars => RpcInv'
  <1> SUFFICES ASSUME RpcInv, [RpcNext]_vars PROVE RpcInv'
    OBVIOUS
  <1>1. TypeOK
    BY DEF RpcInv, SessionInv
  <1>2. SessionInv'
    BY SessionsKeep DEF RpcInv
  <1>3. GraphTypeOK'
    BY <1>1, GraphTypesKeep DEF RpcInv
  <1>4. OneTurnAcrossGraph' /\ Living'
    BY <1>1, TurnsKeep DEF RpcInv
  <1>5. LinkedRoutes'
    BY <1>1, RoutesKeep DEF RpcInv
  <1>6. ForksSound'
    BY <1>1, ForksKeep DEF RpcInv
  <1> QED
    BY <1>2, <1>3, <1>4, <1>5, <1>6 DEF RpcInv

\* The invariant of the composition.
THEOREM SurfaceInvariant == RpcSpec => []RpcInv
  BY RpcHolds, RpcInductive, PTL DEF RpcSpec

\* The marks of the graph, the link of the chain and the engine agree on the
\* one session whose turn runs, however forks and switches move the surface.
THEOREM OneTurn == RpcSpec => []OneTurnAcrossGraph
  <1>1. RpcInv => OneTurnAcrossGraph
    BY DEF RpcInv
  <1> QED
    BY <1>1, SurfaceInvariant, PTL

\* A prompt's turns run on the route last asked for before it.
THEOREM RouteInOrder == RpcSpec => []RouteFollowsInputOrder
  <1>1. RpcInv => RouteFollowsInputOrder
    <2> SUFFICES ASSUME RpcInv, nodes = {Root}, driving # Idle
                 PROVE  turnRoute[Root] = driving.route
      BY DEF RouteFollowsInputOrder
    <2>1. driving.session \in Sessions /\ turn[driving.session] # "none"
      BY DEF RpcInv, OneTurnAcrossGraph
    <2>2. driving.session = Root
      BY <2>1 DEF RpcInv, Living
    <2>3. turnRoute[Root] = route[Root]
      BY <2>1, <2>2 DEF RpcInv, SessionInv, TurnKeepsRoute
    <2>4. driving.route = route[Root]
      BY DEF RpcInv, LinkedRoutes
    <2> QED
      BY <2>3, <2>4
  <1> QED
    BY <1>1, SurfaceInvariant, PTL

\* A branch is registered with a transcript that ends at the user message it
\* was asked to fork through, unless its parent was compacted meanwhile.
THEOREM ForksEndAtUserMessage == RpcSpec => ForkEndsAtUserMessage
  <1> DEFINE Ends ==
        \A f \in forks :
            (f.child \in nodes' /\ ~f.folded) =>
                /\ history'[f.child] # <<>>
                /\ history'[f.child][Len(history'[f.child])].role = "user"
  <1>1. ASSUME RpcInv, [RpcNext]_vars PROVE Ends
    <2> SUFFICES ASSUME NEW f \in forks, f.child \in nodes', ~f.folded
                 PROVE  /\ history'[f.child] # <<>>
                        /\ history'[f.child][Len(history'[f.child])].role = "user"
      OBVIOUS
    <2>1. f.child \notin nodes /\ nodes' # nodes /\ TypeOK /\ GraphTypeOK /\ ForksSound
      BY <1>1 DEF RpcInv, SessionInv, ForksSound
    <2>2. PICK g \in forks : CompleteFork(g)
      BY <1>1, <2>1
      DEF RpcNext, vars, rpcVars, graphVars, ReceivePrompt, ReceiveSetModel, DispatchSetModel,
          DispatchPrompt, RefusePrompt, ImmediateRequest, TurnGoesOn, DriverEnds, AskQuestion,
          Answer, CompactionEnds, SwitchSession, BeginFork, ForkEnds, FailFork, EndOfInput,
          CloseMode
    <2>3. f.child = g.child
      BY <2>1, <2>2 DEF CompleteFork
    <2>4. f = g
      BY <2>1, <2>3 DEF ForksSound
    <2>5. history' = [history EXCEPT ![f.child] = ForkHistory(f)]
      BY <2>2, <2>4 DEF CompleteFork
    <2>6. /\ f.child \in Sessions /\ ForkHistory(f) \in Seq(Message)
          /\ Len(ForkHistory(f)) = f.index /\ f.index \in Nat \ {0}
          /\ ForkHistory(f)[f.index].role = "user"
      BY <2>1, SliceOfParent
    <2>7. history'[f.child] = ForkHistory(f)
      BY <2>1, <2>5, <2>6 DEF TypeOK
    <2> QED
      BY <2>6, <2>7
  <1> HIDE DEF Ends
  <1>2. RpcInv /\ [RpcNext]_vars => [Ends]_vars
    BY <1>1
  <1>3. RpcSpec => [][Ends]_vars
    BY <1>2, SurfaceInvariant, PTL DEF RpcSpec
  <1> QED
    BY <1>3 DEF ForkEndsAtUserMessage, Ends

\* What AgentSession promises of one session holds of every session of the
\* graph, forks included: nothing told is forgotten, ...
THEOREM GraphRemembers == RpcSpec => []TranscriptRemembersInputs
  <1>1. RpcInv => TranscriptRemembersInputs
    BY DEF RpcInv, SessionInv, Remembers
  <1> QED
    BY <1>1, SurfaceInvariant, PTL

\* ... and every steer and follow-up is used once, in its order.
THEOREM GraphUsesInputsOnce == RpcSpec => []InputsOnceInOrder
  <1>1. RpcInv => InputsOnceInOrder
    BY OrderMeans DEF RpcInv, SessionInv
  <1> QED
    BY <1>1, SurfaceInvariant, PTL
=============================================================================
