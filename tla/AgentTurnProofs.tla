-------------------------- MODULE AgentTurnProofs --------------------------
(***************************************************************************)
(* Proofs about AgentTurn for every tool budget, retry budget, number of   *)
(* calls in a response and number of notes: what the turn sends is         *)
(* complete, what it spends is budgeted, an abort is a boundary, and no    *)
(* note is lost.                                                           *)
(***************************************************************************)
EXTENDS AgentTurn, TLAPS

Assumptions == /\ Families \subseteq {"chat-completions", "responses", "anthropic"}
               /\ MaxToolCalls \in Nat \ {0}
               /\ MaxRetries \in Nat /\ ProviderRetries \in Nat
               /\ MaxCalls \in Nat /\ MaxSteers \in Nat

Requesting == {"request", "backoff", "streaming"}

\* Behind the loop condition the cap is not reached; a call that waits for its
\* approval or its end is one of the round's, and the budget has room for it.
LoopInv ==
    /\ pc \in Awaiting \cup {"calls"} => iteration < IterationCap
    /\ pc \in {"approval", "executing"} => toolBudget > 0 /\ unanswered > 0

\* Outside the round of calls every call has its result.
TalkInv ==
    /\ pc \in {"top"} \cup Requesting => unanswered = 0 /\ tail # "assistant"
    /\ pc = "calls" /\ family # "anthropic" /\ tail = "assistant" =>
         unanswered > 0

\* Notes pulled and not sent wait at the loop head only, and no abort comes there.
CarriedInv == carried # 0 => pc = "capped" \/ (pc = "top" /\ ~aborted)

\* The responses family has calls only in a whole response.
StreamInv ==
    pc = "streaming" /\ family = "responses" /\ req.calls > 0 =>
        req.closed = "tools"

\* The notes typed are in one of three places.
NotesInv == typed = steers + carried + sent

Inv == TypeOK /\ NotesInv /\ LoopInv /\ TalkInv /\ CarriedInv /\ StreamInv

-----------------------------------------------------------------------------
LEMMA AssumptionsHold == Assumptions
  BY FamiliesAssumption, BudgetAssumption, RetryAssumption, CallsAssumption,
     SteersAssumption DEF Assumptions

LEMMA NoRequestTyped == NoRequest \in Requests
  BY AssumptionsHold DEF Assumptions, NoRequest, Requests, Failures, Completions

LEMMA InitInv == Init => Inv
  <1> SUFFICES ASSUME Init PROVE Inv
    OBVIOUS
  <1>1. TypeOK
    <2>1. /\ adapted \in BOOLEAN /\ streaming \in BOOLEAN
          /\ said \in BOOLEAN /\ aborted \in BOOLEAN
      BY Zenon DEF Init
    <2>2. /\ req \in Requests
          /\ family \in Families
      BY NoRequestTyped DEF Init
    <2>3. /\ iteration \in 0..IterationCap /\ toolBudget \in Int
          /\ unanswered \in 0..MaxCalls /\ executed \in Nat
          /\ steers \in 0..MaxSteers /\ carried \in 0..MaxSteers
          /\ sent \in 0..MaxSteers /\ typed \in 0..MaxSteers
      BY AssumptionsHold DEF Assumptions, Init, IterationCap
    <2>4. /\ pc \in {"top", "calls"} \cup Awaiting \cup Ended
          /\ tail \in Tails
          /\ lastEvent \in {"none", "blocked", "ran"}
          /\ answer \in {"none", "text", "empty"}
      BY DEF Init, Tails
    <2> QED BY <2>1, <2>2, <2>3, <2>4 DEF TypeOK
  <1>2. LoopInv /\ TalkInv /\ CarriedInv /\ StreamInv /\ NotesInv
    BY DEF Init, LoopInv, TalkInv, CarriedInv, StreamInv, NotesInv, Awaiting,
           Requesting
  <1> QED BY <1>1, <1>2 DEF Inv

\* What a step of the stream does to the request.
LEMMA StreamTyped ==
  ASSUME Inv, Stream
  PROVE  /\ req' \in Requests
         /\ req'.attempt = req.attempt /\ req'.extra = req.extra
         /\ req'.failure = req.failure
         /\ StreamInv'
  <1>1. req \in Requests /\ pc = "streaming" /\ StreamInv
    BY DEF Inv, TypeOK, Stream
  <1>2. CASE req' = [req EXCEPT !.text = TRUE]
    BY <1>1, <1>2 DEF Requests, StreamInv, Stream, routeVars
  <1>3. CASE /\ family # "responses"
             /\ req.calls < MaxCalls
             /\ req' = [req EXCEPT !.calls = @ + 1]
    BY <1>1, <1>3, AssumptionsHold
       DEF Assumptions, Requests, StreamInv, Stream, routeVars
  <1>4. CASE /\ family # "responses"
             /\ \E mark \in {"tools", "other"} :
                   req' = [req EXCEPT !.closed = mark]
    BY <1>1, <1>4 DEF Requests, StreamInv, Stream, routeVars
  <1>5. ASSUME NEW n \in 0..MaxCalls, NEW c \in Completions,
               req' = [req EXCEPT !.closed = "tools", !.calls = n,
                                  !.completed = c]
        PROVE  /\ req' \in Requests
               /\ req'.attempt = req.attempt /\ req'.extra = req.extra
               /\ req'.failure = req.failure
               /\ StreamInv'
    BY <1>1, <1>5 DEF Requests, StreamInv
  <1> QED BY <1>2, <1>3, <1>4, <1>5 DEF Stream, StreamEvent

\* The response of a stream is one of the shapes.
LEMMA ReceivedTyped ==
  ASSUME Inv, NEW r \in Responses, Received(r)
  PROVE  /\ pc \in {"request", "streaming"}
         /\ r.text \in BOOLEAN /\ r.calls \in 0..MaxCalls
         /\ r.dangling \in BOOLEAN
  BY DEF Received, Responses

LEMMA LoopKeeps ==
  ASSUME Inv, HitCap \/ StopAtCheckpoint \/ SendRequest
  PROVE  Inv'
  <1> USE AssumptionsHold
      DEF Assumptions, Inv, TypeOK, LoopInv, TalkInv, CarriedInv, StreamInv,
          NotesInv, Awaiting, Ended, Requesting, Tails, IterationCap, routeVars, noteVars,
          resultVars
  <1>1. CASE HitCap
    BY <1>1 DEF HitCap
  <1>2. CASE StopAtCheckpoint
    BY <1>2 DEF StopAtCheckpoint, Return
  <1>3. CASE SendRequest
    BY <1>3 DEF SendRequest, MaySend, CanInject
  <1> QED BY <1>1, <1>2, <1>3

LEMMA OperatorKeeps ==
  ASSUME Inv, Steer \/ Abort
  PROVE  Inv'
  <1> USE AssumptionsHold
      DEF Assumptions, Inv, TypeOK, LoopInv, TalkInv, CarriedInv, StreamInv,
          NotesInv, Awaiting, Ended, Requesting, Tails, IterationCap, routeVars,
          loopVars, noteVars, resultVars
  <1>1. CASE Steer
    BY <1>1 DEF Steer
  <1>2. CASE Abort
    BY <1>2 DEF Abort
  <1> QED BY <1>1, <1>2

LEMMA BackOffTyped ==
  ASSUME req \in Requests, NEW f \in Failures, BackOff(f)
  PROVE  req' \in Requests
  <1> DEFINE e == IF WithinBase THEN req.extra ELSE req.extra + 1
  <1>1. e \in Nat /\ req.attempt + 1 \in Nat
    BY DEF Requests
  <1>2. req' = [req EXCEPT !.attempt = req.attempt + 1, !.extra = e,
                           !.failure = f]
    BY Zenon DEF BackOff
  <1> HIDE DEF e
  <1> QED BY <1>1, <1>2 DEF Requests

LEMMA PolicyKeeps ==
  ASSUME Inv, \/ \E f \in Failures : BackOff(f)
              \/ Wake \/ FallBack \/ StreamOpens \/ Stream
  PROVE  Inv'
  <1> USE AssumptionsHold
      DEF Assumptions, Inv, TypeOK, LoopInv, TalkInv, CarriedInv,
          NotesInv, Awaiting, Ended, Requesting, Tails, IterationCap, routeVars,
          loopVars, noteVars, resultVars
  <1>1. ASSUME NEW f \in Failures, BackOff(f) PROVE Inv'
    <2>1. req' \in Requests
      BY <1>1, BackOffTyped
    <2> QED BY <1>1, <2>1, ZenonT(60) DEF BackOff, StreamInv
  <1>2. CASE Wake
    BY <1>2 DEF Wake, StreamInv
  <1>3. CASE FallBack
    BY <1>3, NoRequestTyped DEF FallBack, StreamInv
  <1>4. CASE StreamOpens
    BY <1>4, NoRequestTyped DEF StreamOpens, StreamInv, NoRequest
  <1>5. CASE Stream
    BY <1>5, StreamTyped DEF Stream
  <1> QED BY <1>1, <1>2, <1>3, <1>4, <1>5

LEMMA ResponseKeeps ==
  ASSUME Inv, NEW r \in Responses, Respond(r)
  PROVE  Inv'
  <1> USE AssumptionsHold, ReceivedTyped, NoRequestTyped
      DEF Assumptions, Inv, TypeOK, LoopInv, TalkInv, CarriedInv, StreamInv,
          NotesInv, Awaiting, Ended, Requesting, Tails, IterationCap, routeVars,
          noteVars, resultVars, Respond
  <1>1. CASE RespondAborted(r)
    BY <1>1 DEF RespondAborted, Return, Heard
  <1>2. CASE RespondFinal(r)
    BY <1>2 DEF RespondFinal, Return, Heard, LateSteers
  <1>3. CASE RespondSteered(r)
    BY <1>3 DEF RespondSteered
  <1>4. CASE RespondCalls(r)
    BY <1>4 DEF RespondCalls, NoToolAnswer
  <1> QED BY <1>1, <1>2, <1>3, <1>4

LEMMA FailureKeeps ==
  ASSUME Inv, NEW f \in Failures, RequestFails(f)
  PROVE  Inv'
  <1> USE AssumptionsHold, NoRequestTyped
      DEF Assumptions, Inv, TypeOK, LoopInv, TalkInv, CarriedInv, StreamInv,
          NotesInv, Awaiting, Ended, Requesting, Tails, IterationCap,
          noteVars, RequestFails, ErrorLeaves
  <1>1. CASE Adapt(f)
    BY <1>1 DEF Adapt, Rejected
  <1>2. CASE KeepPartial(f)
    BY <1>2 DEF KeepPartial, Return
  <1>3. CASE RequestThrows(f)
    BY <1>3 DEF RequestThrows
  <1> QED BY <1>1, <1>2, <1>3

LEMMA CallsKeep ==
  ASSUME Inv, \/ Throw \/ RefuseForBudget \/ BlockCall \/ AskApproval
              \/ Declined \/ Approved \/ ToolReturns \/ NextIteration
  PROVE  Inv'
  <1> USE AssumptionsHold
      DEF Assumptions, Inv, TypeOK, LoopInv, TalkInv, CarriedInv, StreamInv,
          NotesInv, Awaiting, Ended, Requesting, Tails, IterationCap, routeVars,
          noteVars, resultVars, CallDone
  <1>1. CASE Throw
    BY <1>1 DEF Throw
  <1>2. CASE RefuseForBudget
    BY <1>2 DEF RefuseForBudget
  <1>3. CASE BlockCall
    BY <1>3 DEF BlockCall
  <1>4. CASE AskApproval
    BY <1>4 DEF AskApproval
  <1>5. CASE Declined
    BY <1>5 DEF Declined
  <1>6. CASE Approved
    BY <1>6 DEF Approved
  <1>7. CASE ToolReturns
    BY <1>7 DEF ToolReturns
  <1>8. CASE NextIteration
    BY <1>8 DEF NextIteration, RoundDone
  <1> QED BY <1>1, <1>2, <1>3, <1>4, <1>5, <1>6, <1>7, <1>8

\* The actions of the turn and of the operator.
LEMMA StepKeeps ==
  ASSUME Inv, [Next]_vars
  PROVE  Inv'
  <1>1. CASE Steer \/ Abort
    BY <1>1, OperatorKeeps
  <1>2. CASE HitCap \/ StopAtCheckpoint \/ SendRequest
    BY <1>2, LoopKeeps
  <1>3. CASE Request
    BY <1>3, PolicyKeeps, ResponseKeeps, FailureKeeps DEF Request
  <1>4. CASE \/ Throw \/ RefuseForBudget \/ BlockCall \/ AskApproval
             \/ Declined \/ Approved \/ ToolReturns \/ NextIteration
    BY <1>4, CallsKeep
  <1>5. CASE UNCHANGED vars
    BY <1>5 DEF vars, routeVars, loopVars, noteVars, resultVars, Inv, TypeOK,
       LoopInv, TalkInv, CarriedInv, StreamInv, NotesInv
  <1> QED BY <1>1, <1>2, <1>3, <1>4, <1>5 DEF Next, Work

LEMMA InvCorrect == Spec => []Inv
  <1> QED BY InitInv, StepKeeps, PTL DEF Spec

\* Every variable of the turn keeps its type; the loop stays below its cap.
THEOREM TypeCorrect == Spec => []TypeOK
  <1>1. Inv => TypeOK
    BY DEF Inv
  <1> QED BY <1>1, InvCorrect, PTL

\* The number of attempts, by the step.
LEMMA AttemptsKept ==
  ASSUME Inv, AttemptsAreBudgeted, [Next]_vars
  PROVE  AttemptsAreBudgeted'
  <1> USE AssumptionsHold DEF Assumptions, AttemptsAreBudgeted
  <1>1. req \in Requests
    BY DEF Inv, TypeOK
  <1>2. ASSUME NEW f \in Failures, BackOff(f) PROVE AttemptsAreBudgeted'
    <2>1. CASE WithinBase
      BY <1>1, <1>2, <2>1 DEF BackOff, WithinBase, Requests
    <2>2. CASE ~WithinBase
      BY <1>1, <1>2, <2>2 DEF BackOff, MayRetry, WithinBase, WithinExtra, Requests
    <2> QED BY <2>1, <2>2
  <1>3. CASE Wake
    BY <1>3 DEF Wake
  <1>4. CASE Stream
    BY <1>4, StreamTyped DEF Stream
  <1>5. CASE \/ FallBack \/ StreamOpens
             \/ \E f \in Failures : RequestFails(f)
             \/ \E r \in Responses : Respond(r)
    BY <1>5 DEF FallBack, StreamOpens, RequestFails, Respond, NoRequest
  <1>6. CASE \/ HitCap \/ StopAtCheckpoint \/ SendRequest \/ Throw
             \/ RefuseForBudget \/ BlockCall \/ AskApproval
             \/ Declined \/ Approved \/ ToolReturns \/ NextIteration
    <2>1. req' = req /\ pc \notin Requesting
      BY <1>6 DEF HitCap, StopAtCheckpoint, SendRequest, Throw, RefuseForBudget,
         BlockCall, AskApproval, Declined, Approved, ToolReturns, NextIteration,
         Requesting, RoundDone
    <2> QED BY <2>1 DEF NoRequest, Requesting
  <1>7. CASE Steer \/ Abort \/ UNCHANGED vars
    BY <1>7 DEF Steer, Abort, vars, loopVars
  <1> QED
    BY <1>2, <1>3, <1>4, <1>5, <1>6, <1>7 DEF Next, Work, Request

\* However a request fails on the way, its attempts stay within the budget, and
\* beyond the base only at the provider's word.
THEOREM AttemptsCorrect == Spec => []AttemptsAreBudgeted
  <1>1. Init => AttemptsAreBudgeted
    BY AssumptionsHold DEF Assumptions, Init, AttemptsAreBudgeted, NoRequest
  <1> QED BY <1>1, InvCorrect, AttemptsKept, PTL DEF Spec

\* The steps that charge the budget, and the others.
LEMMA BudgetKept ==
  ASSUME Inv, BudgetCountsExecutions, [Next]_vars
  PROVE  BudgetCountsExecutions'
  <1> USE AssumptionsHold DEF Assumptions, BudgetCountsExecutions, Inv, TypeOK
  <1>1. CASE ToolReturns
    BY <1>1 DEF ToolReturns, CallDone, LoopInv
  <1>2. CASE RefuseForBudget
    BY <1>2 DEF RefuseForBudget, CallDone, resultVars
  <1>3. CASE BlockCall \/ Declined
    BY <1>3 DEF BlockCall, Declined, CallDone, resultVars
  <1>4. CASE \/ HitCap \/ StopAtCheckpoint \/ SendRequest \/ Throw
             \/ AskApproval \/ Approved \/ NextIteration \/ Steer \/ Abort
             \/ Request \/ UNCHANGED vars
    <2>1. toolBudget' = toolBudget /\ executed' = executed
      BY <1>4 DEF HitCap, StopAtCheckpoint, SendRequest, Throw, AskApproval,
         Approved, NextIteration, Steer, Abort, Request, BackOff, RequestFails,
         Wake, FallBack, StreamOpens, Stream, Respond, vars, loopVars,
         resultVars, Adapt, KeepPartial, RequestThrows
    <2> QED BY <2>1
  <1> QED BY <1>1, <1>2, <1>3, <1>4 DEF Next, Work

\* At most MaxToolCalls tools run, and the budget is spent by them alone.
THEOREM BudgetCorrect == Spec => []BudgetCountsExecutions
  <1>1. Init => BudgetCountsExecutions
    BY AssumptionsHold DEF Assumptions, Init, BudgetCountsExecutions
  <1> QED BY <1>1, InvCorrect, BudgetKept, PTL DEF Spec

\* What a provider is sent is a complete conversation.
THEOREM RequestsComplete == Spec => []RequestIsComplete
  <1>1. Inv => RequestIsComplete
    BY DEF Inv, TalkInv, RequestIsComplete, Requesting
  <1> QED BY <1>1, InvCorrect, PTL

\* Every note typed waits, is on its way or was sent once.
THEOREM NotesCorrect == Spec => []NotesDelivered
  <1>1. Inv => NotesDelivered
    BY DEF Inv, NotesInv, CarriedInv, NotesDelivered
  <1> QED BY <1>1, InvCorrect, PTL

LEMMA AnswerKept ==
  ASSUME Inv, AnswerIsKept, [Next]_vars
  PROVE  AnswerIsKept'
  <1> USE DEF AnswerIsKept, Return
  <1>1. CASE StopAtCheckpoint
    BY <1>1 DEF StopAtCheckpoint
  <1>2. ASSUME NEW r \in Responses, Respond(r) PROVE AnswerIsKept'
    BY <1>2 DEF Respond, RespondAborted, RespondFinal, RespondSteered,
       RespondCalls, Heard
  <1>3. ASSUME NEW f \in Failures, RequestFails(f) PROVE AnswerIsKept'
    BY <1>3 DEF RequestFails, Adapt, KeepPartial, RequestThrows
  <1>4. CASE \/ HitCap \/ SendRequest \/ Throw \/ RefuseForBudget \/ BlockCall
             \/ AskApproval \/ Declined \/ Approved \/ ToolReturns
             \/ NextIteration \/ Wake \/ FallBack \/ StreamOpens \/ Stream
             \/ \E f \in Failures : BackOff(f)
    <2>1. pc' # "answered"
      BY <1>4 DEF HitCap, SendRequest, Throw, RefuseForBudget, BlockCall,
         AskApproval, Declined, Approved, ToolReturns, NextIteration, Wake,
         FallBack, StreamOpens, Stream, BackOff, CallDone
    <2> QED BY <2>1
  <1>5. CASE Steer \/ Abort \/ UNCHANGED vars
    BY <1>5 DEF Steer, Abort, vars, loopVars, resultVars
  <1> QED BY <1>1, <1>2, <1>3, <1>4, <1>5 DEF Next, Work, Request

\* What the model has said on the way is not lost at the end.
THEOREM AnswerCorrect == Spec => []AnswerIsKept
  <1>1. Init => AnswerIsKept
    BY DEF Init, AnswerIsKept
  <1> QED BY <1>1, InvCorrect, AnswerKept, PTL DEF Spec

-----------------------------------------------------------------------------
(* Action properties.                                                      *)

\* After an abort nothing goes out and no tool runs.
THEOREM AbortCorrect == Spec => AbortIsBoundary
  <1> DEFINE A == /\ pc' = "request" /\ (pc # "request" \/ streaming' # streaming)
                        => ~aborted
                  /\ (pc' = "executing" /\ pc # "executing") => ~aborted
  <1>1. ASSUME [Next]_vars PROVE A
    <2>1. CASE SendRequest \/ Wake \/ FallBack \/ Approved
      BY <2>1 DEF SendRequest, MaySend, Wake, FallBack, Approved
    <2>2. CASE \/ HitCap \/ StopAtCheckpoint \/ Throw \/ RefuseForBudget
               \/ BlockCall \/ AskApproval \/ Declined \/ ToolReturns
               \/ NextIteration \/ StreamOpens
               \/ \E f \in Failures : BackOff(f) \/ RequestFails(f)
               \/ \E r \in Responses : Respond(r)
      <3>1. pc' \notin {"request", "executing"}
        BY <2>2 DEF HitCap, StopAtCheckpoint, Throw, RefuseForBudget, BlockCall,
           AskApproval, Declined, ToolReturns, NextIteration, StreamOpens,
           BackOff, RequestFails, Respond, RespondAborted, RespondFinal,
           RespondSteered, RespondCalls, Adapt, KeepPartial, RequestThrows,
           Return, CallDone
      <3> QED BY <3>1
    <2>3. CASE Stream \/ Steer \/ Abort \/ UNCHANGED vars
      BY <2>3 DEF Stream, Steer, Abort, vars, loopVars, routeVars
    <2> QED BY <2>1, <2>2, <2>3, <1>1 DEF Next, Work, Request
  <1>2. [Next]_vars => [A]_vars
    BY <1>1
  <1> QED BY <1>2, PTL DEF Spec, AbortIsBoundary

\* Only a stream closed as a request of tools leads to tools.
THEOREM CommittedCorrect == Spec => CommittedCalls
  <1> DEFINE A == pc = "streaming" /\ pc' = "calls" =>
                     req.closed = "tools" /\ unanswered' = req.calls
  <1>1. ASSUME Inv, [Next]_vars PROVE A
    <2>1. ASSUME NEW r \in Responses, Respond(r) PROVE A
      <3> SUFFICES ASSUME pc = "streaming", pc' = "calls"
                   PROVE  req.closed = "tools" /\ unanswered' = req.calls
        OBVIOUS
      <3>1. RespondCalls(r)
        BY <2>1 DEF Respond, RespondAborted, RespondFinal, RespondSteered, Return
      <3>2. PICK b \in BOOLEAN : r = Streamed(b)
        BY <2>1 DEF Respond, Received
      <3>3. r.calls # 0 /\ ~r.dangling /\ unanswered' = r.calls
        BY <3>1 DEF RespondCalls, NoToolAnswer
      <3>4. req \in Requests /\ StreamInv /\ family \in Families
        BY <1>1 DEF Inv, TypeOK
      <3>5. r.calls = IF /\ family = "chat-completions"
                         /\ req.closed # "tools" \/ b \/ aborted
                      THEN 0 ELSE req.calls
        BY <3>2 DEF Streamed
      <3>6. r.dangling = (/\ family = "anthropic" /\ req.calls > 0
                          /\ req.closed # "tools")
        BY <3>2 DEF Streamed
      <3>7. r.calls = req.calls /\ req.calls > 0
        BY <3>3, <3>4, <3>5 DEF Requests
      <3>8. CASE family = "chat-completions"
        BY <3>3, <3>5, <3>7, <3>8
      <3>9. CASE family = "anthropic"
        BY <3>3, <3>6, <3>7, <3>9
      <3>10. CASE family = "responses"
        BY <3>3, <3>4, <3>7, <3>10 DEF StreamInv
      <3> QED
        BY <3>4, <3>8, <3>9, <3>10, AssumptionsHold DEF Assumptions
    <2>2. CASE \/ HitCap \/ StopAtCheckpoint \/ SendRequest \/ Throw
               \/ RefuseForBudget \/ BlockCall \/ AskApproval \/ Declined
               \/ Approved \/ ToolReturns \/ NextIteration \/ Wake \/ FallBack
               \/ StreamOpens \/ \E f \in Failures : BackOff(f)
      BY <2>2 DEF HitCap, StopAtCheckpoint, SendRequest, Throw, RefuseForBudget,
         BlockCall, AskApproval, Declined, Approved, ToolReturns, NextIteration,
         RoundDone, Wake, FallBack, StreamOpens, BackOff
    <2>3. ASSUME NEW f \in Failures, RequestFails(f) PROVE A
      BY <2>3 DEF RequestFails, Adapt, KeepPartial, RequestThrows, Return
    <2>4. CASE Stream \/ Steer \/ Abort \/ UNCHANGED vars
      BY <2>4 DEF Stream, Steer, Abort, vars, loopVars
    <2> QED BY <2>1, <2>2, <2>3, <2>4, <1>1 DEF Next, Work, Request
  <1>2. Inv /\ [Next]_vars => [A]_vars
    BY <1>1
  <1> QED BY <1>2, InvCorrect, PTL DEF Spec, CommittedCalls
=============================================================================
