------------------------------ MODULE AgentTurn -----------------------------
(***************************************************************************)
(* The agent turn of src/src/model/agentTurn.ts: directAgentTurn, the tool *)
(* loops of its three API families, their requests under the retry policy  *)
(* of retryPolicy.ts, the streams of the responses, and performToolCall.   *)
(*                                                                         *)
(* The turn waits in five places: for an attempt of a request (pc          *)
(* "request"), between two attempts ("backoff"), for the rest of a stream  *)
(* ("streaming"), for approveTool ("approval") and for executeTool         *)
(* ("executing").  Only there can the operator steer or abort.  "top" and  *)
(* "calls" are the loop head and the loop over the calls of one response.  *)
(*                                                                         *)
(* The conversation sent to the provider is represented by its last        *)
(* message and by the tool calls that still lack a result; the operator's  *)
(* notes by counts.                                                        *)
(***************************************************************************)
EXTENDS Integers

CONSTANTS
    Families,      \* API families the route may have
    MaxToolCalls,  \* context.maxToolCalls
    MaxRetries,    \* retry.maxRetries (0 also stands for retry.enabled = false)
    ProviderRetries,  \* retry.provider.maxRetries
    MaxCalls,      \* bound: tool calls in one response
    MaxSteers      \* bound: notes the operator types during the turn

ASSUME FamiliesAssumption ==
    Families \subseteq {"chat-completions", "responses", "anthropic"}
ASSUME BudgetAssumption == MaxToolCalls \in Nat \ {0}
ASSUME RetryAssumption == MaxRetries \in Nat /\ ProviderRetries \in Nat
ASSUME CallsAssumption == MaxCalls \in Nat
ASSUME SteersAssumption == MaxSteers \in Nat

IterationCap == MaxToolCalls + 4

Awaiting == {"request", "backoff", "streaming", "approval", "executing"}
Ended == {"answered", "capped", "failed"}

VARIABLES
    family,     \* the API family of the route
    pc,         \* where the loop is
    iteration,  \* iteration
    toolBudget, \* toolBudget
    lastEvent,  \* status of the last tool event: "none", "blocked" or "ran"
    said,       \* lastAssistant / lastText is not empty: a response had text
    tail,       \* the last message of the conversation
    unanswered, \* tool calls of the last assistant message without a result
    adapted,    \* the one parameter quirk was adapted to
    streaming,  \* wantsStreaming(context)
    req,        \* the request under way: its attempts and its stream
    aborted,    \* context.signal.aborted
    steers,     \* notes pullSteering would return
    carried,    \* notes pulled that no request has carried yet
    sent,       \* ghost: notes a request has carried
    typed,      \* ghost: notes typed by the operator
    executed,   \* ghost: executeTool calls that returned
    answer      \* "text" or "empty" once the turn has returned

routeVars == <<family, adapted, streaming>>
loopVars == <<pc, iteration, toolBudget, lastEvent, said, tail, unanswered>>
noteVars == <<steers, carried, sent, typed>>
resultVars == <<executed, answer>>
vars == <<routeVars, loopVars, req, aborted, noteVars, resultVars>>

Tails == {"prompt", "user", "assistant", "tool"}

\* How an attempt or a stream fails: unreachable, reset or stalled in the body;
\* our timeout; the operator's abort; 408, 429 or 5xx without and with a delay
\* the provider asks for, within the cap or beyond it; anything else.
Failures ==
    {"network", "timeout", "aborted", "busy", "asked", "tooLong", "other"}

\* attempt and extra are the counters of runWithRetryPolicy, failure the last
\* failure it has seen; text, calls and closed what the stream has brought:
\* text streamed to the operator, tool calls, and the provider's mark that the
\* response is whole ("tools" for a request of tools, "other" for any other
\* end).  completed is the responses family's response.completed: not seen, with
\* an empty output, with an output without text, or with text of its own.
Completions == {"none", "empty", "silent", "text"}
Requests == [attempt : Nat, extra : Nat, failure : Failures \cup {"none"},
             text : BOOLEAN, calls : 0..MaxCalls,
             closed : {"open", "tools", "other"}, completed : Completions]
NoRequest == [attempt |-> 0, extra |-> 0, failure |-> "none", text |-> FALSE,
              calls |-> 0, closed |-> "open", completed |-> "none"]

Init ==
    /\ family \in Families
    /\ pc = "top"
    /\ iteration = 0
    /\ toolBudget = MaxToolCalls
    /\ lastEvent = "none"
    /\ said = FALSE
    /\ tail = "prompt"
    /\ unanswered = 0
    /\ adapted \in BOOLEAN
    /\ family = "anthropic" => adapted
    /\ family = "chat-completions" => ~adapted
    /\ streaming \in BOOLEAN
    /\ req = NoRequest
    /\ aborted = FALSE
    /\ steers = 0
    /\ carried = 0
    /\ sent = 0
    /\ typed = 0
    /\ executed = 0
    /\ answer = "none"

-----------------------------------------------------------------------------
(* The operator.                                                           *)

Steer ==
    /\ pc \in Awaiting
    /\ typed < MaxSteers
    /\ typed' = typed + 1
    /\ steers' = steers + 1
    /\ UNCHANGED <<routeVars, loopVars, req, aborted, carried, sent,
                   resultVars>>

Abort ==
    /\ pc \in Awaiting
    /\ ~aborted
    /\ aborted' = TRUE
    /\ UNCHANGED <<routeVars, loopVars, req, noteVars, resultVars>>

-----------------------------------------------------------------------------
(* The loop head.                                                          *)

Return(nonEmpty) ==
    /\ pc' = "answered"
    /\ answer' = IF nonEmpty THEN "text" ELSE "empty"

\* The for condition comes before the abort checkpoint.
HitCap ==
    /\ pc = "top"
    /\ iteration >= IterationCap
    /\ pc' = "capped"
    /\ UNCHANGED <<routeVars, iteration, toolBudget, lastEvent, said, tail,
                   unanswered, req, aborted, noteVars, resultVars>>

StopAtCheckpoint ==
    /\ pc = "top"
    /\ iteration < IterationCap
    /\ aborted
    /\ Return(said)
    /\ UNCHANGED <<routeVars, iteration, toolBudget, lastEvent, said, tail,
                   unanswered, req, aborted, noteVars, executed>>

\* The anthropic loop drains only onto a user message with a block list.
CanInject ==
    /\ iteration > 0
    /\ family = "anthropic" => tail = "user"

MaySend == iteration < IterationCap /\ ~aborted

\* Mid-run steers are pushed, then the request goes out.
SendRequest ==
    /\ pc = "top"
    /\ MaySend
    /\ LET pulled == IF CanInject THEN steers ELSE 0
       IN  /\ steers' = steers - pulled
           /\ carried' = 0
           /\ sent' = sent + carried + pulled
           /\ tail' = IF pulled > 0 THEN "user" ELSE tail
    /\ pc' = "request"
    /\ UNCHANGED <<routeVars, iteration, toolBudget, lastEvent, said,
                   unanswered, req, aborted, typed, resultVars>>

-----------------------------------------------------------------------------
(* The request under the retry policy: runWithRetryPolicy around fetch.    *)

Transient == {"network", "timeout", "aborted"}
ProviderAsked == {"asked", "tooLong"}
Retryable == {"network", "busy"} \cup ProviderAsked

WithinBase == req.attempt < MaxRetries

\* Mutant: the extra attempts are granted to any failure.
MutantWithinExtra(f) == req.extra < ProviderRetries
WithinExtra(f) == f \in ProviderAsked /\ req.extra < ProviderRetries

\* A delay beyond the cap fails at once; an abort ends all retrying.
MayRetry(f) ==
    /\ f \in Retryable \ {"tooLong"}
    /\ ~aborted
    /\ WithinBase \/ WithinExtra(f)

\* The attempt failed and the policy sleeps before the next one.
BackOff(f) ==
    /\ pc = "request"
    /\ MayRetry(f)
    /\ req' = [req EXCEPT !.attempt = @ + 1,
                          !.extra = IF WithinBase THEN @ ELSE @ + 1,
                          !.failure = f]
    /\ pc' = "backoff"
    /\ UNCHANGED <<routeVars, iteration, toolBudget, lastEvent, said, tail,
                   unanswered, aborted, noteVars, resultVars>>

\* The sleep is over and the request is tried again.
Wake ==
    /\ pc = "backoff"
    /\ ~aborted
    /\ pc' = "request"
    /\ UNCHANGED <<routeVars, iteration, toolBudget, lastEvent, said, tail,
                   unanswered, req, aborted, noteVars, resultVars>>

\* 405, 415 or 501 to a streaming request: the turn streams no more and the same
\* request goes out without, under a retry policy of its own.
FallBack ==
    /\ pc = "request"
    /\ streaming
    /\ ~aborted
    /\ streaming' = FALSE
    /\ req' = NoRequest
    /\ UNCHANGED <<family, adapted, pc, iteration, toolBudget, lastEvent, said,
                   tail, unanswered, aborted, noteVars, resultVars>>

-----------------------------------------------------------------------------
(* The stream of a response.                                               *)

StreamOpens ==
    /\ pc = "request"
    /\ streaming
    /\ req' = NoRequest
    /\ pc' = "streaming"
    /\ UNCHANGED <<routeVars, iteration, toolBudget, lastEvent, said, tail,
                   unanswered, aborted, noteVars, resultVars>>

\* The responses family announces its calls in response.completed only, which
\* repeats the text that was streamed, or not.  A mark comes once.
StreamEvent ==
    \/ ~req.text /\ req' = [req EXCEPT !.text = TRUE]
    \/ /\ family # "responses"
       /\ req.calls < MaxCalls
       /\ req' = [req EXCEPT !.calls = @ + 1]
    \/ /\ req.closed = "open"
       /\ family # "responses"
       /\ \E mark \in {"tools", "other"} : req' = [req EXCEPT !.closed = mark]
    \/ /\ req.closed = "open"
       /\ family = "responses"
       /\ \E n \in 0..MaxCalls, c \in Completions \ {"none"} :
             /\ n > 0 => c # "empty"
             /\ req' = [req EXCEPT !.closed = "tools", !.calls = n,
                                   !.completed = c]

Stream ==
    /\ pc = "streaming"
    /\ ~aborted
    /\ StreamEvent
    /\ UNCHANGED <<routeVars, pc, iteration, toolBudget, lastEvent, said, tail,
                   unanswered, aborted, noteVars, resultVars>>

\* The text a stream leaves: what response.completed has of it when its output
\* is not empty, even if that is none, and what was streamed otherwise.
StreamedText ==
    \/ req.completed = "text"
    \/ req.completed \in {"none", "empty"} /\ req.text

\* Mutant: the calls of a stream that broke off are run.
MutantStreamed(broken) ==
    [text |-> StreamedText,
     calls |-> req.calls,
     dangling |-> family = "anthropic" /\ req.calls > 0 /\ req.closed # "tools"]
\* The response a stream leaves when it has ended, or broken off after some
\* text.  An anthropic one keeps its calls, but they dangle without their stop
\* reason.
Streamed(broken) ==
    [text |-> StreamedText,
     calls |-> IF family = "chat-completions"
                  /\ (req.closed # "tools" \/ broken \/ aborted)
               THEN 0 ELSE req.calls,
     dangling |-> family = "anthropic" /\ req.calls > 0 /\ req.closed # "tools"]

\* What a stream's reader can throw: an error event is not transient.
StreamFailures ==
    {"network", "timeout"} \cup (IF family = "responses" THEN {"other"} ELSE {})

-----------------------------------------------------------------------------
(* The provider's response.                                                *)

\* A response: does it have text, how many tool calls, and (anthropic only) did
\* it stop with calls in it for another reason than "tool_use".
Responses ==
    {r \in [text : BOOLEAN, calls : 0..MaxCalls, dangling : BOOLEAN] :
        r.dangling => family = "anthropic" /\ r.calls > 0}

\* The body of a request that does not stream, or the end of a stream; one that
\* breaks off after some text was streamed counts as ended.
Received(r) ==
    \/ pc = "request" /\ ~streaming /\ r \in Responses
    \/ pc = "streaming" /\ r = Streamed(FALSE)
    \/ pc = "streaming" /\ req.text /\ r = Streamed(TRUE)

NoToolAnswer(r) == r.calls = 0 \/ r.dangling

\* What the turn can return after r: its text, else the last non-empty one.
Heard(r) == r.text \/ said

\* The abort landed while the response was on its way: partial text is kept.
RespondAborted(r) ==
    /\ aborted
    /\ said' = (said \/ r.text)
    /\ Return(Heard(r))
    /\ UNCHANGED <<iteration, tail, unanswered, noteVars>>

\* Mutant: the notes are drained even when they cannot be injected.
MutantLateSteers(r) == steers
\* The notes typed while the answer streamed; dangling tool calls leave them
\* queued.
LateSteers(r) == IF r.dangling THEN 0 ELSE steers

\* No tool call and no note: the answer.
RespondFinal(r) ==
    /\ ~aborted
    /\ NoToolAnswer(r)
    /\ r.dangling \/ steers = 0
    /\ said' = (said \/ r.text)
    /\ steers' = steers - LateSteers(r)
    /\ carried' = carried + LateSteers(r)
    /\ Return(Heard(r))
    /\ UNCHANGED <<iteration, tail, unanswered, sent, typed>>

\* No tool call, but notes: the answer (unless it is empty) and one user message
\* with the notes are pushed and the loop goes on.
RespondSteered(r) ==
    /\ ~aborted
    /\ r.calls = 0
    /\ steers > 0
    /\ said' = (said \/ r.text)
    /\ steers' = 0
    /\ carried' = carried + steers
    /\ tail' = "user"
    /\ iteration' = iteration + 1
    /\ pc' = "top"
    /\ UNCHANGED <<unanswered, sent, typed, answer>>

\* Tool calls: the assistant message is pushed and the calls are gone through.
RespondCalls(r) ==
    /\ ~aborted
    /\ ~NoToolAnswer(r)
    /\ said' = (said \/ r.text)
    /\ tail' = "assistant"
    /\ unanswered' = r.calls
    /\ pc' = "calls"
    /\ UNCHANGED <<iteration, noteVars, answer>>

Respond(r) ==
    /\ Received(r)
    /\ \/ RespondAborted(r) \/ RespondFinal(r)
       \/ RespondSteered(r) \/ RespondCalls(r)
    /\ req' = NoRequest
    /\ UNCHANGED <<routeVars, toolBudget, lastEvent, aborted, executed>>

\* The error that leaves the request: of an attempt that is not retried, of the
\* last attempt when the sleep was cut short, or of a stream that has streamed no
\* text.
ErrorLeaves(f) ==
    \/ pc = "request" /\ ~MayRetry(f) /\ (f = "aborted" => aborted)
    \/ pc = "backoff" /\ aborted /\ f = req.failure
    \/ /\ pc = "streaming"
       /\ f \in StreamFailures
       /\ ~(req.text /\ f \in Transient)

\* The provider rejects a parameter: adapted to, and the loop goes on without
\* counting the iteration.
Rejected(f) ==
    ~adapted /\ pc # "streaming" /\ f \notin Transient \cup {"tooLong"}

\* Mutant: the flag that makes the retry happen once is not set.
MutantAdapt(f) ==
    /\ Rejected(f)
    /\ pc' = "top"
    /\ UNCHANGED <<adapted, answer>>

Adapt(f) ==
    /\ Rejected(f)
    /\ adapted' = TRUE
    /\ pc' = "top"
    /\ UNCHANGED answer

\* After a transient failure the text said so far is the answer.
KeepPartial(f) ==
    /\ f \in Transient
    /\ said
    /\ Return(said)
    /\ UNCHANGED adapted

RequestThrows(f) ==
    /\ ~(f \in Transient /\ said)
    /\ pc' = "failed"
    /\ UNCHANGED <<adapted, answer>>

RequestFails(f) ==
    /\ ErrorLeaves(f)
    /\ Adapt(f) \/ KeepPartial(f) \/ RequestThrows(f)
    /\ req' = NoRequest
    /\ UNCHANGED <<family, streaming, iteration, toolBudget, lastEvent, said,
                   tail, unanswered, aborted, noteVars, executed>>

\* A failure of approveTool or of executeTool throws.
Throw ==
    /\ pc \in {"approval", "executing"}
    /\ pc' = "failed"
    /\ UNCHANGED <<routeVars, iteration, toolBudget, lastEvent, said, tail,
                   unanswered, req, aborted, noteVars, resultVars>>

Request ==
    \/ \E f \in Failures : BackOff(f) \/ RequestFails(f)
    \/ Wake \/ FallBack
    \/ StreamOpens \/ Stream
    \/ \E r \in Responses : Respond(r)

-----------------------------------------------------------------------------
(* performToolCall() and the loop over the calls.                          *)

\* A call is done: its result is pushed, and the budget pays when the last
\* recorded event is not a blocked one.
CallDone(event) ==
    /\ lastEvent' = event
    /\ toolBudget' = IF event = "ran" THEN toolBudget - 1 ELSE toolBudget
    /\ unanswered' = unanswered - 1
    /\ tail' = IF family = "anthropic" THEN tail ELSE "tool"
    /\ pc' = "calls"

\* The budget is used up: no event is recorded, so the last one counts again.
RefuseForBudget ==
    /\ pc = "calls"
    /\ unanswered > 0
    /\ toolBudget <= 0
    /\ CallDone(lastEvent)
    /\ UNCHANGED <<routeVars, iteration, said, req, aborted, noteVars,
                   resultVars>>

\* Mutant: a call of an unknown tool returns its error without an event.
MutantBlockCall ==
    /\ pc = "calls"
    /\ unanswered > 0
    /\ toolBudget > 0
    /\ CallDone(lastEvent)
    /\ UNCHANGED <<routeVars, iteration, said, req, aborted, noteVars,
                   resultVars>>

\* Unknown tool, aborted turn or invalid arguments.
BlockCall ==
    /\ pc = "calls"
    /\ unanswered > 0
    /\ toolBudget > 0
    /\ CallDone("blocked")
    /\ UNCHANGED <<routeVars, iteration, said, req, aborted, noteVars,
                   resultVars>>

AskApproval ==
    /\ pc = "calls"
    /\ unanswered > 0
    /\ toolBudget > 0
    /\ ~aborted
    /\ pc' = "approval"
    /\ UNCHANGED <<routeVars, iteration, toolBudget, lastEvent, said, tail,
                   unanswered, req, aborted, noteVars, resultVars>>

\* Declined, or approved after the turn was aborted.
Declined ==
    /\ pc = "approval"
    /\ CallDone("blocked")
    /\ UNCHANGED <<routeVars, iteration, said, req, aborted, noteVars,
                   resultVars>>

\* Mutant: the abort is not rechecked after the approval.
MutantApproved ==
    /\ pc = "approval"
    /\ pc' = "executing"
    /\ UNCHANGED <<routeVars, iteration, toolBudget, lastEvent, said, tail,
                   unanswered, req, aborted, noteVars, resultVars>>

Approved ==
    /\ pc = "approval"
    /\ ~aborted
    /\ pc' = "executing"
    /\ UNCHANGED <<routeVars, iteration, toolBudget, lastEvent, said, tail,
                   unanswered, req, aborted, noteVars, resultVars>>

\* executeTool answers, with success or failure.
ToolReturns ==
    /\ pc = "executing"
    /\ CallDone("ran")
    /\ executed' = executed + 1
    /\ UNCHANGED <<routeVars, iteration, said, req, aborted, noteVars, answer>>

\* Mutant: the results of a round are pushed before its last call is done.
MutantRoundDone == pc = "calls" /\ unanswered <= 1
RoundDone == pc = "calls" /\ unanswered = 0

\* All calls have their result; anthropic pushes them as one user message.
NextIteration ==
    /\ RoundDone
    /\ iteration' = iteration + 1
    /\ tail' = IF family = "anthropic" THEN "user" ELSE tail
    /\ pc' = "top"
    /\ UNCHANGED <<routeVars, toolBudget, lastEvent, said, unanswered, req,
                   aborted, noteVars, resultVars>>

-----------------------------------------------------------------------------
Work ==
    \/ HitCap \/ StopAtCheckpoint \/ SendRequest
    \/ Request \/ Throw
    \/ RefuseForBudget \/ BlockCall \/ AskApproval
    \/ Declined \/ Approved \/ ToolReturns \/ NextIteration

Next == Work \/ Steer \/ Abort

Spec == Init /\ [][Next]_vars

\* The provider, the approver and the tool each settle in the end: requests
\* and tools have timeouts, and the operator is assumed to answer an approval.
FairSpec == Spec /\ WF_vars(Work)

-----------------------------------------------------------------------------
(* Properties.                                                             *)

TypeOK ==
    /\ family \in Families
    /\ pc \in {"top", "calls"} \cup Awaiting \cup Ended
    /\ iteration \in 0..IterationCap
    /\ toolBudget \in Int
    /\ lastEvent \in {"none", "blocked", "ran"}
    /\ said \in BOOLEAN
    /\ tail \in Tails
    /\ unanswered \in 0..MaxCalls
    /\ adapted \in BOOLEAN
    /\ streaming \in BOOLEAN
    /\ req \in Requests
    /\ aborted \in BOOLEAN
    /\ steers \in 0..MaxSteers
    /\ carried \in 0..MaxSteers
    /\ sent \in 0..MaxSteers
    /\ typed \in 0..MaxSteers
    /\ executed \in Nat
    /\ answer \in {"none", "text", "empty"}

\* The budget counts executions and nothing else: at most MaxToolCalls tools
\* run, and it is used up only by tools that ran, however many calls were
\* unknown, declined, malformed or refused in between.
BudgetCountsExecutions ==
    IF toolBudget >= 0 THEN executed = MaxToolCalls - toolBudget
                       ELSE executed = MaxToolCalls

\* One run of the retry policy costs the network at most 1 + MaxRetries attempts
\* and one more for each extra the provider has itself asked for, whatever mix
\* of failures it meets on the way, and leaves nothing to the next run.
AttemptsAreBudgeted ==
    /\ req.extra <= ProviderRetries
    /\ req.attempt <= MaxRetries + req.extra
    /\ req.attempt > MaxRetries => req.failure \in ProviderAsked
    /\ pc \notin {"request", "backoff", "streaming"} => req = NoRequest

\* An abort is a hard boundary: once the signal is tripped nothing goes out to
\* the provider, as a first attempt, after a sleep or as the fallback from
\* streaming, and no tool is executed, also when the abort lands during an
\* approval.
AbortIsBoundary ==
    [][/\ pc' = "request" /\ (pc # "request" \/ streaming' # streaming)
             => ~aborted
       /\ (pc' = "executing" /\ pc # "executing") => ~aborted]_vars

\* Calls of a streamed response are acted on only when the provider has closed
\* it as a request of tools, and then on all it announced: a stream that breaks
\* off, ends early or stops for another reason runs none.
CommittedCalls ==
    [][pc = "streaming" /\ pc' = "calls" =>
          req.closed = "tools" /\ unanswered' = req.calls]_vars

\* The provider is only ever sent a conversation in which each tool call has
\* its result and the last word is not the assistant's own.
RequestIsComplete ==
    pc = "request" => unanswered = 0 /\ tail # "assistant"

\* No note is lost or sent twice: it waits in the queue, waits for the next
\* request, or was sent; and a turn that returns has sent all it had pulled.
\* (One that throws at its cap takes what it pulled last with it.)
NotesDelivered ==
    /\ typed = steers + carried + sent
    /\ pc = "answered" => carried = 0

\* A turn that returns never answers with nothing when one of its responses had
\* text, be it an earlier round's.  Text that was streamed to the operator and
\* that response.completed does not repeat beside its function calls is no
\* response's text: the turn forgets it.
AnswerIsKept == pc = "answered" /\ said => answer = "text"

\* The turn ends: tool rounds, steers and retries cannot keep it going.
TurnEnds == <>(pc \in Ended)
=============================================================================
