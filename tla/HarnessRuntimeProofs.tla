------------------------ MODULE HarnessRuntimeProofs ------------------------
(***************************************************************************)
(* Type correctness of HarnessRuntime, and that no attachment is orphaned  *)
(* and no live session is without its clients, for every set of calls and  *)
(* session ids.                                                            *)
(*                                                                         *)
(* The two invariants rest on who may write an entry of the table: the     *)
(* call a session's entry names has that id as its target and has passed   *)
(* its registration (EntryOwned); a start registers under an id no other   *)
(* call can have registered before it (StartAlone).                        *)
(***************************************************************************)
EXTENDS HarnessRuntime, TLAPS

Waiting == {"building", "recording"}

\* The entry of an id is a call for that id, registered, connected, not closing.
EntryOwned ==
    \A s \in SessionIds : sessions[s] # None =>
        /\ target[sessions[s]] = s
        /\ stage[sessions[s]] \in {"replacing", "returned"}
        /\ sessions[s] \in opened
        /\ sessions[s] \notin closing
        /\ s \in stored

\* What is closed has passed its registration or was discarded.
ClosingStage ==
    \A c \in closing : stage[c] \in {"discarding", "replacing", "returned"}

\* A call that records has its clients connected.
RecordingOpen ==
    \A c \in Calls : stage[c] = "recording" => c \in opened /\ c \notin closing

\* A start that has not recorded yet is the only call of its id that ever got
\* as far; a resume only gets there once the id is stored.
StartAlone ==
    /\ stored \subseteq drawn
    /\ \A c \in Calls : stage[c] = "free" => c \notin resumes
    /\ \A c \in Calls : stage[c] = "loading" => c \in resumes
    /\ \A c \in Calls \ resumes : stage[c] # "free" => target[c] \in drawn
    /\ \A c, d \in Calls \ resumes :
          stage[c] # "free" /\ stage[d] # "free" /\ target[c] = target[d] => c = d
    /\ \A c \in Calls : stage[c] \in Waiting =>
          (c \in resumes <=> target[c] \in stored)

Inv ==
    /\ TypeOK
    /\ EntryOwned
    /\ ClosingStage
    /\ RecordingOpen
    /\ StartAlone
    /\ NoOrphan

-----------------------------------------------------------------------------
LEMMA InitInv == Init => Inv
BY NoneAssumption DEF Init, Inv, TypeOK, EntryOwned, ClosingStage, RecordingOpen,
   StartAlone, NoOrphan, Registered, Waiting, Stages

LEMMA TypeInductive == TypeOK /\ [Next]_vars => TypeOK'
<1> SUFFICES ASSUME TypeOK, [Next]_vars PROVE TypeOK'
    OBVIOUS
<1> USE NoneAssumption DEF TypeOK, Stages, Goto
<1>1. ASSUME NEW c \in Calls, StartSession(c) PROVE TypeOK'
    BY <1>1 DEF StartSession, tableVars, closeVars
<1>2. ASSUME NEW c \in Calls, ResumeSession(c) PROVE TypeOK'
    BY <1>2 DEF ResumeSession, tableVars, closeVars
<1>3. ASSUME NEW c \in Calls, CallStep(c) PROVE TypeOK'
  <2>1. CASE Loaded(c)
    BY <2>1 DEF Loaded, tableVars, closeVars
  <2>2. CASE BuildFails(c)
    BY <2>2 DEF BuildFails, tableVars, closeVars
  <2>3. CASE Built(c)
    BY <2>3 DEF Built, closeVars
  <2>4. CASE RecordFails(c)
    BY <2>4 DEF RecordFails, closeVars
  <2>5. CASE Recorded(c)
    BY <2>5 DEF Recorded, Previous, closeVars
  <2>6. CASE Replaced(c)
    BY <2>6 DEF Replaced, tableVars, closeVars
  <2> QED BY <1>3, <2>1, <2>2, <2>3, <2>4, <2>5, <2>6 DEF CallStep
<1>4. ASSUME NEW c \in Calls, AttachmentCloses(c) PROVE TypeOK'
    BY <1>4 DEF AttachmentCloses, closeVars
<1>5. ASSUME NEW s \in SessionIds, CloseSession(s) PROVE TypeOK'
    BY <1>5 DEF CloseSession, IsLive, Forget, closeVars
<1>6. CASE Close
    BY <1>6 DEF Close, Registered
<1>7. CASE CloseReturns
    BY <1>7 DEF CloseReturns, tableVars
<1>8. CASE UNCHANGED vars
    BY <1>8 DEF vars, tableVars, closeVars
<1> QED BY <1>1, <1>2, <1>3, <1>4, <1>5, <1>6, <1>7, <1>8 DEF Next

LEMMA InvInductive == Inv /\ [Next]_vars => Inv'
<1> SUFFICES ASSUME Inv, [Next]_vars PROVE Inv'
    OBVIOUS
<1>0. TypeOK /\ TypeOK'
    BY TypeInductive DEF Inv
<1> DEFINE Parts == EntryOwned /\ ClosingStage /\ RecordingOpen /\ StartAlone /\ NoOrphan
<1> USE NoneAssumption, <1>0 DEF Inv, TypeOK, EntryOwned, ClosingStage,
    RecordingOpen, StartAlone, NoOrphan, Registered, Waiting, Goto
<1>1. ASSUME NEW c \in Calls, StartSession(c) PROVE Parts'
    BY <1>1 DEF StartSession, tableVars, closeVars
<1>2. ASSUME NEW c \in Calls, ResumeSession(c) PROVE Parts'
    BY <1>2 DEF ResumeSession, tableVars, closeVars
<1>3. ASSUME NEW c \in Calls, CallStep(c) PROVE Parts'
  <2>1. CASE Loaded(c)
    BY <2>1 DEF Loaded, tableVars, closeVars
  <2>2. CASE BuildFails(c)
    BY <2>2 DEF BuildFails, tableVars, closeVars
  <2>3. CASE Built(c)
    BY <2>3 DEF Built, closeVars
  <2>4. CASE RecordFails(c)
    BY <2>4 DEF RecordFails, closeVars
  <2>5. CASE Recorded(c)
    BY <2>5 DEF Recorded, Previous, closeVars
  <2>6. CASE Replaced(c)
    BY <2>6 DEF Replaced, tableVars, closeVars
  <2> QED BY <1>3, <2>1, <2>2, <2>3, <2>4, <2>5, <2>6 DEF CallStep
<1>4. ASSUME NEW c \in Calls, AttachmentCloses(c) PROVE Parts'
    BY <1>4 DEF AttachmentCloses, closeVars
<1>5. ASSUME NEW s \in SessionIds, CloseSession(s) PROVE Parts'
    BY <1>5 DEF CloseSession, IsLive, Forget, closeVars
<1>6. CASE Close
    BY <1>6 DEF Close
<1>7. CASE CloseReturns
    BY <1>7 DEF CloseReturns, tableVars
<1>8. CASE UNCHANGED vars
    BY <1>8 DEF vars, tableVars, closeVars
<1> QED BY <1>1, <1>2, <1>3, <1>4, <1>5, <1>6, <1>7, <1>8 DEF Next

LEMMA InvInvariant == Spec => []Inv
BY InitInv, InvInductive, PTL DEF Spec

\* The state of the runtime is well typed for every set of calls and ids.
THEOREM TypeCorrect == Spec => []TypeOK
BY InvInvariant, PTL DEF Inv

\* startSession, resumeSession, closeSession and close never orphan clients.
THEOREM NothingOrphaned == Spec => []NoOrphan
BY InvInvariant, PTL DEF Inv

\* A session found in the table has connected clients that nobody is closing.
THEOREM LiveSessionsOpen == Spec => []LiveSessionIsOpen
<1>1. Inv => LiveSessionIsOpen
    BY DEF Inv, EntryOwned, LiveSessionIsOpen, Registered
<1> QED BY <1>1, InvInvariant, PTL
=============================================================================
