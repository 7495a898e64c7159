------------------------- MODULE AgentSessionProofs -------------------------
(***************************************************************************)
(* TLAPS proofs about AgentSession for every set of sessions and routes    *)
(* and every number of operator inputs: the types, the freeze of the       *)
(* transcript under a compaction, that no interleaving loses an input that *)
(* reached the transcript and was not kept from the summarizer, that there *)
(* is one summary at most, and the order and single use of the inputs.     *)
(***************************************************************************)
EXTENDS AgentSession, SequenceTheorems, TLAPS

USE DEF sessionVars, codeVars, ghostVars

-----------------------------------------------------------------------------
(* Lemmas about the operators on transcripts.                              *)

\* The notes of a steer queue are messages, one per steer.
LEMMA NotesType ==
    ASSUME NEW q \in Seq(Inputs)
    PROVE  /\ Notes(q) \in Seq(Message)
           /\ Len(Notes(q)) = Len(q)
           /\ \A i \in 1..Len(q) : Notes(q)[i] = [role |-> "steering", covers |-> {q[i]}]
  <1>1. DOMAIN q = 1..Len(q) /\ Len(q) \in Nat
    OBVIOUS
  <1>2. \A i \in 1..Len(q) : [role |-> "steering", covers |-> {q[i]}] \in Message
    BY DEF Message, Roles
  <1>3. Notes(q) = [i \in 1..Len(q) |-> [role |-> "steering", covers |-> {q[i]}]]
    BY <1>1 DEF Notes
  <1>4. Notes(q) \in [1..Len(q) -> Message]
    BY <1>2, <1>3
  <1>5. Notes(q) \in Seq(Message)
    BY <1>1, <1>4, SeqDef
  <1>6. Len(Notes(q)) = Len(q)
    <2>1. DOMAIN Notes(q) = 1..Len(q)
      BY <1>3
    <2>2. DOMAIN Notes(q) = 1..Len(Notes(q)) /\ Len(Notes(q)) \in Nat
      BY <1>5, LenProperties
    <2> QED
      BY <1>1, <2>1, <2>2
  <1> QED
    BY <1>3, <1>5, <1>6

\* The message constructors build messages.
LEMMA MessageTypes ==
    /\ Reply \in Message
    /\ SystemPrompt \in Message
    /\ \A t \in Inputs : UserMsg(t) \in Message
  BY DEF Reply, SystemPrompt, UserMsg, Message, Roles

\* A boundary drain and a user push extend a transcript by messages.
LEMMA DrainedType ==
    ASSUME NEW h \in Seq(Message), NEW q \in Seq(Inputs), NEW t \in Inputs
    PROVE  Drained(h, q, t) \in Seq(Message)
  BY NotesType, MessageTypes DEF Drained

\* A cut point lies behind the protected head.
LEMMA CutPointBehindHead ==
    ASSUME NEW h \in Seq(Message), NEW k \in CutPoints(h)
    PROVE  /\ k \in 1..Len(h)
           /\ HeadLen(h) \in {0, 1}
           /\ HeadLen(h) + 1 < k
  BY DEF CutPoints, HeadLen

\* What compaction splices in is a transcript.
LEMMA RebuiltType ==
    ASSUME NEW h \in Seq(Message), NEW k \in CutPoints(h),
           NEW summed \in SUBSET Folded(h, k)
    PROVE  Rebuilt(h, k, summed) \in Seq(Message)
  <1> DEFINE C == CoversAt(h, summed)
             S == [role |-> "summary", covers |-> C]
  <1>1. /\ k \in 1..Len(h)
        /\ HeadLen(h) \in {0, 1}
        /\ HeadLen(h) + 1 < k
    BY CutPointBehindHead
  <1>2. \A i \in summed : h[i].covers \subseteq Inputs
    <2>1. \A i \in summed : i \in 1..Len(h)
      BY <1>1 DEF Folded
    <2>2. \A i \in 1..Len(h) : h[i] \in Message
      OBVIOUS
    <2> QED
      BY <2>1, <2>2 DEF Message
  <1>3. S \in Message
    BY <1>2 DEF Message, Roles, CoversAt
  <1>4. SubSeq(h, 1, HeadLen(h)) \in Seq(Message)
    BY <1>1
  <1>5. SubSeq(h, k, Len(h)) \in Seq(Message)
    BY <1>1
  <1>6. <<S>> \in Seq(Message)
    BY <1>3
  <1> HIDE DEF S
  <1>7. SubSeq(h, 1, HeadLen(h)) \o <<S>> \o SubSeq(h, k, Len(h)) \in Seq(Message)
    BY <1>4, <1>5, <1>6
  <1> QED
    BY <1>7 DEF Rebuilt, S

LEMMA CoversTyped ==
    ASSUME NEW h \in Seq(Message), NEW k \in CutPoints(h), NEW P \in SUBSET Folded(h, k)
    PROVE  CoversAt(h, P) \subseteq Inputs
  <1>1. \A i \in P : i \in 1..Len(h)
    BY CutPointBehindHead DEF Folded
  <1>2. \A i \in 1..Len(h) : h[i] \in Message
    OBVIOUS
  <1>3. \A i \in 1..Len(h) : h[i].covers \subseteq Inputs
    BY <1>2 DEF Message
  <1> QED
    BY <1>1, <1>3 DEF CoversAt

\* The effect of a finished compaction whose summary stands for summed.
Spliced(s, k, summed) ==
    /\ history' = [history EXCEPT ![s] = Rebuilt(snapshot[s], k, summed)]
    /\ unread' = [unread EXCEPT ![s] =
          @ \cup CoversAt(snapshot[s], Skipped(snapshot[s], k, summed))]

\* What is cut out of a region is never an old summary.
LEMMA RenderedKeeps ==
    ASSUME NEW h, NEW region, NEW x \in Rendered(h, region)
    PROVE  /\ x \subseteq region
           /\ \A i \in region : h[i].role = "summary" => i \in x
  BY DEF Rendered

\* A summary stands for a part of what is folded and, if any reply had a text,
\* for the summary before it.
LEMMA SummariesFold ==
    ASSUME NEW h, NEW k, NEW summed \in Summaries(h, k)
    PROVE  /\ summed \subseteq Folded(h, k)
           /\ summed # {} => \A i \in Folded(h, k) : h[i].role = "summary" => i \in summed
  <1>1. CASE SplitTurns(h, k) = {}
    BY <1>1, RenderedKeeps DEF Summaries
  <1>2. CASE SplitTurns(h, k) # {}
    <2>1. PICK u \in SplitTurns(h, k) :
             summed \in {x \cup y : x \in Answered(h, Before(h, k, u)),
                                  y \in Answered(h, Prefix(h, k, u))}
      BY <1>2 DEF Summaries
    <2>2. PICK x \in Answered(h, Before(h, k, u)), y \in Answered(h, Prefix(h, k, u)) :
             summed = x \cup y
      BY <2>1
    <2>3. /\ x \subseteq Folded(h, k)
          /\ x # {} => \A i \in Folded(h, k) : h[i].role = "summary" => i \in x
      <3>1. CASE x = {}
        BY <3>1
      <3>2. CASE x \in Rendered(h, Before(h, k, u))
        BY <3>2, RenderedKeeps DEF Before
      <3> QED
        BY <2>2, <3>1, <3>2 DEF Answered
    <2>4. /\ y \subseteq Folded(h, k)
          /\ y # {} => \A i \in Folded(h, k) : h[i].role = "summary" => i \in y
      <3>1. CASE y = {}
        BY <3>1
      <3>2. CASE y \in Rendered(h, Prefix(h, k, u))
        BY <3>2, RenderedKeeps DEF Prefix
      <3> QED
        BY <2>2, <3>1, <3>2 DEF Answered
    <2> QED
      BY <2>2, <2>3, <2>4
  <1> QED
    BY <1>1, <1>2

\* What is folded is summed or skipped.
LEMMA SummedOrSkipped ==
    ASSUME NEW h, NEW k, NEW summed \in Summaries(h, k), NEW i \in Folded(h, k)
    PROVE  i \in summed \/ i \in Skipped(h, k, summed)
  BY SummariesFold DEF Skipped

\* What a concatenation covers is what its parts cover.
LEMMA CoveredConcat ==
    ASSUME NEW g \in Seq(Message), NEW h \in Seq(Message)
    PROVE  Covered(g \o h) = Covered(g) \cup Covered(h)
  <1>1. ASSUME NEW x, x \in Covered(g \o h)
        PROVE  x \in Covered(g) \cup Covered(h)
    <2>1. PICK i \in 1..Len(g) + Len(h) : x \in (g \o h)[i].covers
      BY <1>1 DEF Covered
    <2>2. CASE i \in 1..Len(g)
      BY <2>1, <2>2 DEF Covered
    <2>3. CASE i \notin 1..Len(g)
      <3>1. i - Len(g) \in 1..Len(h) /\ (g \o h)[i] = h[i - Len(g)]
        BY <2>3
      <3> QED
        BY <2>1, <3>1 DEF Covered
    <2> QED
      BY <2>2, <2>3
  <1>2. ASSUME NEW x, x \in Covered(g) PROVE x \in Covered(g \o h)
    <2>1. PICK i \in 1..Len(g) : x \in g[i].covers
      BY <1>2 DEF Covered
    <2>2. i \in 1..Len(g \o h) /\ (g \o h)[i] = g[i]
      OBVIOUS
    <2> QED
      BY <2>1, <2>2 DEF Covered
  <1>3. ASSUME NEW x, x \in Covered(h) PROVE x \in Covered(g \o h)
    <2>1. PICK i \in 1..Len(h) : x \in h[i].covers
      BY <1>3 DEF Covered
    <2>2. /\ Len(g) + i \in 1..Len(g \o h)
          /\ (g \o h)[Len(g) + i] = h[i]
      OBVIOUS
    <2> QED
      BY <2>1, <2>2 DEF Covered
  <1> QED
    BY <1>1, <1>2, <1>3

\* One message covers its own inputs.
LEMMA CoveredSingle ==
    ASSUME NEW m \in Message
    PROVE  Covered(<<m>>) = m.covers
  BY DEF Covered

\* A drain writes every pending steer and the user input into the transcript.
LEMMA CoveredDrained ==
    ASSUME NEW h \in Seq(Message), NEW q \in Seq(Inputs), NEW t \in Inputs
    PROVE  Covered(Drained(h, q, t)) = Covered(h) \cup Elems(q) \cup {t}
  <1>1. Notes(q) \in Seq(Message) /\ <<UserMsg(t)>> \in Seq(Message)
    BY NotesType, MessageTypes
  <1>2. Covered(Notes(q)) = Elems(q)
    <2>1. DOMAIN Notes(q) = 1..Len(q) /\ DOMAIN q = 1..Len(q)
      BY NotesType
    <2>2. \A i \in 1..Len(q) : Notes(q)[i].covers = {q[i]}
      BY <2>1 DEF Notes
    <2> QED
      BY <2>1, <2>2 DEF Elems, Covered
  <1>3. Covered(<<UserMsg(t)>>) = {t}
    BY MessageTypes, CoveredSingle DEF UserMsg
  <1>4. Covered(h \o Notes(q)) = Covered(h) \cup Elems(q)
    BY <1>1, <1>2, CoveredConcat
  <1>5. h \o Notes(q) \in Seq(Message)
    BY <1>1
  <1> HIDE DEF Covered
  <1>6. Covered((h \o Notes(q)) \o <<UserMsg(t)>>)
            = Covered(h \o Notes(q)) \cup Covered(<<UserMsg(t)>>)
    BY <1>1, <1>5, CoveredConcat
  <1> QED
    BY <1>3, <1>4, <1>6 DEF Drained

\* Compaction forgets no input but those skipped: head, summary and kept suffix
\* together cover what the rest of the transcript covered.
LEMMA CoveredRebuilt ==
    ASSUME NEW h \in Seq(Message), NEW k \in CutPoints(h),
           NEW summed \in Summaries(h, k)
    PROVE  Covered(h) \subseteq Covered(Rebuilt(h, k, summed))
                                \cup CoversAt(h, Skipped(h, k, summed))
  <1> DEFINE C == CoversAt(h, summed)
             D == CoversAt(h, Skipped(h, k, summed))
             S == [role |-> "summary", covers |-> C]
             a == SubSeq(h, 1, HeadLen(h))
             z == SubSeq(h, k, Len(h))
  <1>1. /\ k \in 1..Len(h)
        /\ HeadLen(h) \in {0, 1}
        /\ HeadLen(h) + 1 < k
    BY CutPointBehindHead
  <1>2. \A i \in 1..Len(h) : h[i] \in Message
    OBVIOUS
  <1>3. S \in Message
    <2>1. \A i \in summed : i \in 1..Len(h)
      BY <1>1, SummariesFold DEF Folded
    <2>2. C \subseteq Inputs
      BY <1>2, <2>1 DEF Message, CoversAt
    <2> HIDE DEF C
    <2> QED
      BY <2>2 DEF Message, Roles
  <1>4. a \in Seq(Message) /\ z \in Seq(Message) /\ <<S>> \in Seq(Message)
    BY <1>1, <1>3
  <1>5. Covered(a \o <<S>> \o z) = Covered(a) \cup C \cup Covered(z)
    <2>1. a \o <<S>> \in Seq(Message) /\ S.covers = C
      BY <1>4
    <2> HIDE DEF S, C, a, z
    <2>2. Covered(a \o <<S>>) = Covered(a) \cup Covered(<<S>>)
      BY <1>4, CoveredConcat
    <2>3. Covered((a \o <<S>>) \o z) = Covered(a \o <<S>>) \cup Covered(z)
      BY <1>4, <2>1, CoveredConcat
    <2>4. Covered(<<S>>) = C
      BY <1>3, <2>1, CoveredSingle
    <2> QED
      BY <2>2, <2>3, <2>4
  <1>6. SUFFICES ASSUME NEW x, x \in Covered(h)
                 PROVE  x \in Covered(a) \cup C \cup Covered(z) \cup D
    BY <1>5 DEF Rebuilt
  <1>7. PICK i \in 1..Len(h) : x \in h[i].covers
    BY <1>6 DEF Covered
  <1>8. CASE i \leq HeadLen(h)
    <2>1. i \in 1..Len(a) /\ a[i] = h[i]
      <3>1. HeadLen(h) = 1 /\ i = 1
        BY <1>1, <1>8
      <3>2. Len(SubSeq(h, 1, 1)) = 1 /\ SubSeq(h, 1, 1)[1] = h[1]
        BY <1>1, SubSeqProperties
      <3> QED
        BY <3>1, <3>2
    <2> QED
      <3>1. DOMAIN a = 1..Len(a)
        BY <1>4
      <3> HIDE DEF C, D, a, z
      <3>2. x \in Covered(a)
        BY <1>7, <2>1, <3>1 DEF Covered
      <3> QED
        BY <3>2
  <1>9. CASE HeadLen(h) < i /\ i < k
    <2>1. i \in Folded(h, k)
      BY <1>1, <1>9 DEF Folded
    <2>2. i \in summed \/ i \in Skipped(h, k, summed)
      BY <2>1, SummedOrSkipped
    <2>3. x \in C \/ x \in D
      BY <1>7, <2>2, Zenon DEF CoversAt
    <2> HIDE DEF C, D, a, z
    <2> QED
      BY <2>3
  <1>10. CASE k \leq i
    <2>1. i - k + 1 \in 1..Len(z) /\ z[i - k + 1] = h[i]
      BY <1>1, <1>10
    <2> QED
      <3>1. DOMAIN z = 1..Len(z)
        BY <1>4
      <3> HIDE DEF C, D, a, z
      <3>2. x \in Covered(z)
        BY <1>7, <2>1, <3>1 DEF Covered
      <3> QED
        BY <3>2
  <1> QED
    BY <1>1, <1>8, <1>9, <1>10

-----------------------------------------------------------------------------
(* Types.                                                                  *)

\* What an accepted input leaves of the inputs' types.
LEMMA AcceptTypes ==
    ASSUME TypeOK, NEW s \in Sessions, NEW kind \in InputKinds, Accept(kind, s)
    PROVE  /\ next \in Inputs
           /\ next' \in 1..MaxInputs + 1
           /\ input' \in [Inputs -> [kind : InputKinds, to : Sessions] \cup {NoInput}]
  BY InputAssumption DEF Accept, TypeOK, Inputs

\* What the start of a turn leaves of the session's types.
LEMMA StartTypes ==
    ASSUME TypeOK, NEW s \in Sessions, NEW h \in Seq(Message), NEW t \in Inputs,
           StartTurn(s, h, t)
    PROVE  /\ history' \in [Sessions -> Seq(Message)]
           /\ told' \in [Sessions -> SUBSET Inputs]
           /\ steered' \in [Sessions -> Seq(Inputs)]
           /\ steers' \in [Sessions -> Seq(Inputs)]
           /\ turn' \in [Sessions -> {"none", "running", "aborted"}]
           /\ turnRoute' \in [Sessions -> Routes]
  <1>1. Drained(h, steers[s], t) \in Seq(Message)
    BY DrainedType DEF TypeOK
  <1>2. Elems(steers[s]) \subseteq Inputs
    BY DEF TypeOK, Elems
  <1> QED
    BY <1>1, <1>2 DEF StartTurn, TypeOK

LEMMA TypesHold == Init => TypeOK
  <1> SUFFICES ASSUME Init PROVE TypeOK
    OBVIOUS
  <1>1. \A s \in Sessions : history[s] \in Seq(Message)
    <2>1. <<>> \in Seq(Message) /\ <<SystemPrompt>> \in Seq(Message)
      BY MessageTypes
    <2> QED
      BY <2>1 DEF Init
  <1>2. history \in [Sessions -> Seq(Message)]
    BY <1>1 DEF Init
  <1>3. next \in 1..MaxInputs + 1
    BY InputAssumption DEF Init
  <1> QED
    BY <1>2, <1>3, RouteAssumption DEF Init, TypeOK

LEMMA TypesInductive == TypeOK /\ [Next]_sessionVars => TypeOK'
  <1> SUFFICES ASSUME TypeOK, [Next]_sessionVars PROVE TypeOK'
    OBVIOUS
  <1>0. CASE UNCHANGED sessionVars
    BY <1>0 DEF TypeOK
  <1>3. ASSUME NEW s \in Sessions, NEW replied \in BOOLEAN
        PROVE  AfterReply(s, replied) \in Seq(Message)
    BY MessageTypes DEF AfterReply, TypeOK
  <1>4. ASSUME NEW s \in Sessions PROVE Batch(s) \in Seq(Inputs)
    BY DEF Batch, TypeOK
  <1>5. ASSUME NEW s \in Sessions, Steer(s) PROVE TypeOK'
    <2>1. Accept("steer", s)
      BY <1>5 DEF Steer
    <2>2. next \in Inputs /\ next' \in 1..MaxInputs + 1
          /\ input' \in [Inputs -> [kind : InputKinds, to : Sessions] \cup {NoInput}]
      BY <2>1, AcceptTypes DEF InputKinds
    <2> QED
      BY <1>5, <2>2 DEF Steer, TypeOK
  <1>6. ASSUME NEW s \in Sessions, FollowUp(s) PROVE TypeOK'
    <2>1. Accept("follow_up", s)
      BY <1>6 DEF FollowUp
    <2>2. next \in Inputs /\ next' \in 1..MaxInputs + 1
          /\ input' \in [Inputs -> [kind : InputKinds, to : Sessions] \cup {NoInput}]
      BY <2>1, AcceptTypes DEF InputKinds
    <2> QED
      BY <1>6, <2>2 DEF FollowUp, TypeOK
  <1>7. ASSUME NEW s \in Sessions, DiscardPendingSteers(s) PROVE TypeOK'
    BY <1>7 DEF DiscardPendingSteers, TypeOK, Elems
  <1>8. ASSUME NEW s \in Sessions, Abort(s) PROVE TypeOK'
    BY <1>8 DEF Abort, TypeOK
  <1>9. ASSUME NEW s \in Sessions, NEW r \in Routes, SwitchRoute(s, r) PROVE TypeOK'
    BY <1>9 DEF SwitchRoute, TypeOK
  <1>10. ASSUME NEW s \in Sessions, SubmitPrompt(s) PROVE TypeOK'
    <2>1. history[s] \in Seq(Message)
      BY DEF TypeOK
    <2> QED
      BY <1>10, AcceptTypes, StartTypes, <2>1 DEF SubmitPrompt, TypeOK, InputKinds
  <1>11. ASSUME NEW s \in Sessions, PullSteering(s) PROVE TypeOK'
    <2>1. steers[s] \in Seq(Inputs) /\ steered[s] \in Seq(Inputs)
      BY DEF TypeOK
    <2>2. steered[s] \o steers[s] \in Seq(Inputs)
      BY <2>1
    <2>3. steered' \in [Sessions -> Seq(Inputs)]
      BY <1>11, <2>2 DEF PullSteering, TypeOK
    <2>4. steers' \in [Sessions -> Seq(Inputs)]
      BY <1>11 DEF PullSteering, TypeOK
    <2> QED
      BY <1>11, <2>3, <2>4 DEF PullSteering, TypeOK
  <1>12. ASSUME NEW s \in Sessions, NEW replied \in BOOLEAN, NextFollowUp(s, replied)
         PROVE  TypeOK'
    <2>1. Head(Batch(s)) \in Inputs /\ Tail(Batch(s)) \in Seq(Inputs)
      BY <1>4, <1>12 DEF NextFollowUp
    <2>2. queued' \in [Sessions -> Seq(Inputs)]
      BY <1>12, <2>1 DEF NextFollowUp, TypeOK
    <2>3. followUps' \in [Sessions -> Seq(Inputs)]
      BY <1>12 DEF NextFollowUp, TypeOK
    <2>4. ran' \in [Sessions -> Seq(Inputs)]
      BY <1>12, <2>1 DEF NextFollowUp, TypeOK
    <2> QED
      BY <1>12, StartTypes, <1>3, <2>1, <2>2, <2>3, <2>4 DEF NextFollowUp, TypeOK
  <1>13. ASSUME NEW s \in Sessions, NEW replied \in BOOLEAN, LastTurn(s, replied)
         PROVE  TypeOK'
    BY <1>13, <1>3 DEF LastTurn, TypeOK
  <1>14. ASSUME NEW s \in Sessions, FailTurn(s) PROVE TypeOK'
    BY <1>14, SMTT(30) DEF FailTurn, TypeOK
  <1>15. ASSUME NEW s \in Sessions, BeginCompaction(s) PROVE TypeOK'
    BY <1>15 DEF BeginCompaction, TypeOK
  <1>16. ASSUME NEW s \in Sessions, FinishCompaction(s) PROVE TypeOK'
    <2>0. PICK k \in CutPoints(snapshot[s]) :
             \E summed \in Summaries(snapshot[s], k) : Spliced(s, k, summed)
      BY <1>16 DEF FinishCompaction, Spliced
    <2>1. PICK summed \in Summaries(snapshot[s], k) : Spliced(s, k, summed)
      BY <2>0
    <2>2. summed \in SUBSET Folded(snapshot[s], k)
      BY SummariesFold
    <2>3. Rebuilt(snapshot[s], k, summed) \in Seq(Message)
      BY <2>2, RebuiltType DEF TypeOK
    <2>4. history' \in [Sessions -> Seq(Message)]
      BY <2>1, <2>3 DEF Spliced, TypeOK
    <2>5. unread' \in [Sessions -> SUBSET Inputs]
      <3>1. Skipped(snapshot[s], k, summed) \in SUBSET Folded(snapshot[s], k)
        BY DEF Skipped
      <3>2. CoversAt(snapshot[s], Skipped(snapshot[s], k, summed)) \subseteq Inputs
        BY <3>1, CoversTyped DEF TypeOK
      <3> QED
        BY <2>1, <3>2 DEF Spliced, TypeOK
    <2>6. snapshot' \in [Sessions -> Seq(Message)]
      BY <1>16 DEF FinishCompaction, TypeOK
    <2> QED
      BY <1>16, <2>4, <2>5, <2>6 DEF FinishCompaction, TypeOK
  <1>17. ASSUME NEW s \in Sessions, FailCompaction(s) PROVE TypeOK'
    BY <1>17 DEF FailCompaction, TypeOK
  <1> QED
    BY <1>0, <1>5, <1>6, <1>7, <1>8, <1>9, <1>10, <1>11, <1>12, <1>13, <1>14,
       <1>15, <1>16, <1>17 DEF Next, SessionStep, EndTurn

\* Every reachable state of a session has the shapes of the code's fields.
THEOREM TypeCorrect == Spec => []TypeOK
  BY TypesHold, TypesInductive, PTL DEF Spec

-----------------------------------------------------------------------------
(* The freeze under a compaction and what the transcript remembers.  The    *)
(* second needs the first: FinishCompaction splices a snapshot, and only    *)
(* because the transcript still equals it nothing told since is lost.       *)

Remembers ==
    /\ HistoryFrozenWhileCompacting
    /\ TranscriptRemembersInputs

\* A turn that starts outside a compaction, on a transcript that lost nothing.
LEMMA StartRemembers ==
    ASSUME TypeOK, Remembers, NEW s \in Sessions, NEW h \in Seq(Message), NEW t \in Inputs,
           StartTurn(s, h, t), UNCHANGED <<compacting, snapshot, unread>>,
           ~compacting[s], Covered(history[s]) \subseteq Covered(h)
    PROVE  Remembers'
  <1> USE DEF Remembers
  <1>1. Covered(Drained(h, steers[s], t)) = Covered(h) \cup Elems(steers[s]) \cup {t}
    BY CoveredDrained DEF TypeOK
  <1>2. told'[s] \subseteq Covered(history'[s]) \cup unread[s]
    <2>1. told'[s] = told[s] \cup Elems(steers[s]) \cup {t}
      BY DEF StartTurn, TypeOK
    <2>2. history'[s] = Drained(h, steers[s], t)
      BY DEF StartTurn, TypeOK
    <2> QED
      BY <1>1, <2>1, <2>2 DEF TranscriptRemembersInputs
  <1>3. \A u \in Sessions \ {s} : told'[u] = told[u] /\ history'[u] = history[u]
                                 /\ turn'[u] = turn[u]
    BY DEF StartTurn, TypeOK
  <1> QED
    BY <1>2, <1>3 DEF HistoryFrozenWhileCompacting, TranscriptRemembersInputs

LEMMA RemembersInductive == TypeOK /\ Remembers /\ [Next]_sessionVars => Remembers'
  <1> SUFFICES ASSUME TypeOK, Remembers, [Next]_sessionVars PROVE Remembers'
    OBVIOUS
  <1> USE DEF Remembers
  <1>0. CASE UNCHANGED sessionVars
    BY <1>0 DEF HistoryFrozenWhileCompacting, TranscriptRemembersInputs
  <1>2. ASSUME NEW s \in Sessions, NEW replied \in BOOLEAN
        PROVE  /\ AfterReply(s, replied) \in Seq(Message)
               /\ Covered(history[s]) \subseteq Covered(AfterReply(s, replied))
    <2>1. history[s] \in Seq(Message) /\ Reply \in Message /\ <<Reply>> \in Seq(Message)
      BY MessageTypes DEF TypeOK
    <2>2. Append(history[s], Reply) = history[s] \o <<Reply>>
      BY <2>1
    <2>3. Covered(history[s] \o <<Reply>>) = Covered(history[s]) \cup Covered(<<Reply>>)
      BY <2>1, CoveredConcat
    <2> QED
      BY <2>1, <2>2, <2>3 DEF AfterReply
  <1>3. ASSUME NEW s \in Sessions, SubmitPrompt(s) PROVE Remembers'
    BY StartRemembers, <1>3 DEF SubmitPrompt, CanStartTurn, Accept, TypeOK
  <1>4. ASSUME NEW s \in Sessions, NEW replied \in BOOLEAN, NextFollowUp(s, replied)
        PROVE  Remembers'
    <2>1. Head(Batch(s)) \in Inputs
      BY <1>4 DEF NextFollowUp, Batch, TypeOK
    <2>2. ~compacting[s]
      BY <1>4 DEF NextFollowUp, HistoryFrozenWhileCompacting
    <2> QED
      BY StartRemembers, <1>2, <1>4, <2>1, <2>2 DEF NextFollowUp
  <1>5. ASSUME NEW s \in Sessions, NEW replied \in BOOLEAN, LastTurn(s, replied)
        PROVE  Remembers'
    <2>1. ~compacting[s]
      BY <1>5 DEF LastTurn, HistoryFrozenWhileCompacting
    <2> QED
      BY <1>2, <1>5, <2>1
      DEF LastTurn, HistoryFrozenWhileCompacting, TranscriptRemembersInputs, TypeOK
  <1>6. ASSUME NEW s \in Sessions, FailTurn(s) PROVE Remembers'
    BY <1>6 DEF FailTurn, HistoryFrozenWhileCompacting, TranscriptRemembersInputs, TypeOK
  <1>7. ASSUME NEW s \in Sessions, Abort(s) PROVE Remembers'
    BY <1>7 DEF Abort, HistoryFrozenWhileCompacting, TranscriptRemembersInputs, TypeOK
  <1>8. ASSUME NEW s \in Sessions, BeginCompaction(s) PROVE Remembers'
    BY <1>8
    DEF BeginCompaction, HistoryFrozenWhileCompacting, TranscriptRemembersInputs, TypeOK
  <1>9. ASSUME NEW s \in Sessions, FinishCompaction(s) PROVE Remembers'
    <2>0. PICK k \in CutPoints(snapshot[s]) :
             \E summed \in Summaries(snapshot[s], k) : Spliced(s, k, summed)
      BY <1>9 DEF FinishCompaction, Spliced
    <2>1. PICK summed \in Summaries(snapshot[s], k) : Spliced(s, k, summed)
      BY <2>0
    <2>2. snapshot[s] = history[s]
      BY <1>9 DEF FinishCompaction, HistoryFrozenWhileCompacting
    <2>3. Covered(history[s]) \cup unread[s] \subseteq Covered(history'[s]) \cup unread'[s]
      <3>1. /\ history'[s] = Rebuilt(history[s], k, summed)
            /\ unread'[s] = unread[s] \cup CoversAt(history[s], Skipped(history[s], k, summed))
        BY <2>1, <2>2 DEF Spliced, TypeOK
      <3> QED
        BY <2>0, <2>1, <2>2, <3>1, CoveredRebuilt DEF TypeOK
    <2>4. \A u \in Sessions \ {s} : history'[u] = history[u] /\ unread'[u] = unread[u]
      BY <2>1 DEF Spliced, TypeOK
    <2> QED
      BY <1>9, <2>3, <2>4
      DEF FinishCompaction, HistoryFrozenWhileCompacting, TranscriptRemembersInputs, TypeOK
  <1>10. ASSUME NEW s \in Sessions, FailCompaction(s) PROVE Remembers'
    BY <1>10
    DEF FailCompaction, HistoryFrozenWhileCompacting, TranscriptRemembersInputs, TypeOK
  <1>11. ASSUME NEW s \in Sessions,
                Steer(s) \/ FollowUp(s) \/ DiscardPendingSteers(s) \/ PullSteering(s)
                \/ \E r \in Routes : SwitchRoute(s, r)
         PROVE  Remembers'
    BY <1>11
    DEF Steer, FollowUp, DiscardPendingSteers, PullSteering, SwitchRoute,
        HistoryFrozenWhileCompacting, TranscriptRemembersInputs
  <1> QED
    BY <1>0, <1>3, <1>4, <1>5, <1>6, <1>7, <1>8, <1>9, <1>10, <1>11
    DEF Next, SessionStep, EndTurn

LEMMA RemembersHolds == Init => Remembers
  BY DEF Init, Remembers, HistoryFrozenWhileCompacting, TranscriptRemembersInputs

\* Spec keeps the invariant both theorems below read off.
LEMMA RemembersInvariant == Spec => []Remembers
  BY RemembersHolds, TypeCorrect, RemembersInductive, PTL DEF Spec

\* While compact() awaits its summarizer no turn runs and the transcript equals
\* the snapshot it will be rebuilt from.
THEOREM FrozenUnderCompaction == Spec => []HistoryFrozenWhileCompacting
  BY RemembersInvariant, PTL DEF Remembers

\* An input that reached the transcript stays there, verbatim or folded, unless
\* the middle of its region was elided or the reply about it was empty
\* (engine.ts:86-99, 178-201).
THEOREM InputsRemembered == Spec => []TranscriptRemembersInputs
  BY RemembersInvariant, PTL DEF Remembers

\* A turn runs on the session's selected route: what RpcSurfaceProofs needs to
\* speak of the route of the turn in flight.
TurnKeepsRoute ==
    \A s \in Sessions : turn[s] # "none" => turnRoute[s] = route[s]

LEMMA RouteHolds == Init => TurnKeepsRoute
  BY DEF Init, TurnKeepsRoute

LEMMA RouteInductive == TypeOK /\ TurnKeepsRoute /\ [Next]_sessionVars => TurnKeepsRoute'
  BY SMTT(30) DEF TypeOK, TurnKeepsRoute, Next, SessionStep, EndTurn, Steer, FollowUp,
         DiscardPendingSteers, Abort, SwitchRoute, SubmitPrompt, PullSteering,
         NextFollowUp, LastTurn, FailTurn, BeginCompaction, FinishCompaction,
         FailCompaction, StartTurn

-----------------------------------------------------------------------------
(* One summary, right behind the head.  What is appended is no summary, and *)
(* every cut point lies behind the summary there is.                        *)

OnlySummary(h) == \A i \in DOMAIN h : h[i].role = "summary" => i = HeadLen(h) + 1

NoSummary(h) == \A i \in DOMAIN h : h[i].role # "summary"

\* Messages that are no summaries leave the one there is in its place.
LEMMA OneSummaryExtended ==
    ASSUME NEW h \in Seq(Message), OnlySummary(h), NEW e \in Seq(Message), NoSummary(e)
    PROVE  OnlySummary(h \o e)
  <1>1. /\ DOMAIN h = 1..Len(h) /\ DOMAIN e = 1..Len(e)
        /\ Len(h) \in Nat /\ Len(e) \in Nat
        /\ DOMAIN (h \o e) = 1..Len(h) + Len(e)
        /\ \A i \in 1..Len(h) : (h \o e)[i] = h[i]
        /\ \A i \in Len(h) + 1..Len(h) + Len(e) : (h \o e)[i] = e[i - Len(h)]
    OBVIOUS
  <1> SUFFICES ASSUME NEW i \in 1..Len(h) + Len(e), (h \o e)[i].role = "summary"
               PROVE  i = HeadLen(h \o e) + 1
    BY <1>1 DEF OnlySummary
  <1>2. i \in 1..Len(h)
    <2>1. CASE i > Len(h)
      <3>1. i - Len(h) \in DOMAIN e /\ (h \o e)[i] = e[i - Len(h)]
        BY <1>1, <2>1
      <3> QED
        BY <3>1 DEF NoSummary
    <2> QED
      BY <1>1, <2>1
  <1>3. h # <<>> /\ h \o e # <<>> /\ (h \o e)[1] = h[1]
    BY <1>1, <1>2
  <1>4. HeadLen(h \o e) = HeadLen(h)
    BY <1>3 DEF HeadLen
  <1> QED
    BY <1>1, <1>2, <1>4 DEF OnlySummary

LEMMA DrainedIsNoSummary ==
    ASSUME NEW q \in Seq(Inputs), NEW t \in Inputs
    PROVE  /\ Notes(q) \o <<UserMsg(t)>> \in Seq(Message)
           /\ NoSummary(Notes(q) \o <<UserMsg(t)>>)
           /\ \A h \in Seq(Message) : Drained(h, q, t) = h \o (Notes(q) \o <<UserMsg(t)>>)
  <1>1. Notes(q) \in Seq(Message) /\ UserMsg(t) \in Message
    BY NotesType, MessageTypes
  <1>2. /\ \A i \in DOMAIN Notes(q) : Notes(q)[i].role = "steering"
        /\ UserMsg(t).role = "user"
    BY DEF Notes, UserMsg
  <1> DEFINE n == Notes(q)
             m == UserMsg(t)
  <1>3. n \in Seq(Message) /\ m \in Message /\ (\A i \in DOMAIN n : n[i].role = "steering")
        /\ m.role = "user"
    BY <1>1, <1>2
  <1> HIDE DEF n, m
  <1>4. /\ n \o <<m>> \in Seq(Message)
        /\ DOMAIN (n \o <<m>>) = 1..Len(n) + 1
        /\ \A i \in 1..Len(n) : i \in DOMAIN n /\ (n \o <<m>>)[i] = n[i]
        /\ (n \o <<m>>)[Len(n) + 1] = m
    BY <1>3
  <1>5. NoSummary(n \o <<m>>)
    <2> SUFFICES ASSUME NEW i \in 1..Len(n) + 1
                 PROVE  (n \o <<m>>)[i].role # "summary"
      BY <1>4 DEF NoSummary
    <2>1. i \in 1..Len(n) \/ i = Len(n) + 1
      BY <1>3
    <2> QED
      BY <1>3, <1>4, <2>1
  <1>6. \A h \in Seq(Message) : (h \o n) \o <<m>> = h \o (n \o <<m>>)
    BY <1>3, ConcatAssociative
  <1> QED
    BY <1>4, <1>5, <1>6 DEF n, m, Drained

\* The old summary, if any, is folded into the new one.
LEMMA OneSummaryRebuilt ==
    ASSUME NEW h \in Seq(Message), OnlySummary(h), NEW k \in CutPoints(h),
           NEW summed \in SUBSET Folded(h, k)
    PROVE  OnlySummary(Rebuilt(h, k, summed))
  <1> DEFINE S == [role |-> "summary", covers |-> CoversAt(h, summed)]
             a == SubSeq(h, 1, HeadLen(h))
             z == SubSeq(h, k, Len(h))
             g == Rebuilt(h, k, summed)
             d == HeadLen(h)
  <1>1. k \in 1..Len(h) /\ d \in {0, 1} /\ d + 1 < k
    BY CutPointBehindHead
  <1>2. S \in Message
    BY CoversTyped DEF Message, Roles
  <1>3. /\ a \in Seq(Message) /\ z \in Seq(Message)
        /\ Len(a) = d /\ (d = 1 => a[1] = h[1])
        /\ \A i \in 1..Len(z) : k + i - 1 \in 1..Len(h) /\ z[i] = h[k + i - 1]
    <2>1. a \in Seq(Message) /\ z \in Seq(Message)
      BY <1>1
    <2>2. Len(a) = d /\ (d = 1 => a[1] = h[1])
      BY <1>1, SubSeqProperties
    <2>3. /\ Len(z) = Len(h) - k + 1
          /\ \A i \in 1..Len(h) - k + 1 : z[i] = h[k + i - 1]
      BY <1>1, SubSeqProperties
    <2>4. \A i \in 1..Len(h) - k + 1 : k + i - 1 \in 1..Len(h)
      BY <1>1
    <2> HIDE DEF a, z, d
    <2> QED
      BY <2>1, <2>2, <2>3, <2>4
  <1>4. g = (a \o <<S>>) \o z /\ S.role = "summary"
    BY DEF Rebuilt
  <1>5. d = 1 => h[1].role \in {"system", "steering"}
    BY DEF HeadLen
  <1>6. ASSUME NEW i \in 1..Len(z) PROVE z[i].role # "summary"
    <2>1. k + i - 1 \in DOMAIN h /\ z[i] = h[k + i - 1]
      BY <1>3, SMTT(30)
    <2>2. k + i - 1 # d + 1
      BY <1>1, <1>3
    <2> HIDE DEF a, z, d
    <2> QED
      BY <2>1, <2>2 DEF OnlySummary, d
  <1> HIDE DEF S, a, z, g
  <1>7. /\ DOMAIN g = 1..d + 1 + Len(z) /\ Len(z) \in Nat
        /\ d = 1 => g[1] = a[1]
        /\ g[d + 1] = S
        /\ \A i \in d + 2..d + 1 + Len(z) : g[i] = z[i - d - 1]
    BY <1>1, <1>2, <1>3, <1>4, SMTT(30)
  <1>8. g # <<>> /\ HeadLen(g) = d
    <2>1. g # <<>>
      BY <1>1, <1>7
    <2>2. CASE d = 1
      BY <1>3, <1>5, <1>7, <2>1, <2>2 DEF HeadLen
    <2>3. CASE d = 0
      BY <1>4, <1>7, <2>1, <2>3 DEF HeadLen
    <2> QED
      BY <1>1, <2>1, <2>2, <2>3
  <1>9. ASSUME NEW i \in DOMAIN g, g[i].role = "summary"
        PROVE  i = d + 1
    <2>1. i \notin d + 2..d + 1 + Len(z)
      <3> SUFFICES ASSUME i \in d + 2..d + 1 + Len(z) PROVE FALSE
        OBVIOUS
      <3>1. i - d - 1 \in 1..Len(z)
        BY <1>1, <1>7
      <3> QED
        BY <1>6, <1>7, <1>9, <3>1
    <2>2. ~(d = 1 /\ i = 1)
      BY <1>3, <1>5, <1>7, <1>9
    <2> QED
      BY <1>1, <1>7, <2>1, <2>2
  <1> QED
    BY <1>8, <1>9 DEF OnlySummary, g

LEMMA StartKeepsOne ==
    ASSUME TypeOK, OneSummary, NEW s \in Sessions, NEW h \in Seq(Message), OnlySummary(h),
           NEW t \in Inputs, StartTurn(s, h, t)
    PROVE  OneSummary'
  <1>1. OnlySummary(Drained(h, steers[s], t))
    BY DrainedIsNoSummary, OneSummaryExtended DEF TypeOK
  <1>2. /\ history'[s] = Drained(h, steers[s], t)
        /\ \A u \in Sessions \ {s} : history'[u] = history[u]
    BY DEF StartTurn, TypeOK
  <1> QED
    BY <1>1, <1>2 DEF OneSummary, OnlySummary

LEMMA OneInductive == TypeOK /\ Remembers /\ OneSummary /\ [Next]_sessionVars => OneSummary'
  <1> SUFFICES ASSUME TypeOK, Remembers, OneSummary, [Next]_sessionVars PROVE OneSummary'
    OBVIOUS
  <1>1. \A s \in Sessions : history[s] \in Seq(Message) /\ OnlySummary(history[s])
    BY DEF TypeOK, OneSummary, OnlySummary
  <1>2. ASSUME NEW s \in Sessions, NEW replied \in BOOLEAN
        PROVE  /\ AfterReply(s, replied) \in Seq(Message)
               /\ OnlySummary(AfterReply(s, replied))
    <2>0. history[s] \in Seq(Message) /\ OnlySummary(history[s])
      BY <1>1
    <2>1. Reply \in Message /\ <<Reply>> \in Seq(Message)
      BY MessageTypes
    <2>2. NoSummary(<<Reply>>)
      BY DEF NoSummary, Reply
    <2>3. Append(history[s], Reply) = history[s] \o <<Reply>>
      BY <2>0, <2>1
    <2>4. OnlySummary(history[s] \o <<Reply>>)
      BY <2>0, <2>1, <2>2, OneSummaryExtended
    <2>5. history[s] \o <<Reply>> \in Seq(Message)
      BY <2>0, <2>1
    <2> QED
      BY <2>0, <2>3, <2>4, <2>5 DEF AfterReply
  <1>3. ASSUME NEW s \in Sessions, SubmitPrompt(s) PROVE OneSummary'
    BY <1>1, <1>3, StartKeepsOne DEF SubmitPrompt, Accept, TypeOK
  <1>4. ASSUME NEW s \in Sessions, NEW replied \in BOOLEAN, NextFollowUp(s, replied)
        PROVE  OneSummary'
    <2>1. Head(Batch(s)) \in Inputs
      BY <1>4 DEF NextFollowUp, Batch, TypeOK
    <2> QED
      BY <1>2, <1>4, <2>1, StartKeepsOne DEF NextFollowUp
  <1>5. ASSUME NEW s \in Sessions, NEW replied \in BOOLEAN, LastTurn(s, replied)
        PROVE  OneSummary'
    BY <1>1, <1>2, <1>5 DEF LastTurn, OneSummary, OnlySummary, TypeOK
  <1>6. ASSUME NEW s \in Sessions, FinishCompaction(s) PROVE OneSummary'
    <2>1. PICK k \in CutPoints(snapshot[s]) :
             \E summed \in Summaries(snapshot[s], k) : Spliced(s, k, summed)
      BY <1>6 DEF FinishCompaction, Spliced
    <2>2. PICK summed \in Summaries(snapshot[s], k) : Spliced(s, k, summed)
      BY <2>1
    <2>3. snapshot[s] = history[s]
      BY <1>6 DEF FinishCompaction, Remembers, HistoryFrozenWhileCompacting
    <2>4. summed \in SUBSET Folded(history[s], k)
      BY <2>3, SummariesFold
    <2>5. OnlySummary(Rebuilt(history[s], k, summed))
      BY <1>1, <2>1, <2>3, <2>4, OneSummaryRebuilt
    <2>6. /\ history'[s] = Rebuilt(history[s], k, summed)
          /\ \A u \in Sessions \ {s} : history'[u] = history[u]
      BY <2>2, <2>3 DEF Spliced, TypeOK
    <2> QED
      BY <1>1, <2>5, <2>6 DEF OneSummary, OnlySummary
  <1>7. CASE UNCHANGED history
    BY <1>7 DEF OneSummary
  <1>8. ASSUME NEW s \in Sessions,
               Steer(s) \/ FollowUp(s) \/ DiscardPendingSteers(s) \/ Abort(s)
               \/ PullSteering(s) \/ FailTurn(s) \/ BeginCompaction(s)
               \/ FailCompaction(s) \/ \E r \in Routes : SwitchRoute(s, r)
        PROVE  UNCHANGED history
    BY <1>8 DEF Steer, FollowUp, DiscardPendingSteers, Abort, PullSteering, FailTurn,
                BeginCompaction, FailCompaction, SwitchRoute
  <1>9. UNCHANGED sessionVars => UNCHANGED history
    BY DEF sessionVars, codeVars
  <1> QED
    BY <1>3, <1>4, <1>5, <1>6, <1>7, <1>8, <1>9 DEF Next, SessionStep, EndTurn

\* However many compactions fold a transcript, it holds one summary at most, in
\* the place where the next compaction looks for it (sessionHistory.ts:30-34).
THEOREM SummaryIsOne == Spec => []OneSummary
  <1>1. Init => OneSummary
    <2> SUFFICES ASSUME Init, NEW s \in Sessions PROVE OnlySummary(history[s])
      BY DEF OneSummary, OnlySummary
    <2>1. history[s] = <<>> \/ history[s] = <<SystemPrompt>>
      BY DEF Init
    <2>2. OnlySummary(<<>>)
      BY DEF OnlySummary
    <2>3. OnlySummary(<<SystemPrompt>>)
      BY DEF OnlySummary, SystemPrompt
    <2> QED
      BY <2>1, <2>2, <2>3
  <1> QED
    BY <1>1, TypeCorrect, RemembersInvariant, OneInductive, PTL DEF Spec

-----------------------------------------------------------------------------
(* The order of the inputs.  Seen from one session, the steers form one     *)
(* line, handed to the model or pending, and the follow-ups another, run,   *)
(* taken or waiting.  A turn moves a boundary inside a line and not the     *)
(* line itself; only an accepted input, a discard and a throw change one.   *)

SteerLine(s) == steered[s] \o steers[s]
FollowLine(s) == ran[s] \o queued[s] \o followUps[s]

OrderOf(s) ==
    /\ Increasing(SteerLine(s))
    /\ Increasing(FollowLine(s))
    /\ \A t \in Elems(SteerLine(s)) \cup Elems(FollowLine(s)) : t < next
    /\ \A t \in Inputs :
          /\ input[t] = [kind |-> "steer", to |-> s] =>
                 t \in Elems(SteerLine(s)) \cup discarded[s]
          /\ input[t] = [kind |-> "follow_up", to |-> s] /\ s \notin failed =>
                 t \in Elems(FollowLine(s))

InOrder == \A s \in Sessions : OrderOf(s)

LEMMA ElemsConcat ==
    ASSUME NEW p \in Seq(Inputs), NEW q \in Seq(Inputs)
    PROVE  /\ p \o q \in Seq(Inputs)
           /\ Elems(p \o q) = Elems(p) \cup Elems(q)
  <1>1. /\ p \o q \in Seq(Inputs) /\ Len(p \o q) = Len(p) + Len(q)
        /\ Len(p) \in Nat /\ Len(q) \in Nat
    OBVIOUS
  <1>2. \A i \in 1..Len(p) : i \in 1..(Len(p) + Len(q)) /\ (p \o q)[i] = p[i]
    OBVIOUS
  <1>3. \A i \in 1..Len(q) : /\ Len(p) + i \in 1..(Len(p) + Len(q))
                            /\ (p \o q)[Len(p) + i] = q[i]
    OBVIOUS
  <1>4. \A i \in 1..(Len(p) + Len(q)) :
           \/ i \in 1..Len(p) /\ (p \o q)[i] = p[i]
           \/ i - Len(p) \in 1..Len(q) /\ (p \o q)[i] = q[i - Len(p)]
    OBVIOUS
  <1>5. DOMAIN p = 1..Len(p) /\ DOMAIN q = 1..Len(q)
        /\ DOMAIN (p \o q) = 1..(Len(p) + Len(q))
    BY <1>1
  <1>6. Elems(p) \subseteq Elems(p \o q)
    BY <1>2, <1>5 DEF Elems
  <1>7. Elems(q) \subseteq Elems(p \o q)
    BY <1>3, <1>5 DEF Elems
  <1>8. Elems(p \o q) \subseteq Elems(p) \cup Elems(q)
    BY <1>4, <1>5 DEF Elems
  <1> QED
    BY <1>1, <1>6, <1>7, <1>8

\* A line is increasing when its parts are and the first lies below the second.
LEMMA IncreasingConcat ==
    ASSUME NEW p \in Seq(Inputs), NEW q \in Seq(Inputs)
    PROVE  Increasing(p \o q) <=> /\ Increasing(p) /\ Increasing(q)
                                  /\ \A x \in Elems(p), y \in Elems(q) : x < y
  <1>1. /\ Len(p) \in Nat /\ Len(q) \in Nat
        /\ DOMAIN p = 1..Len(p) /\ DOMAIN q = 1..Len(q)
        /\ DOMAIN (p \o q) = 1..(Len(p) + Len(q))
    OBVIOUS
  <1>2. \A i \in 1..Len(p) : i \in 1..(Len(p) + Len(q)) /\ (p \o q)[i] = p[i]
    OBVIOUS
  <1>3. \A i \in 1..Len(q) : /\ Len(p) + i \in 1..(Len(p) + Len(q))
                            /\ (p \o q)[Len(p) + i] = q[i]
    OBVIOUS
  <1>4. \A i \in 1..(Len(p) + Len(q)) :
           \/ i \in 1..Len(p) /\ (p \o q)[i] = p[i]
           \/ i - Len(p) \in 1..Len(q) /\ (p \o q)[i] = q[i - Len(p)]
    OBVIOUS
  <1>5. ASSUME Increasing(p \o q)
        PROVE  /\ Increasing(p) /\ Increasing(q)
               /\ \A x \in Elems(p), y \in Elems(q) : x < y
    <2>1. Increasing(p)
      BY <1>1, <1>2, <1>5 DEF Increasing
    <2>2. Increasing(q)
      <3> SUFFICES ASSUME NEW i \in 1..Len(q), NEW j \in 1..Len(q), i < j
                   PROVE  q[i] < q[j]
        BY <1>1 DEF Increasing
      <3>1. Len(p) + i < Len(p) + j
        BY <1>1
      <3> QED
        BY <1>1, <1>3, <1>5, <3>1 DEF Increasing
    <2>3. ASSUME NEW x \in Elems(p), NEW y \in Elems(q) PROVE x < y
      <3>1. PICK i \in 1..Len(p) : x = p[i]
        BY <1>1 DEF Elems
      <3>2. PICK j \in 1..Len(q) : y = q[j]
        BY <1>1 DEF Elems
      <3>3. i < Len(p) + j
        BY <1>1
      <3> QED
        BY <1>1, <1>2, <1>3, <1>5, <3>1, <3>2, <3>3 DEF Increasing
    <2> QED
      BY <2>1, <2>2, <2>3
  <1>6. ASSUME Increasing(p), Increasing(q), \A x \in Elems(p), y \in Elems(q) : x < y,
               NEW i \in 1..(Len(p) + Len(q)), NEW j \in 1..(Len(p) + Len(q)), i < j
        PROVE  (p \o q)[i] < (p \o q)[j]
    <2>1. CASE j \in 1..Len(p)
      BY <1>1, <1>2, <1>6, <2>1 DEF Increasing
    <2>2. CASE i \in 1..Len(p) /\ j \notin 1..Len(p)
      <3>1. (p \o q)[i] \in Elems(p)
        BY <1>1, <1>2, <2>2 DEF Elems
      <3>2. (p \o q)[j] \in Elems(q)
        BY <1>1, <1>4, <2>2 DEF Elems
      <3> QED
        BY <1>6, <3>1, <3>2
    <2>3. CASE i \notin 1..Len(p) /\ j \notin 1..Len(p)
      <3>1. /\ i - Len(p) \in 1..Len(q) /\ j - Len(p) \in 1..Len(q)
            /\ (p \o q)[i] = q[i - Len(p)] /\ (p \o q)[j] = q[j - Len(p)]
        BY <1>4, <2>3
      <3>2. i - Len(p) < j - Len(p)
        BY <1>1, <1>6
      <3> QED
        BY <1>1, <1>6, <3>1, <3>2 DEF Increasing
    <2> QED
      BY <1>1, <1>6, <2>1, <2>2, <2>3
  <1> QED
    BY <1>1, <1>5, <1>6 DEF Increasing

\* A line extended by an input above all of its own stays increasing.
LEMMA IncreasingAppend ==
    ASSUME NEW p \in Seq(Inputs), NEW t \in Inputs, Increasing(p),
           \A x \in Elems(p) : x < t
    PROVE  /\ Increasing(p \o <<t>>)
           /\ Elems(p \o <<t>>) = Elems(p) \cup {t}
  <1>1. <<t>> \in Seq(Inputs) /\ Elems(<<t>>) = {t} /\ Increasing(<<t>>)
    BY DEF Elems, Increasing
  <1>2. Increasing(p \o <<t>>)
    BY <1>1, IncreasingConcat
  <1> QED
    BY <1>1, <1>2, ElemsConcat

LEMMA AppendConcat ==
    ASSUME NEW p \in Seq(Inputs), NEW q \in Seq(Inputs), NEW t \in Inputs
    PROVE  p \o Append(q, t) = (p \o q) \o <<t>>
  <1>1. <<t>> \in Seq(Inputs) /\ Append(q, t) = q \o <<t>>
    OBVIOUS
  <1>2. p \o (q \o <<t>>) = (p \o q) \o <<t>>
    BY <1>1
  <1> QED
    BY <1>1, <1>2

LEMMA LineTypes ==
    ASSUME TypeOK, NEW s \in Sessions
    PROVE  /\ steered[s] \in Seq(Inputs) /\ steers[s] \in Seq(Inputs)
           /\ ran[s] \in Seq(Inputs) /\ queued[s] \in Seq(Inputs)
           /\ followUps[s] \in Seq(Inputs)
           /\ ran[s] \o queued[s] \in Seq(Inputs)
           /\ SteerLine(s) \in Seq(Inputs) /\ FollowLine(s) \in Seq(Inputs)
  <1>1. /\ steered[s] \in Seq(Inputs) /\ steers[s] \in Seq(Inputs)
        /\ ran[s] \in Seq(Inputs) /\ queued[s] \in Seq(Inputs)
        /\ followUps[s] \in Seq(Inputs)
    BY DEF TypeOK
  <1> QED
    BY <1>1 DEF SteerLine, FollowLine

\* A step that accepts no steer and no follow-up for u.
NothingFor(u) ==
    \A t \in Inputs : \A kind \in {"steer", "follow_up"} :
        input'[t] = [kind |-> kind, to |-> u] => input[t] = [kind |-> kind, to |-> u]

\* A step that leaves both lines of u, and accepts no steer and no follow-up
\* for it, keeps its order.
LEMMA QuietStep ==
    ASSUME TypeOK, TypeOK', NEW u \in Sessions, OrderOf(u),
           SteerLine(u)' = SteerLine(u), FollowLine(u)' = FollowLine(u),
           next <= next', discarded'[u] = discarded[u], failed \subseteq failed',
           NothingFor(u)
    PROVE  OrderOf(u)'
  <1>1. next \in Nat /\ next' \in Nat
    BY InputAssumption DEF TypeOK
  <1>2. \A t \in Elems(SteerLine(u)) \cup Elems(FollowLine(u)) : t \in Nat
    <2>1. SteerLine(u) \in Seq(Inputs) /\ FollowLine(u) \in Seq(Inputs)
      BY LineTypes
    <2> QED
      BY <2>1, InputAssumption DEF Elems, Inputs
  <1>3. \A t \in Elems(SteerLine(u)) \cup Elems(FollowLine(u)) : t < next'
    BY <1>1, <1>2 DEF OrderOf
  <1> QED
    BY <1>3 DEF OrderOf, NothingFor

\* What an accepted input is to the sessions.
LEMMA AcceptFacts ==
    ASSUME TypeOK, NEW s \in Sessions, NEW kind \in InputKinds, Accept(kind, s)
    PROVE  /\ next \in Inputs /\ next < next' /\ next <= next'
           /\ input'[next] = [kind |-> kind, to |-> s]
           /\ \A t \in Inputs : t # next => input'[t] = input[t]
  BY InputAssumption DEF Accept, TypeOK, Inputs

\* A turn that starts, and a turn that pulls, hand all pending steers over.
LEMMA HandedOver ==
    ASSUME TypeOK, NEW s \in Sessions,
           steered' = [steered EXCEPT ![s] = @ \o steers[s]],
           steers' = [steers EXCEPT ![s] = <<>>]
    PROVE  \A u \in Sessions : SteerLine(u)' = SteerLine(u)
  <1> SUFFICES ASSUME NEW u \in Sessions PROVE SteerLine(u)' = SteerLine(u)
    OBVIOUS
  <1>1. CASE u = s
    <2>1. steered'[s] = steered[s] \o steers[s] /\ steers'[s] = <<>>
      BY DEF TypeOK
    <2>2. (steered[s] \o steers[s]) \o <<>> = steered[s] \o steers[s]
      BY LineTypes
    <2> QED
      BY <1>1, <2>1, <2>2 DEF SteerLine
  <1>2. CASE u # s
    BY <1>2 DEF TypeOK, SteerLine
  <1> QED
    BY <1>1, <1>2

\* The driver that takes the head of a batch moves it inside the line.
LEMMA TakenAsTurn ==
    ASSUME TypeOK, NEW s \in Sessions, NEW replied, NextFollowUp(s, replied)
    PROVE  \A u \in Sessions : FollowLine(u)' = FollowLine(u)
  <1> SUFFICES ASSUME NEW u \in Sessions PROVE FollowLine(u)' = FollowLine(u)
    OBVIOUS
  <1>1. CASE u = s
    <2> DEFINE r == ran[s]
               q == queued[s]
               f == followUps[s]
    <2>1. r \in Seq(Inputs) /\ q \in Seq(Inputs) /\ f \in Seq(Inputs)
      BY LineTypes
    <2>2. /\ Batch(s) # <<>>
          /\ ran'[s] = Append(r, Head(Batch(s)))
          /\ queued'[s] = Tail(Batch(s))
          /\ followUps'[s] = IF q # <<>> THEN f ELSE <<>>
      BY DEF NextFollowUp, TypeOK
    <2>3. \A b \in Seq(Inputs) : b # <<>> => Append(r, Head(b)) \o Tail(b) = r \o b
      <3> SUFFICES ASSUME NEW b \in Seq(Inputs), b # <<>>
                   PROVE  Append(r, Head(b)) \o Tail(b) = r \o b
        OBVIOUS
      <3>1. Head(b) \in Inputs /\ Tail(b) \in Seq(Inputs) /\ b = <<Head(b)>> \o Tail(b)
        BY <2>1
      <3>2. Append(r, Head(b)) = r \o <<Head(b)>>
        BY <2>1, <3>1
      <3>3. (r \o <<Head(b)>>) \o Tail(b) = r \o (<<Head(b)>> \o Tail(b))
        BY <2>1, <3>1
      <3> QED
        BY <3>1, <3>2, <3>3
    <2> HIDE DEF r, q, f
    <2>4. CASE q # <<>>
      <3>1. Batch(s) = q /\ followUps'[s] = f
        BY <2>2, <2>4 DEF Batch, q
      <3>2. ran'[s] \o queued'[s] = r \o q
        BY <2>1, <2>2, <2>3, <2>4, <3>1
      <3> QED
        BY <1>1, <3>1, <3>2 DEF FollowLine, r, q, f
    <2>5. CASE q = <<>>
      <3>1. Batch(s) = f /\ followUps'[s] = <<>> /\ f # <<>>
        BY <2>2, <2>5 DEF Batch, q, f
      <3>2. ran'[s] \o queued'[s] = r \o f
        BY <2>1, <2>2, <2>3, <3>1
      <3>3. (r \o f) \o <<>> = r \o f /\ r \o <<>> = r
        BY <2>1
      <3> QED
        BY <1>1, <2>5, <3>1, <3>2, <3>3 DEF FollowLine, r, q, f
    <2> QED
      BY <2>4, <2>5
  <1>2. CASE u # s
    BY <1>2 DEF NextFollowUp, TypeOK, FollowLine
  <1> QED
    BY <1>1, <1>2

LEMMA OrderStep ==
    ASSUME TypeOK, TypeOK', InOrder, [Next]_sessionVars
    PROVE  InOrder'
  <1> SUFFICES ASSUME NEW u \in Sessions PROVE OrderOf(u)'
    BY DEF InOrder
  <1>1. OrderOf(u) /\ next \in Nat /\ discarded \in [Sessions -> SUBSET Inputs]
    BY InputAssumption DEF InOrder, TypeOK
  <1>2. CASE UNCHANGED sessionVars
    <2>1. SteerLine(u)' = SteerLine(u) /\ FollowLine(u)' = FollowLine(u)
      BY <1>2 DEF SteerLine, FollowLine
    <2>2. /\ NothingFor(u) /\ discarded'[u] = discarded[u]
          /\ failed \subseteq failed' /\ next <= next'
      BY <1>1, <1>2 DEF NothingFor
    <2> QED
      BY <1>1, <2>1, <2>2, QuietStep
  <1>3. ASSUME NEW s \in Sessions, Steer(s) PROVE OrderOf(u)'
    <2>1. /\ Accept("steer", s) /\ FollowLine(u)' = FollowLine(u)
          /\ discarded' = discarded /\ failed' = failed
      BY <1>3 DEF Steer, FollowLine
    <2>2. /\ next \in Inputs /\ next < next' /\ next <= next'
          /\ input'[next] = [kind |-> "steer", to |-> s]
          /\ \A t \in Inputs : t # next => input'[t] = input[t]
      BY <2>1, AcceptFacts DEF InputKinds
    <2>3. CASE u = s
      <3> DEFINE line == SteerLine(s)
      <3>1. line \in Seq(Inputs) /\ steered[s] \in Seq(Inputs) /\ steers[s] \in Seq(Inputs)
        BY LineTypes
      <3>2. SteerLine(s)' = line \o <<next>>
        <4>1. steers'[s] = Append(steers[s], next) /\ steered'[s] = steered[s]
          BY <1>3 DEF Steer, TypeOK
        <4>2. steered[s] \o Append(steers[s], next) = (steered[s] \o steers[s]) \o <<next>>
          BY <2>2, <3>1, AppendConcat
        <4> QED
          BY <4>1, <4>2 DEF SteerLine
      <3>3. Increasing(line) /\ \A t \in Elems(line) : t < next
        BY <1>1, <2>3 DEF OrderOf
      <3> HIDE DEF line
      <3>4. Increasing(line \o <<next>>) /\ Elems(line \o <<next>>) = Elems(line) \cup {next}
        BY <2>2, <3>1, <3>3, IncreasingAppend
      <3>5. Increasing(SteerLine(s))' /\ Elems(SteerLine(s))' = Elems(line) \cup {next}
        BY <3>2, <3>4 DEF Increasing, Elems
      <3>6. Increasing(FollowLine(s))' /\ Elems(FollowLine(s))' = Elems(FollowLine(s))
        BY <1>1, <2>1, <2>3 DEF OrderOf
      <3>7. \A t \in Elems(SteerLine(s))' \cup Elems(FollowLine(s))' : t < next'
        <4>1. next' \in Nat
          BY InputAssumption DEF TypeOK
        <4>2. \A t \in Elems(SteerLine(s)) \cup Elems(FollowLine(s)) : t \in Nat /\ t < next
          <5>1. Elems(SteerLine(s)) \cup Elems(FollowLine(s)) \subseteq Inputs
            BY LineTypes DEF Elems
          <5> QED
            BY <1>1, <2>3, <5>1 DEF OrderOf, Inputs
        <4> QED
          BY <1>1, <2>2, <3>5, <3>6, <4>1, <4>2 DEF line
      <3>8. ASSUME NEW t \in Inputs
            PROVE  /\ input'[t] = [kind |-> "steer", to |-> s] =>
                          t \in Elems(SteerLine(s))' \cup discarded'[s]
                   /\ input'[t] = [kind |-> "follow_up", to |-> s] /\ s \notin failed' =>
                          t \in Elems(FollowLine(s))'
        <4>1. CASE t = next
          <5>1. [kind |-> "steer", to |-> s] # [kind |-> "follow_up", to |-> s]
            OBVIOUS
          <5> QED
            BY <2>2, <3>5, <4>1, <5>1
        <4>2. CASE t # next
          BY <1>1, <2>1, <2>2, <2>3, <3>5, <3>6, <4>2 DEF OrderOf, line
        <4> QED
          BY <4>1, <4>2
      <3> QED
        BY <2>3, <3>5, <3>6, <3>7, <3>8 DEF OrderOf
    <2>4. CASE u # s
      <3>1. SteerLine(u)' = SteerLine(u)
        BY <1>3, <2>4 DEF Steer, SteerLine, TypeOK
      <3>2. NothingFor(u)
        BY <2>2, <2>4 DEF NothingFor
      <3>3. discarded'[u] = discarded[u] /\ failed \subseteq failed'
        BY <2>1
      <3> QED
        BY <1>1, <2>1, <2>2, <3>1, <3>2, <3>3, QuietStep
    <2> QED
      BY <2>3, <2>4
  <1>4. ASSUME NEW s \in Sessions, FollowUp(s) PROVE OrderOf(u)'
    <2>1. /\ Accept("follow_up", s) /\ SteerLine(u)' = SteerLine(u)
          /\ discarded' = discarded /\ failed' = failed
      BY <1>4 DEF FollowUp, SteerLine
    <2>2. /\ next \in Inputs /\ next < next' /\ next <= next'
          /\ input'[next] = [kind |-> "follow_up", to |-> s]
          /\ \A t \in Inputs : t # next => input'[t] = input[t]
      BY <2>1, AcceptFacts DEF InputKinds
    <2>3. CASE u = s
      <3> DEFINE line == FollowLine(s)
      <3>1. /\ line \in Seq(Inputs) /\ ran[s] \o queued[s] \in Seq(Inputs)
            /\ followUps[s] \in Seq(Inputs)
        BY LineTypes
      <3>2. FollowLine(s)' = line \o <<next>>
        <4>1. /\ followUps'[s] = Append(followUps[s], next) /\ ran'[s] = ran[s]
              /\ queued'[s] = queued[s]
          BY <1>4 DEF FollowUp, TypeOK
        <4> DEFINE head == ran[s] \o queued[s]
        <4>2. head \in Seq(Inputs)
          BY <3>1
        <4> HIDE DEF head
        <4>3. head \o Append(followUps[s], next) = (head \o followUps[s]) \o <<next>>
          BY <2>2, <3>1, <4>2, AppendConcat
        <4> QED
          BY <4>1, <4>3 DEF FollowLine, head
      <3>3. Increasing(line) /\ \A t \in Elems(line) : t < next
        BY <1>1, <2>3 DEF OrderOf
      <3> HIDE DEF line
      <3>4. Increasing(line \o <<next>>) /\ Elems(line \o <<next>>) = Elems(line) \cup {next}
        BY <2>2, <3>1, <3>3, IncreasingAppend
      <3>5. Increasing(FollowLine(s))' /\ Elems(FollowLine(s))' = Elems(line) \cup {next}
        BY <3>2, <3>4 DEF Increasing, Elems
      <3>6. Increasing(SteerLine(s))' /\ Elems(SteerLine(s))' = Elems(SteerLine(s))
        BY <1>1, <2>1, <2>3 DEF OrderOf
      <3>7. \A t \in Elems(SteerLine(s))' \cup Elems(FollowLine(s))' : t < next'
        <4>1. next' \in Nat
          BY InputAssumption DEF TypeOK
        <4>2. \A t \in Elems(SteerLine(s)) \cup Elems(FollowLine(s)) : t \in Nat /\ t < next
          <5>1. Elems(SteerLine(s)) \cup Elems(FollowLine(s)) \subseteq Inputs
            BY LineTypes DEF Elems
          <5> QED
            BY <1>1, <2>3, <5>1 DEF OrderOf, Inputs
        <4> QED
          BY <1>1, <2>2, <3>5, <3>6, <4>1, <4>2 DEF line
      <3>8. ASSUME NEW t \in Inputs
            PROVE  /\ input'[t] = [kind |-> "steer", to |-> s] =>
                          t \in Elems(SteerLine(s))' \cup discarded'[s]
                   /\ input'[t] = [kind |-> "follow_up", to |-> s] /\ s \notin failed' =>
                          t \in Elems(FollowLine(s))'
        <4>1. CASE t = next
          <5>1. [kind |-> "steer", to |-> s] # [kind |-> "follow_up", to |-> s]
            OBVIOUS
          <5> QED
            BY <2>2, <3>5, <4>1, <5>1
        <4>2. CASE t # next
          BY <1>1, <2>1, <2>2, <2>3, <3>5, <3>6, <4>2 DEF OrderOf, line
        <4> QED
          BY <4>1, <4>2
      <3> QED
        BY <2>3, <3>5, <3>6, <3>7, <3>8 DEF OrderOf
    <2>4. CASE u # s
      <3>1. FollowLine(u)' = FollowLine(u)
        BY <1>4, <2>4 DEF FollowUp, FollowLine, TypeOK
      <3>2. NothingFor(u)
        BY <2>2, <2>4 DEF NothingFor
      <3>3. discarded'[u] = discarded[u] /\ failed \subseteq failed'
        BY <2>1
      <3> QED
        BY <1>1, <2>1, <2>2, <3>1, <3>2, <3>3, QuietStep
    <2> QED
      BY <2>3, <2>4
  <1>5. ASSUME NEW s \in Sessions, DiscardPendingSteers(s) PROVE OrderOf(u)'
    <2>1. /\ steers' = [steers EXCEPT ![s] = <<>>] /\ steered' = steered
          /\ discarded' = [discarded EXCEPT ![s] = @ \cup Elems(steers[s])]
          /\ next' = next /\ input' = input /\ failed' = failed
          /\ FollowLine(u)' = FollowLine(u)
      BY <1>5 DEF DiscardPendingSteers, FollowLine
    <2>2. CASE u = s
      <3>1. steered[s] \in Seq(Inputs) /\ steers[s] \in Seq(Inputs)
        BY LineTypes
      <3>2. SteerLine(s)' = steered[s]
        <4>1. steers'[s] = <<>> /\ steered'[s] = steered[s]
          BY <2>1 DEF TypeOK
        <4>2. steered[s] \o <<>> = steered[s]
          BY <3>1
        <4> QED
          BY <4>1, <4>2 DEF SteerLine
      <3>3. /\ Increasing(steered[s])
            /\ Elems(SteerLine(s)) = Elems(steered[s]) \cup Elems(steers[s])
        BY <1>1, <2>2, <3>1, IncreasingConcat, ElemsConcat DEF OrderOf, SteerLine
      <3>4. Increasing(SteerLine(s))' /\ Elems(SteerLine(s))' = Elems(steered[s])
        BY <3>2, <3>3 DEF Increasing, Elems
      <3>5. discarded'[s] = discarded[s] \cup Elems(steers[s])
        BY <1>1, <2>1
      <3> QED
        BY <1>1, <2>1, <2>2, <3>3, <3>4, <3>5 DEF OrderOf
    <2>3. CASE u # s
      <3>1. SteerLine(u)' = SteerLine(u) /\ discarded'[u] = discarded[u]
        BY <1>1, <2>1, <2>3 DEF SteerLine, TypeOK
      <3>2. NothingFor(u) /\ next <= next' /\ failed \subseteq failed'
        BY <1>1, <2>1 DEF NothingFor
      <3>3. discarded'[u] = discarded[u]
        BY <2>1, <3>1
      <3> QED
        BY <1>1, <2>1, <3>1, <3>2, <3>3, QuietStep
    <2> QED
      BY <2>2, <2>3
  <1>6. ASSUME NEW s \in Sessions, FailTurn(s) PROVE OrderOf(u)'
    <2>1. /\ queued' = [queued EXCEPT ![s] = <<>>] /\ ran' = ran /\ followUps' = followUps
          /\ failed' = failed \cup {s} /\ next' = next /\ input' = input
          /\ discarded' = discarded /\ SteerLine(u)' = SteerLine(u)
      BY <1>6 DEF FailTurn, SteerLine
    <2>2. CASE u = s
      <3> DEFINE r == ran[s]
                 q == queued[s]
                 f == followUps[s]
      <3>1. r \in Seq(Inputs) /\ q \in Seq(Inputs) /\ f \in Seq(Inputs) /\ r \o q \in Seq(Inputs)
        BY LineTypes
      <3>2. FollowLine(s)' = r \o f
        <4>1. queued'[s] = <<>> /\ ran'[s] = r /\ followUps'[s] = f
          BY <2>1 DEF TypeOK
        <4>2. r \o <<>> = r
          BY <3>1
        <4> QED
          BY <4>1, <4>2 DEF FollowLine
      <3>3. FollowLine(s) = (r \o q) \o f
        BY DEF FollowLine
      <3>4. Increasing(FollowLine(s)) /\ \A t \in Elems(FollowLine(s)) : t < next
        BY <1>1, <2>2 DEF OrderOf
      <3> HIDE DEF r, q, f
      <3>5. /\ Increasing(r \o q) /\ Increasing(f)
            /\ \A x \in Elems(r \o q), y \in Elems(f) : x < y
            /\ Elems(r \o q) = Elems(r) \cup Elems(q)
            /\ Elems(FollowLine(s)) = Elems(r \o q) \cup Elems(f)
        BY <3>1, <3>3, <3>4, IncreasingConcat, ElemsConcat, ZenonT(60)
      <3>6. Increasing(r)
        BY <3>1, <3>5, IncreasingConcat
      <3>7. Increasing(r \o f) /\ Elems(r \o f) = Elems(r) \cup Elems(f)
        BY <3>1, <3>5, <3>6, IncreasingConcat, ElemsConcat
      <3>8. Increasing(FollowLine(s))' /\ Elems(FollowLine(s))' = Elems(r) \cup Elems(f)
        BY <3>2, <3>7 DEF Increasing, Elems
      <3>9. \A t \in Elems(r) \cup Elems(f) : t < next
        BY <3>4, <3>5
      <3> QED
        BY <1>1, <2>1, <2>2, <3>8, <3>9 DEF OrderOf
    <2>3. CASE u # s
      <3>1. FollowLine(u)' = FollowLine(u)
        BY <2>1, <2>3 DEF FollowLine, TypeOK
      <3>2. NothingFor(u) /\ next <= next' /\ failed \subseteq failed'
        BY <1>1, <2>1 DEF NothingFor
      <3>3. discarded'[u] = discarded[u]
        BY <2>1, <3>1
      <3> QED
        BY <1>1, <2>1, <3>1, <3>2, <3>3, QuietStep
    <2> QED
      BY <2>2, <2>3
  <1>7. ASSUME NEW s \in Sessions, SubmitPrompt(s) PROVE OrderOf(u)'
    <2>1. /\ Accept("prompt", s) /\ FollowLine(u)' = FollowLine(u)
          /\ steered' = [steered EXCEPT ![s] = @ \o steers[s]]
          /\ steers' = [steers EXCEPT ![s] = <<>>]
          /\ discarded' = discarded /\ failed' = failed
      BY <1>7 DEF SubmitPrompt, StartTurn, FollowLine
    <2>2. SteerLine(u)' = SteerLine(u)
      BY <2>1, HandedOver
    <2>3. /\ next <= next'
          /\ input'[next] = [kind |-> "prompt", to |-> s]
          /\ \A t \in Inputs : t # next => input'[t] = input[t]
      BY <2>1, AcceptFacts DEF InputKinds
    <2>4. NothingFor(u) /\ discarded'[u] = discarded[u] /\ failed \subseteq failed'
      <3>1. \A kind \in {"steer", "follow_up"} :
               [kind |-> "prompt", to |-> s] # [kind |-> kind, to |-> u]
        OBVIOUS
      <3> QED
        BY <2>1, <2>3, <3>1 DEF NothingFor
    <2> QED
      BY <1>1, <2>1, <2>2, <2>3, <2>4, QuietStep
  <1>8. ASSUME NEW s \in Sessions, PullSteering(s) PROVE OrderOf(u)'
    <2>1. /\ FollowLine(u)' = FollowLine(u)
          /\ steered' = [steered EXCEPT ![s] = @ \o steers[s]]
          /\ steers' = [steers EXCEPT ![s] = <<>>]
          /\ discarded' = discarded /\ failed' = failed /\ next' = next /\ input' = input
      BY <1>8 DEF PullSteering, FollowLine
    <2>2. SteerLine(u)' = SteerLine(u)
      BY <2>1, HandedOver
    <2>3. /\ NothingFor(u) /\ discarded'[u] = discarded[u]
          /\ failed \subseteq failed' /\ next <= next'
      BY <1>1, <2>1 DEF NothingFor
    <2> QED
      BY <1>1, <2>1, <2>2, <2>3, QuietStep
  <1>9. ASSUME NEW s \in Sessions, NEW replied \in BOOLEAN, NextFollowUp(s, replied)
        PROVE  OrderOf(u)'
    <2>1. /\ steered' = [steered EXCEPT ![s] = @ \o steers[s]]
          /\ steers' = [steers EXCEPT ![s] = <<>>]
          /\ discarded' = discarded /\ failed' = failed /\ next' = next /\ input' = input
      BY <1>9 DEF NextFollowUp, StartTurn
    <2>2. SteerLine(u)' = SteerLine(u)
      BY <2>1, HandedOver
    <2>3. FollowLine(u)' = FollowLine(u)
      BY <1>9, TakenAsTurn
    <2>4. /\ NothingFor(u) /\ discarded'[u] = discarded[u]
          /\ failed \subseteq failed' /\ next <= next'
      BY <1>1, <2>1 DEF NothingFor
    <2> QED
      BY <1>1, <2>1, <2>2, <2>3, <2>4, QuietStep
  <1>10. ASSUME NEW s \in Sessions,
                \/ Abort(s) \/ (\E r \in Routes : SwitchRoute(s, r))
                \/ (\E replied \in BOOLEAN : LastTurn(s, replied))
                \/ BeginCompaction(s) \/ FinishCompaction(s) \/ FailCompaction(s)
         PROVE  OrderOf(u)'
    <2>1. UNCHANGED <<steered, steers, ran, queued, followUps, discarded, failed, next, input>>
      BY <1>10 DEF Abort, SwitchRoute, LastTurn, BeginCompaction, FinishCompaction, FailCompaction
    <2>2. SteerLine(u)' = SteerLine(u) /\ FollowLine(u)' = FollowLine(u)
      BY <2>1 DEF SteerLine, FollowLine
    <2>3. /\ NothingFor(u) /\ discarded'[u] = discarded[u]
          /\ failed \subseteq failed' /\ next <= next'
      BY <1>1, <2>1 DEF NothingFor
    <2> QED
      BY <1>1, <2>2, <2>3, QuietStep
  <1> QED
    BY <1>2, <1>3, <1>4, <1>5, <1>6, <1>7, <1>8, <1>9, <1>10 DEF Next, SessionStep, EndTurn

LEMMA OrderHolds == Init => InOrder
  <1> SUFFICES ASSUME Init, NEW s \in Sessions PROVE OrderOf(s)
    BY DEF InOrder
  <1>1. /\ steered[s] = <<>> /\ steers[s] = <<>> /\ ran[s] = <<>>
        /\ queued[s] = <<>> /\ followUps[s] = <<>>
        /\ \A t \in Inputs : input[t] = [kind |-> "none"]
    BY DEF Init, NoInput
  <1>2. SteerLine(s) = <<>> /\ FollowLine(s) = <<>>
    BY <1>1 DEF SteerLine, FollowLine
  <1>3. Elems(<<>>) = {} /\ Increasing(<<>>)
    BY DEF Elems, Increasing
  <1>4. \A t \in Inputs : /\ input[t] # [kind |-> "steer", to |-> s]
                          /\ input[t] # [kind |-> "follow_up", to |-> s]
    BY <1>1
  <1> QED
    BY <1>2, <1>3, <1>4 DEF OrderOf

LEMMA OrderMeans ==
    ASSUME TypeOK, InOrder
    PROVE  InputsOnceInOrder
  <1> SUFFICES ASSUME NEW s \in Sessions
               PROVE  /\ Increasing(steered[s] \o steers[s])
                      /\ Increasing(ran[s] \o queued[s] \o followUps[s])
                      /\ \A t \in Inputs :
                            /\ input[t] = [kind |-> "steer", to |-> s] =>
                                   t \in Elems(steered[s]) \cup Elems(steers[s]) \cup discarded[s]
                            /\ input[t] = [kind |-> "follow_up", to |-> s] /\ s \notin failed =>
                                   t \in Elems(ran[s]) \cup Elems(queued[s]) \cup Elems(followUps[s])
    BY DEF InputsOnceInOrder
  <1>1. OrderOf(s)
    BY DEF InOrder
  <1>2. Elems(SteerLine(s)) = Elems(steered[s]) \cup Elems(steers[s])
    BY LineTypes, ElemsConcat DEF SteerLine
  <1>3. Elems(FollowLine(s)) = Elems(ran[s]) \cup Elems(queued[s]) \cup Elems(followUps[s])
    <2>1. Elems(ran[s] \o queued[s]) = Elems(ran[s]) \cup Elems(queued[s])
      BY LineTypes, ElemsConcat
    <2> DEFINE head == ran[s] \o queued[s]
    <2>2. head \in Seq(Inputs) /\ followUps[s] \in Seq(Inputs)
      BY LineTypes
    <2> HIDE DEF head
    <2>3. Elems(head \o followUps[s]) = Elems(head) \cup Elems(followUps[s])
      BY <2>2, ElemsConcat
    <2> QED
      BY <2>1, <2>3 DEF FollowLine, head
  <1> QED
    BY <1>1, <1>2, <1>3 DEF OrderOf, SteerLine, FollowLine

\* Every accepted steer and follow-up is used once and in the order it was
\* typed, through prompts, pulls, discards, aborts, compactions and throws.
THEOREM InputsUsedOnce == Spec => []InputsOnceInOrder
  <1>1. TypeOK /\ TypeOK' /\ InOrder /\ [Next]_sessionVars => InOrder'
    BY OrderStep
  <1>2. TypeOK /\ InOrder => InputsOnceInOrder
    BY OrderMeans
  <1> QED
    BY OrderHolds, <1>1, <1>2, TypeCorrect, PTL DEF Spec
=============================================================================
