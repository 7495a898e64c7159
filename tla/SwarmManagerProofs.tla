------------------------- MODULE SwarmManagerProofs -------------------------
(***************************************************************************)
(* Proofs about SwarmManager for every number of tasks, slots and mandate  *)
(* changes: types, the accounting of slots, that no task waits beside a    *)
(* free slot, and sibling isolation.                                       *)
(*                                                                         *)
(* The inductive invariant is stated once as an operator of the scheduler's*)
(* data (Sound), so that one lemma about the pump (PumpKeepsSound) serves  *)
(* the three operations that end in it.                                    *)
(***************************************************************************)
EXTENDS SwarmManager, TLAPS, FiniteSetTheorems, SequenceTheorems,
        WellFoundedInduction

\* Queue q, states st, counter run, in flight fl, snapshots handed out gv and
\* taken at spawn as, with n tasks spawned, are consistent.
Sound(q, st, run, fl, gv, as, n) ==
    /\ q \in Seq(QueueItem)
    /\ st \in [Tasks -> States]
    /\ fl \subseteq Tasks
    /\ gv \in [Tasks -> Mandates]
    /\ as \in [Tasks -> Mandates]
    /\ n \in 0..MaxTasks
    /\ run = Cardinality(fl)
    /\ run <= Concurrency
    /\ \A i \in 1..Len(q) :
          /\ st[q[i].task] \in {"queued", "killed"}
          /\ q[i].task \notin fl
          /\ q[i].task <= n
          /\ q[i].snapshot = as[q[i].task]
    /\ \A i, j \in 1..Len(q) : i < j => q[i].task < q[j].task
    /\ \A t \in Tasks : st[t] = "queued" => \E i \in 1..Len(q) : q[i].task = t
    /\ \A t \in fl : st[t] \in {"running", "killed"} /\ gv[t] = as[t] /\ t <= n
    /\ \A t \in Tasks : st[t] = "running" => t \in fl
    /\ \A t \in Tasks : t > n => st[t] = "none"

\* NoIdleSlot of the same data.
Calm(q, st, run) ==
    (\E i \in 1..Len(q) : st[q[i].task] = "queued") => run = Concurrency

\* Pump as a relation between the data before and after it.
PumpRelation(q, st, run, fl, gv, b, q2, st2, run2, fl2, gv2) ==
    IF b
    THEN LET k == Shifted(q, st, Concurrency - run)
             started == Live(q, st, k)
         IN  /\ q2 = Dropped(q, k)
             /\ st2 = [t \in Tasks |-> IF t \in started THEN "running" ELSE st[t]]
             /\ run2 = run + Cardinality(started)
             /\ fl2 = fl \cup started
             /\ gv2 = [t \in Tasks |->
                          IF t \in started THEN SnapshotOf(q, k, t) ELSE gv[t]]
    ELSE LET k == IF run < Concurrency THEN Len(q) ELSE 0
         IN  /\ q2 = Dropped(q, k)
             /\ st2 = [t \in Tasks |-> IF t \in Live(q, st, k) THEN "failed" ELSE st[t]]
             /\ run2 = run
             /\ fl2 = fl
             /\ gv2 = gv

-----------------------------------------------------------------------------
(* The queue prefix the pump shifts.                                       *)

LEMMA TasksFinite == IsFiniteSet(Tasks)
BY FS_Interval, TasksAssumption DEF Tasks

LEMMA AddAtMostOne ==
    ASSUME NEW S, NEW x, IsFiniteSet(S)
    PROVE  /\ IsFiniteSet(S \cup {x})
           /\ Cardinality(S \cup {x}) \in Nat
           /\ Cardinality(S \cup {x}) <= Cardinality(S) + 1
<1>1. Cardinality(S) \in Nat
    BY FS_CardinalityType
<1>2. /\ IsFiniteSet(S \cup {x})
      /\ Cardinality(S \cup {x}) = IF x \in S THEN Cardinality(S) ELSE Cardinality(S) + 1
    BY FS_AddElement
<1> QED BY <1>1, <1>2

\* The live tasks of a prefix are tasks, and one more item adds at most one.
LEMMA LiveFacts ==
    ASSUME NEW q \in Seq(QueueItem), NEW st \in [Tasks -> States],
           NEW k \in 0..Len(q)
    PROVE  /\ Live(q, st, k) \in SUBSET Tasks
           /\ IsFiniteSet(Live(q, st, k))
           /\ Cardinality(Live(q, st, k)) \in Nat
           /\ Live(q, st, 0) = {}
           /\ k > 0 => Cardinality(Live(q, st, k)) <= Cardinality(Live(q, st, k - 1)) + 1
<1>1. ASSUME NEW m \in 0..Len(q)
      PROVE  /\ Live(q, st, m) \in SUBSET Tasks
             /\ IsFiniteSet(Live(q, st, m))
             /\ Cardinality(Live(q, st, m)) \in Nat
  <2>1. Live(q, st, m) \in SUBSET Tasks
    <3>1. \A i \in 1..m : i \in 1..Len(q) /\ q[i] \in QueueItem
        OBVIOUS
    <3> QED BY <3>1 DEF Live, QueueItem
  <2> QED BY <2>1, TasksFinite, FS_Subset, FS_CardinalityType
<1>2. Live(q, st, 0) = {}
    BY DEF Live
<1>3. ASSUME k > 0
      PROVE  Cardinality(Live(q, st, k)) <= Cardinality(Live(q, st, k - 1)) + 1
  <2> DEFINE before == Live(q, st, k - 1)
  <2>1. k - 1 \in 0..Len(q)
      BY <1>3
  <2>2. IsFiniteSet(before) /\ Cardinality(before) \in Nat
      BY <2>1, <1>1
  <2>3. Live(q, st, k) \subseteq before \cup {q[k].task}
      BY <1>3 DEF Live
  <2>4. /\ IsFiniteSet(before \cup {q[k].task})
        /\ Cardinality(before \cup {q[k].task}) \in Nat
        /\ Cardinality(before \cup {q[k].task}) <= Cardinality(before) + 1
      BY <2>2, AddAtMostOne
  <2>5. Cardinality(Live(q, st, k)) <= Cardinality(before \cup {q[k].task})
      BY <2>3, <2>4, FS_Subset
  <2>6. Cardinality(Live(q, st, k)) \in Nat
      BY <1>1
  <2> HIDE DEF before
  <2>7. Cardinality(Live(q, st, k)) <= Cardinality(before) + 1
      BY <2>2, <2>4, <2>5, <2>6
  <2> QED BY <2>7 DEF before
<1> QED BY <1>1, <1>2, <1>3

\* The loop's stopping point exists: with n free slots it never shifts more
\* than n live tasks, and stops early only when they fill the slots.
LEMMA ShiftedFacts ==
    ASSUME NEW q \in Seq(QueueItem), NEW st \in [Tasks -> States], NEW n \in Nat
    PROVE  LET k == Shifted(q, st, n)
           IN  /\ k \in 0..Len(q)
               /\ Cardinality(Live(q, st, k)) <= n
               /\ k < Len(q) => Cardinality(Live(q, st, k)) >= n
<1> DEFINE Stop(k) == /\ \A j \in 0..k - 1 : Cardinality(Live(q, st, j)) < n
                      /\ k < Len(q) => Cardinality(Live(q, st, k)) >= n
           Candidates == {k \in 0..Len(q) : k < Len(q) => Cardinality(Live(q, st, k)) >= n}
<1>1. \E k \in 0..Len(q) : Stop(k)
  <2>1. Len(q) \in Candidates /\ Candidates \subseteq Nat
      OBVIOUS
  <2> HIDE DEF Candidates
  <2>2. PICK k \in Candidates : \A j \in Candidates : ~(<<j, k>> \in OpToRel(<, Nat))
      BY <2>1, WFMin, NatLessThanWellFounded
  <2>3. \A j \in Candidates : ~(j < k)
      BY <2>1, <2>2 DEF OpToRel
  <2>4. \A j \in 0..k - 1 : Cardinality(Live(q, st, j)) < n
    <3> TAKE j \in 0..k - 1
    <3>1. j \in 0..Len(q) /\ j \notin Candidates
        BY <2>3 DEF Candidates
    <3>2. Cardinality(Live(q, st, j)) \in Nat
        BY <3>1, LiveFacts
    <3> QED BY <3>1, <3>2 DEF Candidates
  <2>5. k \in 0..Len(q) /\ (k < Len(q) => Cardinality(Live(q, st, k)) >= n)
      BY DEF Candidates
  <2> QED BY <2>4, <2>5
<1> DEFINE k == Shifted(q, st, n)
<1>2. k \in 0..Len(q) /\ Stop(k)
    BY <1>1 DEF Shifted
<1> HIDE DEF k
<1>3. Cardinality(Live(q, st, k)) <= n
  <2>1. CASE k = 0
      BY <2>1, LiveFacts, FS_EmptySet
  <2>2. CASE k > 0
    <3>1. Cardinality(Live(q, st, k - 1)) < n
        BY <1>2, <2>2
    <3>2. /\ Cardinality(Live(q, st, k)) <= Cardinality(Live(q, st, k - 1)) + 1
          /\ Cardinality(Live(q, st, k)) \in Nat
        BY <1>2, <2>2, LiveFacts
    <3>3. Cardinality(Live(q, st, k - 1)) \in Nat
        BY <1>2, <2>2, LiveFacts
    <3> QED BY <3>1, <3>2, <3>3
  <2> QED BY <1>2, <2>1, <2>2
<1> QED BY <1>2, <1>3 DEF k

-----------------------------------------------------------------------------
(* The pump.                                                               *)

\* What is left of a queue after its first k items.
LEMMA DroppedFacts ==
    ASSUME NEW q \in Seq(QueueItem), NEW k \in 0..Len(q)
    PROVE  /\ Dropped(q, k) \in Seq(QueueItem)
           /\ Len(Dropped(q, k)) = Len(q) - k
           /\ \A i \in 1..Len(q) - k : Dropped(q, k)[i] = q[k + i]
<1>1. Dropped(q, k) = [i \in 1..Len(q) - k |-> q[k + i]]
    BY SMT DEF Dropped
<1>2. \A i \in 1..Len(q) - k : k + i \in 1..Len(q) /\ q[k + i] \in QueueItem
    OBVIOUS
<1>3. Dropped(q, k) \in Seq(QueueItem) /\ Len(Dropped(q, k)) = Len(q) - k
    BY <1>1, <1>2, IsASeq
<1> QED BY <1>1, <1>3

\* With a runner bound, the pump keeps the data consistent and leaves no task
\* beside a free slot.
LEMMA StartKeepsSound ==
    ASSUME NEW q, NEW st, NEW run, NEW fl, NEW gv, NEW as, NEW n,
           NEW q2, NEW st2, NEW run2, NEW fl2, NEW gv2,
           Sound(q, st, run, fl, gv, as, n),
           PumpRelation(q, st, run, fl, gv, TRUE, q2, st2, run2, fl2, gv2)
    PROVE  Sound(q2, st2, run2, fl2, gv2, as, n) /\ Calm(q2, st2, run2)
<1>1. /\ q \in Seq(QueueItem)
      /\ st \in [Tasks -> States]
      /\ fl \subseteq Tasks
      /\ gv \in [Tasks -> Mandates] /\ as \in [Tasks -> Mandates]
      /\ n \in 0..MaxTasks /\ run = Cardinality(fl) /\ run <= Concurrency
    BY DEF Sound
<1>2. \A i \in 1..Len(q) :
          /\ st[q[i].task] \in {"queued", "killed"}
          /\ q[i].task \notin fl
          /\ q[i].task <= n
          /\ q[i].snapshot = as[q[i].task]
    BY DEF Sound
<1>3. \A i, j \in 1..Len(q) : i < j => q[i].task < q[j].task
    BY DEF Sound
<1>4. \A t \in Tasks : st[t] = "queued" => \E i \in 1..Len(q) : q[i].task = t
    BY DEF Sound
<1>5. \A t \in fl : st[t] \in {"running", "killed"} /\ gv[t] = as[t] /\ t <= n
    BY DEF Sound
<1>6. /\ \A t \in Tasks : st[t] = "running" => t \in fl
      /\ \A t \in Tasks : t > n => st[t] = "none"
    BY DEF Sound
<1>7. IsFiniteSet(fl) /\ run \in Nat /\ Concurrency \in Nat
    BY <1>1, TasksFinite, FS_Subset, FS_CardinalityType, ConcurrencyAssumption
<1>8. \A i \in 1..Len(q) : q[i] \in QueueItem /\ q[i].task \in Tasks
  <2>1. \A i \in 1..Len(q) : q[i] \in QueueItem
      BY <1>1
  <2> QED BY <2>1 DEF QueueItem
<1> DEFINE k == Shifted(q, st, Concurrency - run)
           started == Live(q, st, k)
<1>9. /\ k \in 0..Len(q)
      /\ Cardinality(started) <= Concurrency - run
      /\ k < Len(q) => Cardinality(started) >= Concurrency - run
  <2>1. Concurrency - run \in Nat
      BY <1>1, <1>7
  <2> QED BY <1>1, <2>1, ShiftedFacts
<1>10. /\ started \in SUBSET Tasks
       /\ IsFiniteSet(started)
       /\ Cardinality(started) \in Nat
    BY <1>1, <1>9, LiveFacts
<1>11. started = {q[i].task : i \in {j \in 1..k : st[q[j].task] # "killed"}}
    BY DEF Live
<1>12. /\ q2 = Dropped(q, k)
       /\ st2 = [t \in Tasks |-> IF t \in started THEN "running" ELSE st[t]]
       /\ run2 = run + Cardinality(started)
       /\ fl2 = fl \cup started
       /\ gv2 = [t \in Tasks |-> IF t \in started THEN SnapshotOf(q, k, t) ELSE gv[t]]
    BY DEF PumpRelation
<1> HIDE DEF k, started
<1>13. /\ q2 \in Seq(QueueItem)
       /\ Len(q2) = Len(q) - k
       /\ \A i \in 1..Len(q2) : k + i \in 1..Len(q) /\ q2[i] = q[k + i]
  <2>1. Len(q) \in Nat
      BY <1>1
  <2>2. /\ q2 \in Seq(QueueItem)
        /\ Len(q2) = Len(q) - k
        /\ \A i \in 1..Len(q) - k : q2[i] = q[k + i]
      BY <1>1, <1>9, <1>12, DroppedFacts
  <2>3. \A i \in 1..Len(q) - k : k + i \in 1..Len(q)
      BY <1>9, <2>1
  <2> QED BY <2>2, <2>3
<1>14. \A t \in started : \E i \in 1..Len(q) : i <= k /\ q[i].task = t /\ st[t] = "queued"
  <2> TAKE t \in started
  <2>1. PICK i \in 1..k : q[i].task = t /\ st[t] # "killed"
      BY <1>11
  <2>2. i \in 1..Len(q) /\ i <= k
      BY <1>1, <1>9
  <2> QED BY <1>2, <2>1, <2>2
<1>15. \A t \in started : t \notin fl /\ t <= n
  <2> TAKE t \in started
  <2>1. PICK i \in 1..Len(q) : q[i].task = t
      BY <1>14
  <2> QED BY <2>1, <1>2
<1>16. \A t \in started : SnapshotOf(q, k, t) = as[t]
  <2> TAKE t \in started
  <2>1. \E i \in 1..k : q[i].task = t
    <3>1. PICK i \in 1..Len(q) : i <= k /\ q[i].task = t
        BY <1>14
    <3> QED BY <3>1, <1>9
  <2> DEFINE i == CHOOSE i \in 1..k : q[i].task = t
  <2>2. i \in 1..k /\ q[i].task = t
      BY <2>1
  <2> HIDE DEF i
  <2>3. i \in 1..Len(q)
      BY <2>2, <1>1, <1>9
  <2>4. q[i].snapshot = as[t]
      BY <2>2, <2>3, <1>2
  <2> QED BY <2>4 DEF SnapshotOf, i
<1>17. run2 = Cardinality(fl2) /\ run2 <= Concurrency
  <2>1. fl \cap started = {}
      BY <1>15
  <2>2. Cardinality(fl \cup started)
           = Cardinality(fl) + Cardinality(started) - Cardinality(fl \cap started)
      BY <1>7, <1>10, FS_Union
  <2>3. Cardinality(fl \cap started) = 0
      BY <2>1, FS_EmptySet
  <2> QED BY <2>2, <2>3, <1>1, <1>7, <1>9, <1>10, <1>12
<1>18. \A i \in 1..Len(q2) : q2[i].task \notin started
  <2> SUFFICES ASSUME NEW i \in 1..Len(q2), q2[i].task \in started PROVE FALSE
      OBVIOUS
  <2>1. PICK j \in 1..Len(q) : j <= k /\ q[j].task = q2[i].task
      BY <1>14
  <2>2. k + i \in 1..Len(q) /\ q2[i] = q[k + i] /\ j < k + i
      BY <2>1, <1>9, <1>13
  <2>3. q[j].task < q[k + i].task
      BY <2>2, <1>3
  <2>4. q[j].task = q[k + i].task /\ q[j].task \in Nat
      BY <2>1, <2>2, <1>8 DEF Tasks
  <2> QED BY <2>3, <2>4
<1>19. \A i \in 1..Len(q2) :
          /\ st2[q2[i].task] \in {"queued", "killed"}
          /\ q2[i].task \notin fl2
          /\ q2[i].task <= n
          /\ q2[i].snapshot = as[q2[i].task]
  <2> TAKE i \in 1..Len(q2)
  <2>1. k + i \in 1..Len(q) /\ q2[i] = q[k + i] /\ q2[i].task \in Tasks
      BY <1>13, <1>8
  <2>2. st2[q2[i].task] = st[q2[i].task]
      BY <2>1, <1>12, <1>18
  <2> QED BY <2>1, <2>2, <1>2, <1>12, <1>18
<1>20. \A i, j \in 1..Len(q2) : i < j => q2[i].task < q2[j].task
  <2> TAKE i, j \in 1..Len(q2)
  <2> HAVE i < j
  <2>1. k + i < k + j
      BY <1>9
  <2> QED BY <2>1, <1>3, <1>13
<1>21. \A t \in Tasks : st2[t] = "queued" => \E i \in 1..Len(q2) : q2[i].task = t
  <2> SUFFICES ASSUME NEW t \in Tasks, st2[t] = "queued"
               PROVE  \E i \in 1..Len(q2) : q2[i].task = t
      OBVIOUS
  <2>1. st[t] = "queued" /\ t \notin started
      BY <1>12
  <2>2. PICK j \in 1..Len(q) : q[j].task = t
      BY <2>1, <1>4
  <2>3. j > k
    <3>1. j \notin 1..k
        BY <2>1, <2>2, <1>11
    <3> QED BY <3>1, <1>9
  <2>4. j - k \in 1..Len(q2) /\ k + (j - k) = j
      BY <2>3, <1>1, <1>9, <1>13
  <2>5. q2[j - k].task = t
      BY <2>2, <2>4, <1>13
  <2> QED BY <2>4, <2>5
<1>22. st2 \in [Tasks -> States] /\ fl2 \subseteq Tasks
    BY <1>1, <1>10, <1>12 DEF States
<1>23. gv2 \in [Tasks -> Mandates]
    BY <1>1, <1>10, <1>12, <1>16
<1>24. \A t \in fl2 : st2[t] \in {"running", "killed"} /\ gv2[t] = as[t] /\ t <= n
  <2> TAKE t \in fl2
  <2>1. CASE t \in started
      BY <2>1, <1>10, <1>12, <1>15, <1>16
  <2>2. CASE t \notin started
      BY <2>2, <1>1, <1>5, <1>12
  <2> QED BY <2>1, <2>2
<1>25. /\ \A t \in Tasks : st2[t] = "running" => t \in fl2
       /\ \A t \in Tasks : t > n => st2[t] = "none"
  <2>1. \A t \in Tasks : t > n => t \notin started
    <3> TAKE t \in Tasks
    <3>1. t \in Nat /\ n \in Nat
        BY <1>1 DEF Tasks
    <3> QED BY <3>1, <1>15
  <2> QED BY <2>1, <1>6, <1>12
<1>26. Calm(q2, st2, run2)
  <2>1. 1..Len(q2) # {} => k < Len(q)
      BY <1>1, <1>9, <1>13
  <2>2. k < Len(q) => run2 = Concurrency
      BY <1>7, <1>9, <1>10, <1>12
  <2> QED BY <2>1, <2>2 DEF Calm
<1> QED BY <1>1, <1>13, <1>17, <1>19, <1>20, <1>21, <1>22, <1>23, <1>24, <1>25, <1>26
        DEF Sound

\* Without a runner, every queued task fails as soon as a slot is free.
LEMMA FailKeepsSound ==
    ASSUME NEW q, NEW st, NEW run, NEW fl, NEW gv, NEW as, NEW n,
           NEW q2, NEW st2, NEW run2, NEW fl2, NEW gv2,
           Sound(q, st, run, fl, gv, as, n),
           PumpRelation(q, st, run, fl, gv, FALSE, q2, st2, run2, fl2, gv2)
    PROVE  Sound(q2, st2, run2, fl2, gv2, as, n) /\ Calm(q2, st2, run2)
<1>1. /\ q \in Seq(QueueItem)
      /\ st \in [Tasks -> States]
      /\ fl \subseteq Tasks
      /\ n \in 0..MaxTasks /\ run = Cardinality(fl) /\ run <= Concurrency
    BY DEF Sound
<1>2. run \in Nat /\ Concurrency \in Nat
    BY <1>1, TasksFinite, FS_Subset, FS_CardinalityType, ConcurrencyAssumption
<1>3. CASE run < Concurrency
  <2> DEFINE gone == Live(q, st, Len(q))
  <2>1. /\ q2 = Dropped(q, Len(q))
        /\ st2 = [t \in Tasks |-> IF t \in gone THEN "failed" ELSE st[t]]
        /\ run2 = run /\ fl2 = fl /\ gv2 = gv
      BY <1>3 DEF PumpRelation
  <2>2. gone = {q[i].task : i \in {j \in 1..Len(q) : st[q[j].task] # "killed"}}
      BY DEF Live
  <2> HIDE DEF gone
  <2>3. q2 \in Seq(QueueItem) /\ Len(q2) = 0
    <3>1. Len(q) \in 0..Len(q)
        BY <1>1
    <3> QED BY <1>1, <2>1, <3>1, DroppedFacts
  <2>4. \A t \in gone : st[t] = "queued" /\ t \notin fl /\ t <= n
    <3> TAKE t \in gone
    <3>1. PICK i \in 1..Len(q) : q[i].task = t /\ st[t] # "killed"
        BY <2>2
    <3>2. st[t] \in {"queued", "killed"} /\ t \notin fl /\ t <= n
        BY <3>1 DEF Sound
    <3> QED BY <3>1, <3>2
  <2>5. \A t \in Tasks : st2[t] # "queued"
    <3> SUFFICES ASSUME NEW t \in Tasks, t \notin gone PROVE st[t] # "queued"
        BY <2>1
    <3>1. ASSUME st[t] = "queued" PROVE FALSE
      <4>1. PICK i \in 1..Len(q) : q[i].task = t
          BY <3>1 DEF Sound
      <4> QED BY <3>1, <4>1, <2>2
    <3> QED BY <3>1
  <2>6. st2 \in [Tasks -> States]
      BY <1>1, <2>1 DEF States
  <2>7. \A t \in fl : t \notin gone /\ st2[t] = st[t]
      BY <1>1, <2>1, <2>4
  <2>8. \A t \in Tasks : st2[t] = "running" => st[t] = "running"
      BY <2>1
  <2>9. \A t \in Tasks : t > n => st2[t] = "none"
    <3> TAKE t \in Tasks
    <3> HAVE t > n
    <3>1. t \notin gone
      <4>1. t \in Nat /\ n \in Nat
          BY <1>1 DEF Tasks
      <4> QED BY <4>1, <2>4
    <3>2. st[t] = "none"
        BY DEF Sound
    <3> QED BY <3>1, <3>2, <2>1
  <2>10. Calm(q2, st2, run2)
      BY <2>3 DEF Calm
  <2>11. \A t \in fl2 : st2[t] \in {"running", "killed"} /\ gv2[t] = as[t] /\ t <= n
      BY <2>1, <2>7 DEF Sound
  <2>12. \A t \in Tasks : st2[t] = "running" => t \in fl2
      BY <2>1, <2>8 DEF Sound
  <2>13. gv2 \in [Tasks -> Mandates] /\ as \in [Tasks -> Mandates]
      BY <2>1 DEF Sound
  <2>14. 1..Len(q2) = {}
      BY <2>3
  <2> HIDE DEF gone
  <2>15. run2 = Cardinality(fl2) /\ run2 <= Concurrency /\ fl2 \subseteq Tasks
      BY <1>1, <2>1
  <2> QED BY <1>1, <2>3, <2>5, <2>6, <2>9, <2>10, <2>11, <2>12, <2>13, <2>14, <2>15
          DEF Sound
<1>4. CASE ~(run < Concurrency)
  <2>1. run = Concurrency
      BY <1>4, <1>1, <1>2
  <2>2. /\ q2 = Dropped(q, 0) /\ run2 = run /\ fl2 = fl /\ gv2 = gv
        /\ st2 = [t \in Tasks |-> IF t \in Live(q, st, 0) THEN "failed" ELSE st[t]]
      BY <1>4 DEF PumpRelation
  <2>3. Live(q, st, 0) = {}
      BY DEF Live
  <2>4. st2 = st
      BY <1>1, <2>2, <2>3
  <2>5. q2 = q
    <3>1. Len(q) \in Nat /\ 0 \in 0..Len(q)
        BY <1>1
    <3>2. /\ q2 \in Seq(QueueItem) /\ Len(q2) = Len(q)
          /\ \A i \in 1..Len(q) : q2[i] = q[i]
        BY <1>1, <2>2, <3>1, DroppedFacts
    <3> QED BY <1>1, <3>2, SeqEqual
  <2> QED BY <2>1, <2>2, <2>4, <2>5 DEF Calm
<1> QED BY <1>3, <1>4

LEMMA PumpKeepsSound ==
    ASSUME NEW q, NEW st, NEW run, NEW fl, NEW gv, NEW as, NEW n, NEW b \in BOOLEAN,
           NEW q2, NEW st2, NEW run2, NEW fl2, NEW gv2,
           Sound(q, st, run, fl, gv, as, n),
           PumpRelation(q, st, run, fl, gv, b, q2, st2, run2, fl2, gv2)
    PROVE  Sound(q2, st2, run2, fl2, gv2, as, n) /\ Calm(q2, st2, run2)
<1>1. CASE b = TRUE
    BY <1>1, StartKeepsSound
<1>2. CASE b = FALSE
    BY <1>2, FailKeepsSound
<1> QED BY <1>1, <1>2
\* The pump finishes no worker.
LEMMA PumpFinishesNone ==
    ASSUME NEW q, NEW st \in [Tasks -> States], NEW run, NEW fl, NEW gv, NEW b \in BOOLEAN,
           NEW q2, NEW st2, NEW run2, NEW fl2, NEW gv2,
           PumpRelation(q, st, run, fl, gv, b, q2, st2, run2, fl2, gv2),
           NEW t \in Tasks, st2[t] = "done"
    PROVE  st[t] = "done"
BY Zenon DEF PumpRelation

-----------------------------------------------------------------------------
(* The inductive invariant.                                                *)

SInv ==
    /\ TypeOK
    /\ Sound(queue, state, running, inFlight, given, atSpawn, spawned)
    /\ Calm(queue, state, running)
    /\ DoneNeedsEvidence

\* What an operation that ends in the pump owes the invariant.
LEMMA PumpedStep ==
    ASSUME NEW q, NEW st, NEW run, NEW fl, NEW b \in BOOLEAN,
           Sound(q, st, run, fl, given, atSpawn', spawned'),
           Pump(q, st, run, fl, b)
    PROVE  /\ Sound(queue', state', running', inFlight', given', atSpawn', spawned')
           /\ Calm(queue', state', running')
           /\ \A t \in Tasks : state'[t] = "done" => st[t] = "done"
<1>1. PumpRelation(q, st, run, fl, given, b, queue', state', running', inFlight', given')
    BY DEF Pump, StartQueued, FailQueued, PumpRelation
<1>2. /\ Sound(queue', state', running', inFlight', given', atSpawn', spawned')
      /\ Calm(queue', state', running')
    BY <1>1, PumpKeepsSound
<1>3. st \in [Tasks -> States]
    BY DEF Sound
<1>4. \A t \in Tasks : state'[t] = "done" => st[t] = "done"
    BY <1>1, <1>3, PumpFinishesNone
<1> QED BY <1>2, <1>4

LEMMA SoundTypes ==
    ASSUME Sound(queue, state, running, inFlight, given, atSpawn, spawned)
    PROVE  /\ queue \in Seq(QueueItem) /\ state \in [Tasks -> States]
           /\ inFlight \subseteq Tasks /\ running \in Nat
           /\ given \in [Tasks -> Mandates] /\ atSpawn \in [Tasks -> Mandates]
           /\ spawned \in 0..MaxTasks
BY TasksFinite, FS_Subset, FS_CardinalityType DEF Sound

LEMMA InitHolds == Init => SInv
<1> SUFFICES ASSUME Init PROVE SInv
    OBVIOUS
<1>1. 0 \in 0..MaxTasks /\ 0 \in Mandates
    BY TasksAssumption, MandateAssumption DEF Mandates
<1>2. TypeOK
  <2>1. queue \in Seq(QueueItem)
      BY EmptySeq DEF Init
  <2>2. /\ state \in [Tasks -> States] /\ evidence \in [Tasks -> Evidence]
        /\ incomplete \in [Tasks -> BOOLEAN]
      BY DEF Init, States, Evidence
  <2>3. /\ running \in Nat /\ inFlight \subseteq Tasks /\ aborted \subseteq Tasks
        /\ bound \in BOOLEAN /\ spawned \in 0..MaxTasks /\ mandate \in Mandates
      BY <1>1 DEF Init
  <2>4. atSpawn \in [Tasks -> Mandates] /\ given \in [Tasks -> Mandates]
      BY <1>1 DEF Init
  <2> QED BY <2>1, <2>2, <2>3, <2>4 DEF TypeOK
<1>3. Cardinality({}) = 0 /\ 0 <= Concurrency
    BY FS_EmptySet, ConcurrencyAssumption
<1>4. Sound(queue, state, running, inFlight, given, atSpawn, spawned)
  <2>1. Len(queue) = 0 /\ 1..Len(queue) = {}
      BY DEF Init
  <2>2. \A t \in Tasks : state[t] = "none"
      BY DEF Init
  <2>3. running = Cardinality(inFlight) /\ running <= Concurrency /\ inFlight = {}
      BY <1>3 DEF Init
  <2> QED BY <1>2, <2>1, <2>2, <2>3 DEF Sound, TypeOK
<1>5. Calm(queue, state, running)
    BY DEF Init, Calm
<1>6. DoneNeedsEvidence
    BY DEF Init, DoneNeedsEvidence
<1> QED BY <1>2, <1>4, <1>5, <1>6 DEF SInv

\* The queue and the states a spawn hands to the pump are consistent.
LEMMA SpawnedSound ==
    ASSUME SInv, Spawn
    PROVE  Sound(Append(queue, [task |-> spawned + 1, snapshot |-> mandate]),
                 [state EXCEPT ![spawned + 1] = "queued"],
                 running, inFlight, given, atSpawn', spawned')
<1> DEFINE new == spawned + 1
           item == [task |-> new, snapshot |-> mandate]
           q == Append(queue, item)
           st == [state EXCEPT ![new] = "queued"]
<1>1. TypeOK /\ Sound(queue, state, running, inFlight, given, atSpawn, spawned)
    BY DEF SInv
<1>2. /\ spawned' = new /\ new \in Tasks /\ new \in 0..MaxTasks
      /\ spawned \in Nat
      /\ mandate \in Mandates
    BY <1>1, TasksAssumption DEF Spawn, TypeOK, Tasks
<1>3. /\ atSpawn' = [atSpawn EXCEPT ![new] = mandate]
      /\ Pump(q, st, running, inFlight, bound)
    BY <1>2 DEF Spawn
<1>4. /\ queue \in Seq(QueueItem) /\ state \in [Tasks -> States]
      /\ inFlight \subseteq Tasks /\ running \in Nat
      /\ given \in [Tasks -> Mandates] /\ atSpawn \in [Tasks -> Mandates]
    BY <1>1, SoundTypes
<1>5. Sound(q, st, running, inFlight, given, atSpawn', spawned')
  <2>1. item \in QueueItem
      BY <1>2 DEF QueueItem
  <2>2. /\ q \in Seq(QueueItem) /\ Len(q) = Len(queue) + 1
        /\ q[Len(q)] = item
        /\ \A i \in 1..Len(queue) : q[i] = queue[i]
    <3> HIDE DEF item
    <3> QED BY <1>4, <2>1
  <2>3. Len(queue) \in Nat
      BY <1>4
  <2>4. \A i \in 1..Len(queue) : queue[i].task \in Tasks /\ queue[i].task < new
    <3> TAKE i \in 1..Len(queue)
    <3>1. queue[i] \in QueueItem
        BY <1>4
    <3>2. queue[i].task \in Tasks /\ queue[i].task <= spawned
        BY <1>1, <3>1 DEF Sound, QueueItem
    <3> QED BY <3>2, <1>2 DEF Tasks
  <2>5. \A t \in inFlight : t \in Tasks /\ t < new
    <3> TAKE t \in inFlight
    <3>1. t \in Tasks /\ t <= spawned
        BY <1>1, <1>4 DEF Sound
    <3> QED BY <3>1, <1>2 DEF Tasks
  <2>6. st \in [Tasks -> States] /\ atSpawn' \in [Tasks -> Mandates]
      BY <1>2, <1>3, <1>4 DEF States
  <2>7. \A t \in Tasks : t # new => st[t] = state[t] /\ atSpawn'[t] = atSpawn[t]
      BY <1>3, <1>4
  <2>8. st[new] = "queued" /\ atSpawn'[new] = mandate
      BY <1>2, <1>3, <1>4
  <2> HIDE DEF new, st, q
  <2>9. \A i \in 1..Len(q) :
            /\ st[q[i].task] \in {"queued", "killed"}
            /\ q[i].task \notin inFlight
            /\ q[i].task <= spawned'
            /\ q[i].snapshot = atSpawn'[q[i].task]
    <3> TAKE i \in 1..Len(q)
    <3>1. CASE i \in 1..Len(queue)
      <4>1. q[i] = queue[i] /\ queue[i].task \in Tasks /\ queue[i].task < new
          BY <3>1, <2>2, <2>4
      <4>2. queue[i].task # new /\ queue[i].task <= new
          BY <4>1, <1>2 DEF Tasks
      <4>3. /\ state[queue[i].task] \in {"queued", "killed"}
            /\ queue[i].task \notin inFlight
            /\ queue[i].snapshot = atSpawn[queue[i].task]
          BY <1>1, <3>1 DEF Sound
      <4> QED BY <4>1, <4>2, <4>3, <2>7, <1>2
    <3>2. CASE i = Len(q)
      <4>1. q[i].task = new /\ q[i].snapshot = mandate
          BY <3>2, <2>2
      <4>2. new \notin inFlight
          BY <2>5, <1>2 DEF Tasks
      <4>3. new <= new
          BY <1>2 DEF Tasks
      <4> QED BY <4>1, <4>2, <4>3, <2>8, <1>2
    <3> QED BY <3>1, <3>2, <2>2, <2>3
  <2>10. \A i, j \in 1..Len(q) : i < j => q[i].task < q[j].task
    <3> TAKE i, j \in 1..Len(q)
    <3> HAVE i < j
    <3>1. i \in 1..Len(queue)
        BY <2>2, <2>3
    <3>2. CASE j \in 1..Len(queue)
        BY <3>1, <3>2, <2>2, <1>1 DEF Sound
    <3>3. CASE j = Len(q)
        BY <3>1, <3>3, <2>2, <2>4
    <3> QED BY <3>2, <3>3, <2>2, <2>3
  <2>11. \A t \in Tasks : st[t] = "queued" => \E i \in 1..Len(q) : q[i].task = t
    <3> TAKE t \in Tasks
    <3> HAVE st[t] = "queued"
    <3>1. CASE t = new
      <4>1. Len(q) \in 1..Len(q) /\ q[Len(q)].task = t
          BY <3>1, <2>2, <2>3
      <4> QED BY <4>1
    <3>2. CASE t # new
      <4>1. PICK i \in 1..Len(queue) : queue[i].task = t
          BY <3>2, <2>7, <1>1 DEF Sound
      <4>2. i \in 1..Len(q) /\ q[i].task = t
          BY <4>1, <2>2, <2>3
      <4> QED BY <4>2
    <3> QED BY <3>1, <3>2
  <2>12. \A t \in inFlight : st[t] \in {"running", "killed"} /\ given[t] = atSpawn'[t] /\ t <= spawned'
    <3> TAKE t \in inFlight
    <3>1. t # new /\ t <= new
        BY <2>5, <1>2 DEF Tasks
    <3>2. state[t] \in {"running", "killed"} /\ given[t] = atSpawn[t]
        BY <1>1 DEF Sound
    <3> QED BY <3>1, <3>2, <2>5, <2>7, <1>2
  <2>13. \A t \in Tasks : st[t] = "running" => t \in inFlight
      BY <2>7, <2>8, <1>1 DEF Sound
  <2>14. \A t \in Tasks : t > spawned' => st[t] = "none"
    <3> TAKE t \in Tasks
    <3> HAVE t > spawned'
    <3>1. t # new /\ t > spawned
        BY <1>2 DEF Tasks, new
    <3> QED BY <3>1, <2>7, <1>1 DEF Sound
  <2>15. running = Cardinality(inFlight) /\ running <= Concurrency
      BY <1>1 DEF Sound
  <2> QED BY <1>2, <1>4, <2>2, <2>6, <2>9, <2>10, <2>11, <2>12, <2>13, <2>14, <2>15 DEF Sound
<1> QED BY <1>5

LEMMA SpawnStep == SInv /\ Spawn => SInv'
<1> SUFFICES ASSUME SInv, Spawn PROVE SInv'
    OBVIOUS
<1> DEFINE new == spawned + 1
           item == [task |-> new, snapshot |-> mandate]
           q == Append(queue, item)
           st == [state EXCEPT ![new] = "queued"]
<1>1. TypeOK /\ Sound(queue, state, running, inFlight, given, atSpawn, spawned)
    BY DEF SInv
<1>2. /\ spawned' = new /\ new \in Tasks /\ new \in 0..MaxTasks
      /\ spawned \in Nat
      /\ mandate \in Mandates
    BY <1>1, TasksAssumption DEF Spawn, TypeOK, Tasks
<1>3. /\ atSpawn' = [atSpawn EXCEPT ![new] = mandate]
      /\ Pump(q, st, running, inFlight, bound)
    BY <1>2 DEF Spawn
<1>4. /\ queue \in Seq(QueueItem) /\ state \in [Tasks -> States]
      /\ inFlight \subseteq Tasks /\ running \in Nat
      /\ given \in [Tasks -> Mandates] /\ atSpawn \in [Tasks -> Mandates]
    BY <1>1, SoundTypes
<1>5. Sound(q, st, running, inFlight, given, atSpawn', spawned')
    BY SpawnedSound
<1>6. bound \in BOOLEAN
    BY <1>1 DEF TypeOK
<1>7. /\ Sound(queue', state', running', inFlight', given', atSpawn', spawned')
      /\ Calm(queue', state', running')
      /\ \A t \in Tasks : state'[t] = "done" => st[t] = "done"
  <2> HIDE DEF q, st
  <2> QED BY <1>3, <1>5, <1>6, PumpedStep
<1>8. TypeOK'
  <2>1. /\ queue' \in Seq(QueueItem) /\ state' \in [Tasks -> States]
        /\ inFlight' \subseteq Tasks /\ running' \in Nat
        /\ given' \in [Tasks -> Mandates] /\ atSpawn' \in [Tasks -> Mandates]
        /\ spawned' \in 0..MaxTasks
      BY <1>7, TasksFinite, FS_Subset, FS_CardinalityType DEF Sound
  <2> QED BY <2>1, <1>1 DEF TypeOK, Spawn
<1>9. DoneNeedsEvidence'
  <2>1. \A t \in Tasks : state'[t] = "done" => state[t] = "done"
      BY <1>7, <1>4, <1>2
  <2> QED BY <2>1 DEF SInv, DoneNeedsEvidence, Satisfied, Spawn
<1> QED BY <1>7, <1>8, <1>9 DEF SInv

LEMMA SetRunnerStep ==
    ASSUME NEW b \in BOOLEAN, SInv, SetRunner(b)
    PROVE  SInv'
<1>1. TypeOK /\ Sound(queue, state, running, inFlight, given, atSpawn, spawned)
    BY DEF SInv
<1>2. /\ Sound(queue, state, running, inFlight, given, atSpawn', spawned')
      /\ Pump(queue, state, running, inFlight, b)
    BY <1>1 DEF SetRunner
<1>3. /\ Sound(queue', state', running', inFlight', given', atSpawn', spawned')
      /\ Calm(queue', state', running')
      /\ \A t \in Tasks : state'[t] = "done" => state[t] = "done"
    BY <1>2, PumpedStep
<1>4. TypeOK'
  <2>1. /\ queue' \in Seq(QueueItem) /\ state' \in [Tasks -> States]
        /\ inFlight' \subseteq Tasks /\ running' \in Nat
        /\ given' \in [Tasks -> Mandates] /\ atSpawn' \in [Tasks -> Mandates]
        /\ spawned' \in 0..MaxTasks
      BY <1>3, TasksFinite, FS_Subset, FS_CardinalityType DEF Sound
  <2> QED BY <2>1, <1>1 DEF TypeOK, SetRunner, recordVars
<1>5. DoneNeedsEvidence'
    BY <1>3 DEF SInv, DoneNeedsEvidence, Satisfied, SetRunner, recordVars
<1> QED BY <1>3, <1>4, <1>5 DEF SInv

LEMMA KillStep ==
    ASSUME NEW x \in Tasks, SInv, Kill(x)
    PROVE  SInv'
<1>1. TypeOK /\ Sound(queue, state, running, inFlight, given, atSpawn, spawned)
    BY DEF SInv
<1>2. /\ state' = [state EXCEPT ![x] = "killed"] /\ state[x] \in {"queued", "running"}
      /\ state' \in [Tasks -> States]
    BY <1>1 DEF Kill, TypeOK, States
<1>3. \A t \in Tasks : t # x => state'[t] = state[t]
    BY <1>1, <1>2 DEF TypeOK
<1>4. state'[x] = "killed"
    BY <1>1, <1>2 DEF TypeOK
<1>5. UNCHANGED <<queue, running, inFlight, given, atSpawn, spawned>>
    BY DEF Kill
<1>6. \A i \in 1..Len(queue) : queue[i].task \in Tasks
  <2>1. \A i \in 1..Len(queue) : queue[i] \in QueueItem
      BY <1>1 DEF TypeOK
  <2> QED BY <2>1 DEF QueueItem
<1>7. Sound(queue', state', running', inFlight', given', atSpawn', spawned')
  <2>1. \A i \in 1..Len(queue) : state'[queue[i].task] \in {"queued", "killed"}
      BY <1>1, <1>3, <1>4, <1>6 DEF Sound
  <2>2. \A t \in Tasks : state'[t] = "queued" => \E i \in 1..Len(queue) : queue[i].task = t
      BY <1>1, <1>3, <1>4 DEF Sound
  <2>3. \A t \in inFlight : state'[t] \in {"running", "killed"}
      BY <1>1, <1>3, <1>4 DEF Sound
  <2>4. /\ \A t \in Tasks : state'[t] = "running" => t \in inFlight
        /\ \A t \in Tasks : t > spawned => state'[t] = "none"
      BY <1>1, <1>2, <1>3, <1>4 DEF Sound
  <2> QED BY <1>1, <1>2, <1>5, <2>1, <2>2, <2>3, <2>4 DEF Sound
<1>8. Calm(queue', state', running')
    BY <1>3, <1>4, <1>5, <1>6 DEF SInv, Calm
<1>9. TypeOK'
    BY <1>1, <1>2, <1>5 DEF TypeOK, Kill, recordVars
<1>10. DoneNeedsEvidence'
    BY <1>3, <1>4 DEF SInv, DoneNeedsEvidence, Satisfied, Kill, recordVars
<1> QED BY <1>7, <1>8, <1>9, <1>10 DEF SInv

LEMMA CompleteStep ==
    ASSUME NEW x \in Tasks, NEW e \in Evidence, SInv, Complete(x, e)
    PROVE  SInv'
<1>1. UNCHANGED <<pumpVars, atSpawn, spawned>>
    BY DEF Complete
<1>2. TypeOK'
    BY DEF SInv, TypeOK, Complete, pumpVars, Satisfied
<1>3. DoneNeedsEvidence'
    BY DEF SInv, TypeOK, Complete, pumpVars, DoneNeedsEvidence, Satisfied
<1>4. /\ Sound(queue', state', running', inFlight', given', atSpawn', spawned')
      /\ Calm(queue', state', running')
    BY <1>1 DEF SInv, pumpVars
<1> QED BY <1>2, <1>3, <1>4 DEF SInv

\* So are the states and slots a settlement hands to it.
LEMMA SettledSound ==
    ASSUME NEW x \in Tasks, NEW v \in {"done", "failed"}, SInv, Settle(x, v)
    PROVE  Sound(queue, [state EXCEPT ![x] = Verdict(x, v)], running - 1, inFlight \ {x},
                 given, atSpawn', spawned')
<1> DEFINE st == [state EXCEPT ![x] = Verdict(x, v)]
           fl == inFlight \ {x}
<1>1. TypeOK /\ Sound(queue, state, running, inFlight, given, atSpawn, spawned)
    BY DEF SInv
<1>2. /\ x \in inFlight
      /\ Pump(queue, st, running - 1, fl, bound)
      /\ UNCHANGED <<evidence, aborted, bound, spawned, mandate, atSpawn>>
    BY DEF Settle
<1>3. /\ st \in [Tasks -> States]
      /\ st[x] \in {"done", "failed", "killed"}
      /\ \A t \in Tasks : t # x => st[t] = state[t]
    BY <1>1 DEF TypeOK, Verdict, States
<1>4. \A i \in 1..Len(queue) : queue[i].task \in Tasks /\ queue[i].task # x
  <2>1. \A i \in 1..Len(queue) : queue[i] \in QueueItem
      BY <1>1 DEF TypeOK
  <2> QED BY <2>1, <1>1, <1>2 DEF QueueItem, Sound
<1>5. running - 1 = Cardinality(fl) /\ running - 1 <= Concurrency /\ fl \subseteq Tasks
  <2>1. IsFiniteSet(inFlight)
      BY <1>1, TasksFinite, FS_Subset DEF TypeOK
  <2>2. Cardinality(fl) = Cardinality(inFlight) - 1
      BY <2>1, <1>2, FS_RemoveElement
  <2>3. running = Cardinality(inFlight) /\ running <= Concurrency /\ running \in Nat
      BY <1>1 DEF Sound, TypeOK
  <2> QED BY <2>2, <2>3, <1>1, ConcurrencyAssumption DEF TypeOK
<1>6. Sound(queue, st, running - 1, fl, given, atSpawn', spawned')
  <2> HIDE DEF st
  <2>1. \A i \in 1..Len(queue) :
            /\ st[queue[i].task] \in {"queued", "killed"}
            /\ queue[i].task \notin fl
            /\ queue[i].task <= spawned
            /\ queue[i].snapshot = atSpawn[queue[i].task]
      BY <1>1, <1>3, <1>4 DEF Sound
  <2>2. \A i, j \in 1..Len(queue) : i < j => queue[i].task < queue[j].task
      BY <1>1 DEF Sound
  <2>3. \A t \in Tasks : st[t] = "queued" => \E i \in 1..Len(queue) : queue[i].task = t
      BY <1>1, <1>3 DEF Sound
  <2>4. \A t \in fl : st[t] \in {"running", "killed"} /\ given[t] = atSpawn[t] /\ t <= spawned
      BY <1>1, <1>3, <1>5 DEF Sound
  <2>5. \A t \in Tasks : st[t] = "running" => t \in fl
      BY <1>1, <1>3 DEF Sound
  <2>6. \A t \in Tasks : t > spawned => st[t] = "none"
    <3> TAKE t \in Tasks
    <3> HAVE t > spawned
    <3>1. t # x
      <4>1. x <= spawned
          BY <1>1, <1>2 DEF Sound
      <4> QED BY <4>1, <1>1 DEF Tasks, TypeOK
    <3> QED BY <3>1, <1>1, <1>3 DEF Sound
  <2>7. /\ queue \in Seq(QueueItem) /\ spawned \in 0..MaxTasks
        /\ given \in [Tasks -> Mandates] /\ atSpawn \in [Tasks -> Mandates]
      BY <1>1 DEF TypeOK
  <2> HIDE DEF fl
  <2> QED BY <1>2, <1>3, <1>5, <2>1, <2>2, <2>3, <2>4, <2>5, <2>6, <2>7 DEF Sound
<1> QED BY <1>6

LEMMA SettleStep ==
    ASSUME NEW x \in Tasks, NEW v \in {"done", "failed"}, SInv, Settle(x, v)
    PROVE  SInv'
<1> DEFINE st == [state EXCEPT ![x] = Verdict(x, v)]
           fl == inFlight \ {x}
<1>1. TypeOK /\ Sound(queue, state, running, inFlight, given, atSpawn, spawned)
    BY DEF SInv
<1>2. /\ x \in inFlight
      /\ Pump(queue, st, running - 1, fl, bound)
      /\ UNCHANGED <<evidence, aborted, bound, spawned, mandate, atSpawn>>
    BY DEF Settle
<1>3. /\ st \in [Tasks -> States]
      /\ st[x] \in {"done", "failed", "killed"}
      /\ \A t \in Tasks : t # x => st[t] = state[t]
    BY <1>1 DEF TypeOK, Verdict, States
<1>4. Sound(queue, st, running - 1, fl, given, atSpawn', spawned')
    BY SettledSound
<1>7. /\ Sound(queue', state', running', inFlight', given', atSpawn', spawned')
      /\ Calm(queue', state', running')
      /\ \A t \in Tasks : state'[t] = "done" => st[t] = "done"
  <2>1. bound \in BOOLEAN
      BY <1>1 DEF TypeOK
  <2> HIDE DEF st, fl
  <2> QED BY <1>2, <1>4, <2>1, PumpedStep
<1>8. TypeOK'
  <2>1. /\ queue' \in Seq(QueueItem) /\ state' \in [Tasks -> States]
        /\ inFlight' \subseteq Tasks /\ running' \in Nat
        /\ given' \in [Tasks -> Mandates] /\ atSpawn' \in [Tasks -> Mandates]
        /\ spawned' \in 0..MaxTasks
      BY <1>7, TasksFinite, FS_Subset, FS_CardinalityType DEF Sound
  <2>2. incomplete' \in [Tasks -> BOOLEAN]
      BY <1>1 DEF TypeOK, Settle, Gate, Satisfied
  <2> QED BY <2>1, <2>2, <1>1, <1>2 DEF TypeOK
<1>9. DoneNeedsEvidence'
  <2> SUFFICES ASSUME NEW t \in Tasks, state'[t] = "done", ~incomplete'[t]
               PROVE  Satisfied(evidence[t])
      BY <1>2 DEF DoneNeedsEvidence, Satisfied
  <2>1. st[t] = "done"
      BY <1>7
  <2>2. CASE t = x
    <3>1. v = "done" /\ state[x] # "killed"
        BY <2>1, <2>2, <1>1 DEF Verdict, TypeOK
    <3>2. incomplete'[x] = Gate(x)
        BY <3>1, <1>1 DEF Settle, TypeOK
    <3> QED BY <3>2, <2>2 DEF Gate
  <2>3. CASE t # x
    <3>1. state[t] = "done" /\ incomplete'[t] = incomplete[t]
        BY <2>1, <2>3, <1>1 DEF Settle, TypeOK
    <3> QED BY <3>1 DEF SInv, DoneNeedsEvidence
  <2> QED BY <2>2, <2>3
<1> QED BY <1>7, <1>8, <1>9 DEF SInv

LEMMA ChangeMandateStep == SInv /\ ChangeMandate => SInv'
<1> SUFFICES ASSUME SInv, ChangeMandate PROVE SInv'
    OBVIOUS
<1>1. mandate' \in Mandates
    BY MandateAssumption DEF SInv, TypeOK, ChangeMandate, Mandates
<1>2. TypeOK'
    BY <1>1 DEF SInv, TypeOK, ChangeMandate, pumpVars, recordVars
<1>3. /\ Sound(queue', state', running', inFlight', given', atSpawn', spawned')
      /\ Calm(queue', state', running')
      /\ DoneNeedsEvidence'
    BY DEF SInv, ChangeMandate, pumpVars, recordVars, DoneNeedsEvidence, Satisfied
<1> QED BY <1>2, <1>3 DEF SInv

LEMMA StutterStep == SInv /\ UNCHANGED vars => SInv'
BY DEF SInv, TypeOK, DoneNeedsEvidence, Satisfied, vars, pumpVars, recordVars

\* Every operation keeps the invariant.
LEMMA NextStep == SInv /\ [Next]_vars => SInv'
<1> SUFFICES ASSUME SInv, [Next]_vars PROVE SInv'
    OBVIOUS
<1>1. CASE Spawn
    BY <1>1, SpawnStep
<1>2. ASSUME NEW b \in BOOLEAN, SetRunner(b) PROVE SInv'
    BY <1>2, SetRunnerStep
<1>3. ASSUME NEW t \in Tasks, Kill(t) PROVE SInv'
    BY <1>3, KillStep
<1>4. ASSUME NEW t \in Tasks, NEW e \in Evidence \ {"none"}, Complete(t, e) PROVE SInv'
    BY <1>4, CompleteStep
<1>5. ASSUME NEW t \in Tasks, NEW v \in {"done", "failed"}, Settle(t, v) PROVE SInv'
    BY <1>5, SettleStep
<1>6. CASE ChangeMandate
    BY <1>6, ChangeMandateStep
<1>7. CASE UNCHANGED vars
    BY <1>7, StutterStep
<1> QED BY <1>1, <1>2, <1>3, <1>4, <1>5, <1>6, <1>7 DEF Next

LEMMA Invariant == Spec => []SInv
<1>1. Init => SInv
    BY InitHolds
<1>2. SInv /\ [Next]_vars => SInv'
    BY NextStep
<1> QED BY <1>1, <1>2, PTL DEF Spec

-----------------------------------------------------------------------------
(* Theorems.                                                               *)

\* Every variable of the scheduler keeps its type: above all, the slot counter
\* is never driven below zero by a kill and a settlement of the same worker.
THEOREM TypeCorrect == Spec => []TypeOK
<1>1. SInv => TypeOK
    BY DEF SInv
<1> QED BY <1>1, Invariant, PTL

\* The slot counter is the number of workers in flight and never above the
\* effective concurrency, for any number of tasks and slots.
THEOREM SlotsSafe == Spec => []SlotsAccounted
<1>1. SInv => SlotsAccounted
    BY DEF SInv, Sound, SlotsAccounted
<1> QED BY <1>1, Invariant, PTL

\* No queued task waits beside a free slot: every operation that could free a
\* slot or fill the queue leaves the pump's work done.
THEOREM NoTaskBesideFreeSlot == Spec => []NoIdleSlot
<1>1. SInv => NoIdleSlot
  <2> SUFFICES ASSUME SInv PROVE NoIdleSlot
      OBVIOUS
  <2>1. DOMAIN queue = 1..Len(queue)
      BY DEF SInv, TypeOK
  <2> QED BY <2>1 DEF SInv, Calm, NoIdleSlot
<1> QED BY <1>1, Invariant, PTL

\* A worker runs under the mandate of its spawn, whatever the operator changed
\* while it waited in the queue.
THEOREM Isolation == Spec => []SiblingIsolation
<1>1. SInv => SiblingIsolation
    BY DEF SInv, Sound, SiblingIsolation
<1> QED BY <1>1, Invariant, PTL

\* A worker that is done and not marked incomplete has sufficient evidence.
THEOREM EvidenceGates == Spec => []DoneNeedsEvidence
<1>1. SInv => DoneNeedsEvidence
    BY DEF SInv
<1> QED BY <1>1, Invariant, PTL

-----------------------------------------------------------------------------
(* The scheduler implements the pool.                                      *)

\* Whom the pump admits: queued tasks, none before one that still waits, and
\* exactly those get a slot.  Beside them it only fails queued tasks.
LEMMA PumpAdmits ==
    ASSUME NEW q, NEW st, NEW run, NEW fl, NEW gv, NEW as, NEW n, NEW b \in BOOLEAN,
           NEW q2, NEW st2, NEW run2, NEW fl2, NEW gv2,
           Sound(q, st, run, fl, gv, as, n),
           PumpRelation(q, st, run, fl, gv, b, q2, st2, run2, fl2, gv2)
    PROVE  /\ \A t \in Tasks :
                 \/ st2[t] = st[t]
                 \/ st[t] = "queued" /\ st2[t] \in {"running", "failed"}
           /\ fl2 = fl \cup {t \in Tasks : st[t] = "queued" /\ st2[t] = "running"}
           /\ \A t, u \in Tasks :
                 st[t] = "queued" /\ st2[t] = "running" /\ u < t => st2[u] # "queued"
<1>1. /\ q \in Seq(QueueItem) /\ st \in [Tasks -> States] /\ fl \subseteq Tasks
      /\ \A i \in 1..Len(q) : st[q[i].task] \in {"queued", "killed"}
      /\ \A i, j \in 1..Len(q) : i < j => q[i].task < q[j].task
      /\ \A t \in Tasks : st[t] = "queued" => \E i \in 1..Len(q) : q[i].task = t
    BY DEF Sound
<1>2. run \in Nat /\ run <= Concurrency
  <2>1. run = Cardinality(fl) /\ run <= Concurrency
      BY DEF Sound
  <2> QED BY <2>1, <1>1, TasksFinite, FS_Subset, FS_CardinalityType
<1>3. \A i \in 1..Len(q) : q[i].task \in Tasks
  <2>1. \A i \in 1..Len(q) : q[i] \in QueueItem
      BY <1>1
  <2> QED BY <2>1 DEF QueueItem
<1>4. ASSUME NEW k \in 0..Len(q)
      PROVE  \A t \in Live(q, st, k) : /\ t \in Tasks /\ st[t] = "queued"
                                       /\ \E i \in 1..k : q[i].task = t
  <2> SUFFICES ASSUME NEW t \in Live(q, st, k)
               PROVE  t \in Tasks /\ st[t] = "queued" /\ \E i \in 1..k : q[i].task = t
      OBVIOUS
  <2>1. PICK i \in 1..k : t = q[i].task /\ st[q[i].task] # "killed"
      BY DEF Live
  <2>2. i \in 1..Len(q)
      OBVIOUS
  <2> QED BY <2>1, <2>2, <1>1, <1>3
<1>5. CASE b = TRUE
  <2> DEFINE k == Shifted(q, st, Concurrency - run)
             started == Live(q, st, k)
  <2>1. /\ st2 = [t \in Tasks |-> IF t \in started THEN "running" ELSE st[t]]
        /\ fl2 = fl \cup started
      BY <1>5 DEF PumpRelation
  <2>2. k \in 0..Len(q)
    <3>1. Concurrency - run \in Nat
        BY <1>2, ConcurrencyAssumption
    <3> QED BY <3>1, <1>1, ShiftedFacts
  <2> HIDE DEF k
  <2>3. \A t \in started : /\ t \in Tasks /\ st[t] = "queued"
                           /\ \E i \in 1..k : q[i].task = t
      BY <2>2, <1>4
  <2>4. ASSUME NEW t \in started, NEW u \in Tasks, u < t, st2[u] = "queued"
        PROVE  FALSE
    <3> HIDE DEF started
    <3>1. u \notin started /\ st[u] = "queued"
        BY <2>1, <2>4
    <3>2. PICK i \in 1..k : q[i].task = t
        BY <2>3
    <3>3. PICK j \in 1..Len(q) : q[j].task = u
        BY <3>1, <1>1
    <3>4. t \in Nat /\ u \in Nat /\ i \in 1..Len(q)
        BY <2>2, <2>3 DEF Tasks
    <3>5. ~(i < j) /\ i # j
        BY <1>1, <2>4, <3>2, <3>3, <3>4
    <3>6. j \in 1..k
        BY <2>2, <3>5
    <3>7. u \in started
        BY <3>1, <3>3, <3>6 DEF started, Live
    <3> QED BY <3>1, <3>7
  <2> HIDE DEF started
  <2>5. started = {t \in Tasks : st[t] = "queued" /\ st2[t] = "running"}
      BY <2>1, <2>3
  <2> QED BY <2>1, <2>3, <2>4, <2>5
<1>6. CASE b = FALSE
  <2> DEFINE k == IF run < Concurrency THEN Len(q) ELSE 0
             gone == Live(q, st, k)
  <2>1. /\ st2 = [t \in Tasks |-> IF t \in gone THEN "failed" ELSE st[t]]
        /\ fl2 = fl
      BY <1>6 DEF PumpRelation
  <2>2. k \in 0..Len(q)
      BY <1>1
  <2> HIDE DEF k
  <2>3. \A t \in gone : t \in Tasks /\ st[t] = "queued"
      BY <2>2, <1>4
  <2> HIDE DEF gone
  <2>4. {t \in Tasks : st[t] = "queued" /\ st2[t] = "running"} = {}
      BY <2>1
  <2> QED BY <2>1, <2>3, <2>4
<1> QED BY <1>5, <1>6

\* The moves of the pool, spelt out.
LEMMA PoolMoves ==
    \A a, b : <<a, b>> \in Pool!Moves <=>
        \/ a = "none" /\ b \in {"queued", "running", "failed"}
        \/ a = "queued" /\ b \in {"running", "failed", "killed"}
        \/ a = "running" /\ b \in {"done", "failed", "killed"}
BY DEF Pool!Moves, Pool!Verdicts

\* The pool counts as the scheduler does.
LEMMA PoolCardinality == \A S : Pool!Cardinality(S) = Cardinality(S)
BY Zenon DEF Pool!Cardinality, Cardinality

\* The tasks whose first move was made before the pump: a spawn or a verdict.
Prepared(st, freed) ==
    /\ freed \in {{}} \cup {{t} : t \in inFlight}
    /\ \A t \in Tasks :
          \/ st[t] = state[t]
          \/ state[t] = "none" /\ st[t] = "queued"
          \/ state[t] = "running" /\ st[t] \in {"done", "failed"}

\* What an operation that ends in the pump does is a step of the pool.
LEMMA PumpedPool ==
    ASSUME NEW q, NEW st, NEW run, NEW fl, NEW b \in BOOLEAN, NEW freed,
           Sound(q, st, run, fl, given, atSpawn', spawned'),
           Pump(q, st, run, fl, b),
           Prepared(st, freed), fl = inFlight \ freed
    PROVE  Pool!PoolStep
<1>1. PumpRelation(q, st, run, fl, given, b, queue', state', running', inFlight', given')
    BY DEF Pump, StartQueued, FailQueued, PumpRelation
<1>2. /\ \A t \in Tasks :
            \/ state'[t] = st[t]
            \/ st[t] = "queued" /\ state'[t] \in {"running", "failed"}
      /\ inFlight' = fl \cup {t \in Tasks : st[t] = "queued" /\ state'[t] = "running"}
      /\ \A t, u \in Tasks :
            st[t] = "queued" /\ state'[t] = "running" /\ u < t => state'[u] # "queued"
    BY <1>1, PumpAdmits
<1>3. Cardinality(inFlight') <= Concurrency
  <2>1. Sound(queue', state', running', inFlight', given', atSpawn', spawned')
      BY PumpedStep
  <2> QED BY <2>1 DEF Sound
<1>4. Pool!PoolTasks = Tasks
    BY DEF Pool!PoolTasks, Tasks
<1>5. ASSUME NEW t \in Tasks
      PROVE  Pool!Admitted(t) <=> st[t] = "queued" /\ state'[t] = "running"
    BY <1>2 DEF Prepared, Pool!Admitted, Pool!Moved
<1>6. ASSUME NEW t \in Tasks, Pool!Moved(t)
      PROVE  <<state[t], state'[t]>> \in Pool!Moves
  <2>1. \/ state[t] = "none" /\ state'[t] \in {"queued", "running", "failed"}
        \/ state[t] = "queued" /\ state'[t] \in {"running", "failed", "killed"}
        \/ state[t] = "running" /\ state'[t] \in {"done", "failed", "killed"}
      BY <1>2, <1>6 DEF Prepared, Pool!Moved
  <2> QED BY <2>1, PoolMoves
<1>7. Pool!InOrder
    BY <1>2, <1>4, <1>5 DEF Pool!InOrder
<1>8. inFlight' = (inFlight \ freed) \cup {t \in Pool!PoolTasks : Pool!Admitted(t)}
    BY <1>2, <1>4, <1>5
<1>9. \E f \in {{}} \cup {{t} : t \in inFlight} :
         inFlight' = (inFlight \ f) \cup {t \in Pool!PoolTasks : Pool!Admitted(t)}
    BY <1>8 DEF Prepared
<1>10. \A t \in Pool!PoolTasks : Pool!Moved(t) => <<state[t], state'[t]>> \in Pool!Moves
    BY <1>4, <1>6
<1> QED BY <1>3, <1>7, <1>9, <1>10, PoolCardinality, Zenon DEF Pool!PoolStep

\* A step that frees no slot, and only kills, is one of the pool as well.
LEMMA QuietPool ==
    ASSUME SInv, inFlight' = inFlight,
           \A t \in Tasks :
              \/ state'[t] = state[t]
              \/ state[t] \in {"queued", "running"} /\ state'[t] = "killed"
    PROVE  Pool!PoolStep
<1>1. Pool!PoolTasks = Tasks
    BY DEF Pool!PoolTasks, Tasks
<1>2. \A t \in Tasks : ~Pool!Admitted(t)
    BY DEF Pool!Admitted, Pool!Moved
<1>3. \A t \in Pool!PoolTasks : Pool!Moved(t) => <<state[t], state'[t]>> \in Pool!Moves
    BY <1>1, PoolMoves DEF Pool!Moved
<1>4. Pool!InOrder
    BY <1>1, <1>2 DEF Pool!InOrder
<1>5. inFlight' = (inFlight \ {}) \cup {t \in Pool!PoolTasks : Pool!Admitted(t)}
    BY <1>1, <1>2
<1>6. \E f \in {{}} \cup {{t} : t \in inFlight} :
         inFlight' = (inFlight \ f) \cup {t \in Pool!PoolTasks : Pool!Admitted(t)}
    BY <1>5
<1>7. Cardinality(inFlight') <= Concurrency
  <2>1. Cardinality(inFlight) <= Concurrency
      BY DEF SInv, Sound
  <2> QED BY <2>1
<1> QED BY <1>3, <1>4, <1>6, <1>7, PoolCardinality, Zenon DEF Pool!PoolStep

LEMMA SpawnInPool == SInv /\ Spawn => Pool!PoolStep
<1> SUFFICES ASSUME SInv, Spawn PROVE Pool!PoolStep
    OBVIOUS
<1> DEFINE new == spawned + 1
           st == [state EXCEPT ![new] = "queued"]
           q == Append(queue, [task |-> new, snapshot |-> mandate])
<1>1. TypeOK /\ Sound(queue, state, running, inFlight, given, atSpawn, spawned)
    BY DEF SInv
<1>2. Sound(q, st, running, inFlight, given, atSpawn', spawned')
    BY SpawnedSound
<1>3. Pump(q, st, running, inFlight, bound) /\ spawned < MaxTasks
    BY DEF Spawn
<1>4. bound \in BOOLEAN /\ inFlight = inFlight \ {}
    BY <1>1 DEF TypeOK
<1>5. Prepared(st, {})
  <2>1. new \in Tasks /\ new > spawned
      BY <1>1, <1>3, TasksAssumption DEF TypeOK, Tasks
  <2>2. state[new] = "none"
      BY <1>1, <2>1 DEF Sound
  <2> QED BY <1>1, <2>1, <2>2 DEF Prepared, TypeOK
<1> HIDE DEF st, q
<1> QED BY <1>2, <1>3, <1>4, <1>5, PumpedPool

LEMMA SettleInPool ==
    ASSUME NEW x \in Tasks, NEW v \in {"done", "failed"}, SInv, Settle(x, v)
    PROVE  Pool!PoolStep
<1> DEFINE st == [state EXCEPT ![x] = Verdict(x, v)]
           fl == inFlight \ {x}
<1>1. TypeOK /\ Sound(queue, state, running, inFlight, given, atSpawn, spawned)
    BY DEF SInv
<1>2. Sound(queue, st, running - 1, fl, given, atSpawn', spawned')
    BY SettledSound
<1>3. x \in inFlight /\ Pump(queue, st, running - 1, fl, bound)
    BY DEF Settle
<1>4. bound \in BOOLEAN
    BY <1>1 DEF TypeOK
<1>5. Prepared(st, {x})
  <2>1. state[x] \in {"running", "killed"}
      BY <1>1, <1>3 DEF Sound
  <2> QED BY <1>1, <1>3, <2>1 DEF Prepared, Verdict, TypeOK
<1> HIDE DEF st
<1> QED BY <1>2, <1>3, <1>4, <1>5, PumpedPool

\* Every operation of the scheduler is a step of the pool or leaves it alone.
LEMMA NextInPool == SInv /\ [Next]_vars => [Pool!PoolStep]_(Pool!poolVars)
<1> SUFFICES ASSUME SInv, [Next]_vars PROVE Pool!PoolStep \/ UNCHANGED <<state, inFlight>>
    BY DEF Pool!poolVars
<1>1. CASE Spawn
    BY <1>1, SpawnInPool
<1>2. ASSUME NEW b \in BOOLEAN, SetRunner(b) PROVE Pool!PoolStep
  <2>1. /\ Sound(queue, state, running, inFlight, given, atSpawn', spawned')
        /\ Pump(queue, state, running, inFlight, b)
      BY <1>2 DEF SetRunner, SInv
  <2>2. Prepared(state, {}) /\ inFlight = inFlight \ {}
      BY DEF Prepared
  <2> QED BY <2>1, <2>2, PumpedPool
<1>3. ASSUME NEW x \in Tasks, Kill(x) PROVE Pool!PoolStep
  <2>1. /\ inFlight' = inFlight
        /\ \A t \in Tasks :
              \/ state'[t] = state[t]
              \/ state[t] \in {"queued", "running"} /\ state'[t] = "killed"
      BY <1>3 DEF Kill, SInv, TypeOK
  <2> QED BY <2>1, QuietPool
<1>4. ASSUME NEW x \in Tasks, NEW v \in {"done", "failed"}, Settle(x, v) PROVE Pool!PoolStep
    BY <1>4, SettleInPool
<1>5. CASE \/ ChangeMandate \/ UNCHANGED vars
           \/ \E t \in Tasks, e \in Evidence \ {"none"} : Complete(t, e)
    BY <1>5 DEF ChangeMandate, Complete, vars, pumpVars
<1> QED BY <1>1, <1>2, <1>3, <1>4, <1>5 DEF Next

\* The scheduler, with its queue, counter and runner, implements the pool:
\* admission in the order of the spawns, final verdicts, and slots given back
\* by settled workers only - for every number of tasks and slots.
THEOREM ImplementsWorkerPool == Spec => ImplementsPool
<1>1. Init => Pool!PoolInit
    BY DEF Init, Pool!PoolInit, Pool!PoolTasks, Tasks
<1>2. SInv /\ [Next]_vars => [Pool!PoolStep]_(Pool!poolVars)
    BY NextInPool
<1> QED BY <1>1, <1>2, Invariant, PTL DEF Spec, ImplementsPool, Pool!PoolSpec
=============================================================================
