--------------------------- MODULE DagRunnerProofs ---------------------------
(***************************************************************************)
(* Proofs about DagRunner for every number of nodes, every plan, every cap *)
(* on workers and replans and every behaviour of the hooks: the books of   *)
(* the runner, the containment of failures, the pump and the waiting.      *)
(*                                                                         *)
(* The parts of the invariant are operators of the runner's data, so that  *)
(* they can be stated of the data a handler hands to the pump: one lemma   *)
(* about the pump (PumpFacts) then serves every handler that ends in it.   *)
(***************************************************************************)
EXTENDS DagRunner, TLAPS, FiniteSetTheorems, WellFoundedInduction

USE DEF Nodes

-----------------------------------------------------------------------------
(* Sets of nodes.                                                          *)

\* Sets of nodes are finite, and count at most N.
LEMMA Sizes ==
    ASSUME NEW S \in SUBSET Nodes
    PROVE  IsFiniteSet(S) /\ Cardinality(S) \in 0..N
  <1>1. IsFiniteSet(Nodes) /\ Cardinality(Nodes) = N
    BY NodesAssumption, FS_Interval
  <1>2. IsFiniteSet(S) /\ Cardinality(S) <= Cardinality(Nodes)
    BY <1>1, FS_Subset
  <1>3. Cardinality(S) \in Nat
    BY <1>2, FS_CardinalityType
  <1> QED
    BY <1>1, <1>2, <1>3, NodesAssumption

\* Cardinality is monotone and additive on sets of nodes.
LEMMA Inclusion ==
    ASSUME NEW S \in SUBSET Nodes, NEW T \in SUBSET S
    PROVE  /\ Cardinality(T) <= Cardinality(S)
           /\ Cardinality(T) \in Nat /\ Cardinality(S) \in Nat
  <1>1. T \in SUBSET Nodes
    OBVIOUS
  <1>2. /\ IsFiniteSet(S)
        /\ Cardinality(T) \in Nat /\ Cardinality(S) \in Nat
    BY <1>1, Sizes
  <1> QED
    BY <1>2, FS_Subset

LEMMA Disjoint ==
    ASSUME NEW S \in SUBSET Nodes, NEW T \in SUBSET Nodes, S \cap T = {}
    PROVE  Cardinality(S \cup T) = Cardinality(S) + Cardinality(T)
  <1>1. IsFiniteSet(S) /\ IsFiniteSet(T) /\ Cardinality(S) \in Nat /\ Cardinality(T) \in Nat
    BY Sizes
  <1>2. Cardinality(S \cup T) = Cardinality(S) + Cardinality(T) - Cardinality(S \cap T)
    BY <1>1, FS_Union
  <1>3. Cardinality(S \cap T) = 0
    BY FS_EmptySet
  <1> QED
    BY <1>1, <1>2, <1>3

LEMMA Without ==
    ASSUME NEW S \in SUBSET Nodes, NEW T \in SUBSET S
    PROVE  Cardinality(S \ T) = Cardinality(S) - Cardinality(T)
  <1> DEFINE R == S \ T
  <1>1. R \in SUBSET Nodes /\ T \in SUBSET Nodes /\ R \cap T = {} /\ R \cup T = S
    OBVIOUS
  <1>2. Cardinality(R) \in Nat /\ Cardinality(T) \in Nat
    BY <1>1, Sizes
  <1> HIDE DEF R
  <1>3. Cardinality(R \cup T) = Cardinality(R) + Cardinality(T)
    BY <1>1, Disjoint
  <1>4. Cardinality(R \cup T) = Cardinality(S)
    BY <1>1, Zenon
  <1>5. Cardinality(S) = Cardinality(R) + Cardinality(T)
    BY <1>3, <1>4
  <1>6. Cardinality(R) = Cardinality(S) - Cardinality(T)
    BY <1>2, <1>5
  <1> QED
    BY <1>6 DEF R

LEMMA OneNode ==
    ASSUME NEW n \in Nodes
    PROVE  Cardinality({n}) = 1
  BY FS_Singleton

\* A set of nodes that is not empty has a least and a greatest node.
LEMMA LeastNode ==
    ASSUME NEW S \in SUBSET Nodes, S # {}
    PROVE  \E n \in S : \A m \in S : n <= m
  <1>1. S \subseteq Nat
    OBVIOUS
  <1>2. PICK n \in S : \A m \in S : ~(<<m, n>> \in OpToRel(<, Nat))
    BY <1>1, WFMin, NatLessThanWellFounded
  <1>3. \A m \in S : ~(m < n)
    BY <1>1, <1>2 DEF OpToRel
  <1> QED
    BY <1>1, <1>3

LEMMA GreatestNode ==
    ASSUME NEW S \in SUBSET Nodes, S # {}
    PROVE  \E n \in S : \A m \in S : m <= n
  <1> DEFINE Mirror == {m \in Nodes : N + 1 - m \in S}
  <1>1. Mirror \in SUBSET Nodes /\ Mirror # {}
    <2>1. PICK n \in S : TRUE
      OBVIOUS
    <2>2. N + 1 - n \in Nodes /\ N + 1 - (N + 1 - n) = n
      BY NodesAssumption
    <2> QED
      BY <2>1, <2>2
  <1>2. PICK k \in Mirror : \A m \in Mirror : k <= m
    BY <1>1, LeastNode
  <1>3. \A m \in S : N + 1 - m \in Mirror
    <2> TAKE m \in S
    <2>1. N + 1 - m \in Nodes /\ N + 1 - (N + 1 - m) = m
      BY NodesAssumption
    <2> QED
      BY <2>1
  <1>4. k \in Nodes
    BY <1>2
  <1> HIDE DEF Mirror
  <1>5. \A m \in S : m <= N + 1 - k
    <2> TAKE m \in S
    <2>1. k <= N + 1 - m
      BY <1>2, <1>3
    <2> QED
      BY <1>4, <2>1, NodesAssumption
  <1>6. N + 1 - k \in S
    BY <1>2 DEF Mirror
  <1> QED
    BY <1>5, <1>6

\* What a walk reaches: nodes of ok, among them those of S and with each node
\* its neighbours in ok; and nothing that a closed set leaves out.
LEMMA ReachFacts ==
    ASSUME NEW S, NEW adj, NEW ok
    PROVE  /\ Reach(S, adj, ok) \subseteq ok
           /\ S \cap ok \subseteq Reach(S, adj, ok)
           /\ \A r \in Reach(S, adj, ok) : adj[r] \cap ok \subseteq Reach(S, adj, ok)
           /\ \A T \in SUBSET ok :
                 /\ S \cap ok \subseteq T
                 /\ \A r \in T : adj[r] \cap ok \subseteq T
                 => Reach(S, adj, ok) \subseteq T
  BY DEF Reach, Closed

\* States partition the nodes.
LEMMA States ==
    ASSUME NEW st, NEW S
    PROVE  /\ InState(st, S) \in SUBSET Nodes
           /\ \A n \in Nodes : n \in InState(st, S) <=> st[n] \in S
  BY DEF InState

-----------------------------------------------------------------------------
(* The pump.                                                               *)

\* The pump starts ready nodes, never more than there are free slots, and
\* leaves one waiting only when it has filled them.
LEMMA BegunFacts ==
    ASSUME NEW st, NEW run \in Nat, run <= Concurrency
    PROVE  /\ Begun(st, run) \subseteq InState(st, {"ready"})
           /\ run + Cardinality(Begun(st, run)) <= Concurrency
           /\ InState(st, {"ready"}) \subseteq Begun(st, run)
              \/ run + Cardinality(Begun(st, run)) >= Concurrency
  <1> DEFINE begun == Begun(st, run)
             Below(n) == {m \in 1..(n - 1) : st[m] = "ready"}
  <1>1. begun \in SUBSET Nodes /\ begun \subseteq InState(st, {"ready"})
    BY DEF Begun, InState
  <1>2. \A n \in Nodes : Below(n) \in SUBSET Nodes /\ Cardinality(Below(n)) \in Nat
    <2>1. \A n \in Nodes : Below(n) \in SUBSET Nodes
      BY NodesAssumption
    <2> QED
      BY <2>1, Sizes
  <1>3. \A n \in Nodes : n \in begun <=> st[n] = "ready" /\ run + Cardinality(Below(n)) < Concurrency
    BY DEF Begun
  <1>4. Cardinality(begun) \in Nat
    BY <1>1, Sizes
  <1> HIDE DEF begun, Below
  <1>5. run + Cardinality(begun) <= Concurrency
    <2>1. CASE begun = {}
      BY <2>1, FS_EmptySet
    <2>2. CASE begun # {}
      <3>1. PICK n \in begun : \A m \in begun : m <= n
        BY <1>1, <2>2, GreatestNode
      <3>2. begun \subseteq Below(n) \cup {n}
        BY <1>1, <3>1, NodesAssumption DEF Below, InState
      <3>3. Cardinality(Below(n) \cup {n}) = Cardinality(Below(n)) + 1
        <4>1. n \notin Below(n) /\ {n} \in SUBSET Nodes
          BY <1>1, <3>1 DEF Below
        <4>2. Below(n) \cap {n} = {}
          BY <4>1
        <4> QED
          BY <1>1, <1>2, <3>1, <4>1, <4>2, Disjoint, OneNode, ZenonT(60)
      <3>4. Cardinality(begun) <= Cardinality(Below(n)) + 1
        BY <1>1, <1>2, <3>1, <3>2, <3>3, Inclusion
      <3>5. run + Cardinality(Below(n)) < Concurrency
        BY <1>1, <1>3, <3>1
      <3> QED
        BY <1>1, <1>2, <1>4, <3>1, <3>4, <3>5, ConcurrencyAssumption
    <2> QED
      BY <2>1, <2>2
  <1>6. ASSUME ~(InState(st, {"ready"}) \subseteq begun)
        PROVE  run + Cardinality(begun) >= Concurrency
    <2>1. InState(st, {"ready"}) \ begun \in SUBSET Nodes
      BY States
    <2>2. PICK n \in InState(st, {"ready"}) \ begun :
             \A m \in InState(st, {"ready"}) \ begun : n <= m
      BY <1>6, <2>1, LeastNode
    <2>3. n \in Nodes /\ st[n] = "ready"
      BY <2>2 DEF InState
    <2>4. Below(n) \subseteq begun
      <3> SUFFICES ASSUME NEW m \in Below(n), m \notin begun PROVE FALSE
        OBVIOUS
      <3>1. m \in 1..(n - 1) /\ st[m] = "ready" /\ m \in Nodes
        BY <2>3, NodesAssumption DEF Below
      <3>2. m \in InState(st, {"ready"}) \ begun
        BY <3>1 DEF InState
      <3> QED
        BY <2>2, <2>3, <3>1, <3>2
    <2>5. Cardinality(Below(n)) <= Cardinality(begun)
      BY <1>1, <2>4, Inclusion
    <2>6. ~(run + Cardinality(Below(n)) < Concurrency)
      BY <1>3, <2>2, <2>3
    <2> QED
      BY <1>2, <1>4, <2>3, <2>5, <2>6, ConcurrencyAssumption
  <1> QED
    BY <1>1, <1>5, <1>6 DEF begun

\* BooksAgree, of data on its way through a handler.
Books(st, run, sett, out, fl, skip) ==
    /\ sett = Cardinality(InState(st, Final))
    /\ run = Cardinality(InState(st, {"running"}))
    /\ run <= Concurrency
    /\ out = InState(st, {"done"})
    /\ fl = InState(st, {"failed"})
    /\ skip = InState(st, {"skipped"})

\* PumpAndFinish as a relation between the data before and after it.
PumpRelation(st, run, sett, ab, skip, st2, run2, sett2, skip2) ==
    LET late  == IF ab THEN InState(st, {"pending", "ready"}) ELSE {}
        begun == IF ab THEN {} ELSE Begun(st, run)
    IN  /\ st2 = [n \in Nodes |-> CASE n \in late  -> "skipped"
                                    [] n \in begun -> "running"
                                    [] OTHER       -> st[n]]
        /\ run2 = run + Cardinality(begun)
        /\ sett2 = sett + Cardinality(late)
        /\ skip2 = skip \cup late

\* What the pump makes of each node.
PumpMoves(st, ab, st2) ==
    \A n \in Nodes :
        \/ st2[n] = st[n] /\ (ab => st[n] \notin {"pending", "ready"})
        \/ ab /\ st[n] \in {"pending", "ready"} /\ st2[n] = "skipped"
        \/ ~ab /\ st[n] = "ready" /\ st2[n] = "running"

\* The pump keeps the books, moves only nodes that never ran, and leaves a
\* ready node only when every slot is taken.
LEMMA PumpFacts ==
    ASSUME NEW st \in [Nodes -> NodeState], NEW run, NEW sett, NEW out, NEW fl,
           NEW skip, NEW ab \in BOOLEAN, NEW st2, NEW run2, NEW sett2, NEW skip2,
           Books(st, run, sett, out, fl, skip),
           PumpRelation(st, run, sett, ab, skip, st2, run2, sett2, skip2)
    PROVE  /\ st2 \in [Nodes -> NodeState]
           /\ Books(st2, run2, sett2, out, fl, skip2)
           /\ PumpMoves(st, ab, st2)
           /\ InState(st2, {"ready"}) # {} => run2 >= Concurrency
  <1>1. run \in Nat /\ sett \in Nat /\ run <= Concurrency
    BY States, Sizes DEF Books
  <1>2. CASE ab
    <2> DEFINE late == InState(st, {"pending", "ready"})
    <2>1. /\ st2 = [n \in Nodes |-> IF n \in late THEN "skipped" ELSE st[n]]
          /\ run2 = run /\ sett2 = sett + Cardinality(late) /\ skip2 = skip \cup late
      BY <1>1, <1>2, FS_EmptySet DEF PumpRelation
    <2>2. st2 \in [Nodes -> NodeState] /\ PumpMoves(st, ab, st2)
      BY <1>2, <2>1 DEF PumpMoves, InState, NodeState
    <2>3. /\ InState(st2, {"running"}) = InState(st, {"running"})
          /\ InState(st2, {"done"}) = InState(st, {"done"})
          /\ InState(st2, {"failed"}) = InState(st, {"failed"})
          /\ InState(st2, {"skipped"}) = InState(st, {"skipped"}) \cup late
          /\ InState(st2, {"ready"}) = {}
          /\ InState(st2, Final) = InState(st, Final) \cup late
          /\ InState(st, Final) \cap late = {}
      BY <2>1 DEF InState, Final
    <2>4. Cardinality(InState(st2, Final)) = Cardinality(InState(st, Final)) + Cardinality(late)
      <3>1. InState(st, Final) \in SUBSET Nodes /\ late \in SUBSET Nodes
        BY States
      <3> HIDE DEF late
      <3>2. Cardinality(InState(st, Final) \cup late)
               = Cardinality(InState(st, Final)) + Cardinality(late)
        BY <2>3, <3>1, Disjoint
      <3> QED
        BY <2>3, <3>2, Zenon
    <2> HIDE DEF late
    <2> QED
      BY <1>1, <2>1, <2>2, <2>3, <2>4 DEF Books
  <1>3. CASE ~ab
    <2> DEFINE begun == Begun(st, run)
    <2>1. /\ st2 = [n \in Nodes |-> IF n \in begun THEN "running" ELSE st[n]]
          /\ run2 = run + Cardinality(begun) /\ sett2 = sett /\ skip2 = skip
      BY <1>1, <1>3, FS_EmptySet DEF PumpRelation
    <2>2. /\ begun \subseteq InState(st, {"ready"})
          /\ run + Cardinality(begun) <= Concurrency
          /\ InState(st, {"ready"}) \subseteq begun \/ run + Cardinality(begun) >= Concurrency
      BY <1>1, BegunFacts
    <2>3. begun \in SUBSET Nodes /\ \A n \in begun : st[n] = "ready"
      BY <2>2 DEF InState
    <2> HIDE DEF begun
    <2>4. st2 \in [Nodes -> NodeState] /\ PumpMoves(st, ab, st2)
      BY <1>3, <2>1, <2>3 DEF PumpMoves, InState, NodeState
    <2>5. /\ InState(st2, {"running"}) = InState(st, {"running"}) \cup begun
          /\ InState(st, {"running"}) \cap begun = {}
          /\ InState(st2, {"done"}) = InState(st, {"done"})
          /\ InState(st2, {"failed"}) = InState(st, {"failed"})
          /\ InState(st2, {"skipped"}) = InState(st, {"skipped"})
          /\ InState(st2, Final) = InState(st, Final)
      BY <2>1, <2>3 DEF InState, Final
    <2>6. Cardinality(InState(st2, {"running"}))
             = Cardinality(InState(st, {"running"})) + Cardinality(begun)
      <3>1. InState(st, {"running"}) \in SUBSET Nodes
        BY States
      <3>2. Cardinality(InState(st, {"running"}) \cup begun)
               = Cardinality(InState(st, {"running"})) + Cardinality(begun)
        BY <2>3, <2>5, <3>1, Disjoint
      <3> QED
        BY <2>5, <3>2, Zenon
    <2>7. InState(st2, {"ready"}) # {} => run2 >= Concurrency
      <3> SUFFICES ASSUME InState(st, {"ready"}) \subseteq begun
                   PROVE  InState(st2, {"ready"}) = {}
        BY <2>1, <2>2
      <3> QED
        BY <2>1 DEF InState
    <2> QED
      BY <1>1, <2>1, <2>2, <2>4, <2>5, <2>6, <2>7 DEF Books
  <1> QED
    BY <1>2, <1>3

-----------------------------------------------------------------------------
(* The parts of the invariant, of data on its way through a handler.       *)

\* A node that waits has a dependency to count down.
Counted(st, lf) == \A n \in Nodes : st[n] = "pending" => lf[n] >= 1

\* A node has at most one hook out per time it has run, and it has run again
\* at most once per replan.
HooksBounded(st, hk, r) ==
    \A n \in Nodes : hk[n] <= r + (IF st[n] \in {"done", "failed"} THEN 1 ELSE 0)

\* The dependencies that a pending node n has yet to count down, at most.
Unmet(n, st, hk) == {d \in deps[n] : st[d] /= "done" \/ hk[d] > 0}

\* The run before any replan: what has started has the outputs of all its
\* dependencies, what waits has none that failed, what is skipped has one.
Contained(st, lf, hk, ab) ==
    /\ \A n \in Nodes : st[n] \in {"ready", "running", "done", "failed"}
                            => deps[n] \subseteq InState(st, {"done"})
    /\ \A n \in Nodes : st[n] = "pending" =>
            /\ deps[n] \cap InState(st, {"failed", "skipped"}) = {}
            /\ Cardinality(Unmet(n, st, hk)) <= lf[n]
    /\ \A n \in Nodes : st[n] = "skipped" =>
            ab \/ deps[n] \cap InState(st, {"failed", "skipped"}) /= {}

\* The dependencies a pending node n waits for: yet to settle, or settled with
\* the answer of a hook to come.
Waits(n, st, hk) ==
    {d \in deps[n] : st[d] \notin Final \/ (hk[d] > 0 /\ st[d] /= "skipped")}

\* No node waits for more dependencies than there are left to count down.
Orderly(st, lf, hk) ==
    \A n \in Nodes : st[n] = "pending" => lf[n] <= Cardinality(Waits(n, st, hk))

Types ==
    /\ deps \in [Nodes -> SUBSET Nodes]
    /\ hooked \in BOOLEAN
    /\ state \in [Nodes -> NodeState]
    /\ left \in [Nodes -> 0..N]
    /\ short \in SUBSET Nodes
    /\ hooks \in [Nodes -> Nat]
    /\ replans \in 0..MaxReplans
    /\ aborted \in BOOLEAN
    /\ returned \in BOOLEAN

RunInv ==
    /\ Types
    /\ Books(state, running, settled, outputs, failed, skipped)
    /\ Counted(state, left)
    /\ HooksBounded(state, hooks, replans)
    /\ replans = 0 => /\ short = {}
                      /\ Contained(state, left, hooks, aborted)
                      /\ ReturnedIsSettled

\* A dependent of n is a node that has n among its dependencies.
LEMMA DependentsFacts ==
    ASSUME NEW n \in Nodes, NEW m \in Nodes
    PROVE  /\ m \in Dependents[n] <=> n \in deps[m]
           /\ Dependents[n] \subseteq Nodes
           /\ Neighbours[n] = deps[n] \cup Dependents[n]
  BY DEF Dependents, Neighbours

-----------------------------------------------------------------------------
(* What the pump keeps.                                                    *)

LEMMA PumpKeeps ==
    ASSUME NEW st \in [Nodes -> NodeState], NEW st2 \in [Nodes -> NodeState],
           NEW lf, NEW hk, NEW r, NEW ab \in BOOLEAN, PumpMoves(st, ab, st2),
           deps \in [Nodes -> SUBSET Nodes]
    PROVE  /\ Counted(st, lf) => Counted(st2, lf)
           /\ HooksBounded(st, hk, r) => HooksBounded(st2, hk, r)
           /\ Contained(st, lf, hk, ab) => Contained(st2, lf, hk, ab)
           /\ Orderly(st, lf, hk) => Orderly(st2, lf, hk)
  <1>1. Counted(st, lf) => Counted(st2, lf)
    BY DEF Counted, PumpMoves
  <1>2. HooksBounded(st, hk, r) => HooksBounded(st2, hk, r)
    BY DEF HooksBounded, PumpMoves
  <1>3. \A n \in Nodes : st2[n] = "pending" =>
            /\ st[n] = "pending" /\ ~ab
            /\ Unmet(n, st2, hk) = Unmet(n, st, hk)
            /\ Waits(n, st2, hk) = Waits(n, st, hk)
    <2> SUFFICES ASSUME NEW n \in Nodes, st2[n] = "pending"
                 PROVE  /\ st[n] = "pending" /\ ~ab
                        /\ Unmet(n, st2, hk) = Unmet(n, st, hk)
                        /\ Waits(n, st2, hk) = Waits(n, st, hk)
      OBVIOUS
    <2>1. st[n] = "pending" /\ ~ab
      BY DEF PumpMoves
    <2>2. \A d \in Nodes : st2[d] = st[d] \/ (st[d] = "ready" /\ st2[d] = "running")
      BY <2>1 DEF PumpMoves
    <2> QED
      BY <2>1, <2>2 DEF Unmet, Waits, Final
  <1>4. Contained(st, lf, hk, ab) => Contained(st2, lf, hk, ab)
    BY <1>3 DEF Contained, PumpMoves, InState, NodeState
  <1>5. Orderly(st, lf, hk) => Orderly(st2, lf, hk)
    BY <1>3 DEF Orderly
  <1> QED
    BY <1>1, <1>2, <1>4, <1>5

-----------------------------------------------------------------------------
(* What finish(true) of n keeps.  The hooks hk1 count the one n waits for;  *)
(* hk2 are those left when it is answered.                                 *)

LEMMA FinishFacts ==
    ASSUME deps \in [Nodes -> SUBSET Nodes], left \in [Nodes -> 0..N],
           NEW st \in [Nodes -> NodeState], NEW n \in Nodes, Counted(st, left)
    PROVE  /\ StateAfter(n, st) \in [Nodes -> NodeState]
           /\ LeftAfter(n, st) \in [Nodes -> 0..N]
           /\ \A m \in Nodes : \/ StateAfter(n, st)[m] = st[m]
                               \/ st[m] = "pending" /\ StateAfter(n, st)[m] = "ready"
           /\ Counted(StateAfter(n, st), LeftAfter(n, st))
  <1>1. \A m \in Unblocked(n, st) : m \in Nodes /\ st[m] = "pending" /\ left[m] \in 1..N
    BY DEF Unblocked, InState, Counted
  <1>2. StateAfter(n, st) \in [Nodes -> NodeState]
    BY DEF StateAfter, NodeState
  <1>3. LeftAfter(n, st) \in [Nodes -> 0..N]
    <2>1. \A m \in Unblocked(n, st) : left[m] - 1 \in 0..N
      BY <1>1, NodesAssumption
    <2> QED
      BY <2>1 DEF LeftAfter
  <1>4. \A m \in Nodes : \/ StateAfter(n, st)[m] = st[m]
                         \/ st[m] = "pending" /\ StateAfter(n, st)[m] = "ready"
    BY <1>1 DEF StateAfter
  <1>5. Counted(StateAfter(n, st), LeftAfter(n, st))
    BY <1>1 DEF StateAfter, LeftAfter, Counted
  <1> QED
    BY <1>2, <1>3, <1>4, <1>5

\* Nodes that become ready change no list and no counter.
LEMMA FinishBooks ==
    ASSUME NEW st, NEW st2, NEW run, NEW sett, NEW out, NEW fl, NEW skip,
           \A m \in Nodes : \/ st2[m] = st[m]
                            \/ st[m] = "pending" /\ st2[m] = "ready",
           Books(st, run, sett, out, fl, skip)
    PROVE  Books(st2, run, sett, out, fl, skip)
  <1>1. /\ InState(st2, Final) = InState(st, Final)
        /\ InState(st2, {"running"}) = InState(st, {"running"})
        /\ InState(st2, {"done"}) = InState(st, {"done"})
        /\ InState(st2, {"failed"}) = InState(st, {"failed"})
        /\ InState(st2, {"skipped"}) = InState(st, {"skipped"})
    BY DEF InState, Final
  <1> QED
    BY <1>1 DEF Books

LEMMA FinishContained ==
    ASSUME deps \in [Nodes -> SUBSET Nodes], left \in [Nodes -> 0..N],
           NEW st \in [Nodes -> NodeState], NEW n \in Nodes, Counted(st, left),
           NEW hk1 \in [Nodes -> Nat], hk1[n] > 0, NEW ab \in BOOLEAN,
           st[n] \in {"done", "failed"},
           Contained(st, left, hk1, ab)
    PROVE  Contained(StateAfter(n, st), LeftAfter(n, st), [hk1 EXCEPT ![n] = 0], ab)
  <1> DEFINE st2 == StateAfter(n, st)
             lf2 == LeftAfter(n, st)
             hk2 == [hk1 EXCEPT ![n] = 0]
  <1>1. /\ st2 \in [Nodes -> NodeState]
        /\ \A m \in Nodes : st2[m] = st[m] \/ (st[m] = "pending" /\ st2[m] = "ready")
    <2>1. st2 \in [Nodes -> NodeState]
      BY FinishFacts
    <2>2. \A m \in Nodes : st2[m] = st[m] \/ (st[m] = "pending" /\ st2[m] = "ready")
      BY DEF StateAfter, Unblocked, InState
    <2> QED
      BY <2>1, <2>2
  <1>2. \A m \in Nodes : st[m] = "pending" =>
            /\ st2[m] = IF m \in Dependents[n] /\ left[m] = 1 THEN "ready" ELSE "pending"
            /\ lf2[m] = IF m \in Dependents[n] THEN left[m] - 1 ELSE left[m]
    BY DEF StateAfter, LeftAfter, Unblocked, InState
  <1>3. /\ InState(st2, {"done"}) = InState(st, {"done"})
        /\ InState(st2, {"failed", "skipped"}) = InState(st, {"failed", "skipped"})
    BY <1>1 DEF InState
  <1>0. /\ hk2 \in [Nodes -> Nat] /\ hk2[n] = 0
        /\ \A m \in Nodes : m # n => hk2[m] = hk1[m]
    OBVIOUS
  <1> HIDE DEF st2, lf2, hk2
  <1>4. ASSUME NEW m \in Nodes, st[m] = "pending"
        PROVE  /\ Cardinality(Unmet(m, st2, hk2)) \in Nat
               /\ Cardinality(Unmet(m, st2, hk2)) <=
                     IF m \in Dependents[n] THEN left[m] - 1 ELSE left[m]
    <2> DEFINE before == Unmet(m, st, hk1)
               after == Unmet(m, st2, hk2)
    <2>1. before \in SUBSET Nodes /\ after \in SUBSET Nodes
      BY DEF Unmet
    <2>2. Cardinality(before) \in Nat /\ Cardinality(after) \in Nat
      <3> HIDE DEF before, after
      <3> QED
        BY <2>1, Sizes
    <2>3. Cardinality(before) <= left[m] /\ deps[m] \cap InState(st, {"failed", "skipped"}) = {}
      BY <1>4 DEF Contained
    <2>4. after \subseteq before
      BY <1>0, <1>1 DEF Unmet
    <2>5. CASE m \in Dependents[n]
      <3>1. n \in deps[m]
        BY <2>5, DependentsFacts
      <3>2. st[n] = "done"
        BY <2>3, <3>1 DEF InState
      <3>3. n \in before /\ n \notin after
        BY <1>0, <1>1, <3>1, <3>2 DEF Unmet
      <3> HIDE DEF before, after
      <3>4. after \in SUBSET (before \ {n}) /\ before \ {n} \in SUBSET Nodes
        BY <2>1, <2>4, <3>3
      <3>5. Cardinality(before \ {n}) = Cardinality(before) - 1
        <4>1. {n} \in SUBSET before
          BY <3>3
        <4> QED
          BY <2>1, <4>1, Without, OneNode
      <3>6. Cardinality(after) <= Cardinality(before \ {n})
        BY <3>4, Inclusion
      <3>7. Cardinality(after) <= left[m] - 1
        BY <2>2, <2>3, <3>5, <3>6
      <3> QED
        BY <2>2, <2>5, <3>7 DEF after
    <2>6. CASE m \notin Dependents[n]
      <3> HIDE DEF before, after
      <3>1. Cardinality(after) <= Cardinality(before)
        BY <2>1, <2>4, Inclusion
      <3>2. Cardinality(after) <= left[m]
        BY <2>2, <2>3, <3>1
      <3> QED
        BY <2>2, <2>6, <3>2 DEF after
    <2> QED
      BY <2>5, <2>6
  <1>5. ASSUME NEW m \in Nodes, st2[m] \in {"ready", "running", "done", "failed"}
        PROVE  deps[m] \subseteq InState(st2, {"done"})
    <2>1. CASE st2[m] = st[m]
      BY <1>3, <1>5, <2>1 DEF Contained
    <2>2. CASE st[m] = "pending" /\ st2[m] = "ready"
      <3>1. m \in Dependents[n] /\ left[m] = 1
        BY <1>2, <2>2
      <3>2. Cardinality(Unmet(m, st2, hk2)) = 0
        <4> DEFINE c == Cardinality(Unmet(m, st2, hk2))
        <4>1. c \in Nat /\ c <= left[m] - 1
          BY <1>4, <2>2, <3>1
        <4> HIDE DEF c
        <4>2. c = 0
          BY <3>1, <4>1
        <4> QED
          BY <4>2 DEF c
      <3>3. Unmet(m, st2, hk2) \in SUBSET Nodes
        BY DEF Unmet
      <3>4. Unmet(m, st2, hk2) = {}
        BY <3>2, <3>3, Sizes, FS_EmptySet
      <3> QED
        BY <3>4 DEF Unmet, InState
    <2> QED
      BY <1>1, <2>1, <2>2
  <1>6. ASSUME NEW m \in Nodes, st2[m] = "pending"
        PROVE  /\ deps[m] \cap InState(st2, {"failed", "skipped"}) = {}
               /\ Cardinality(Unmet(m, st2, hk2)) <= lf2[m]
    <2>1. st[m] = "pending"
      BY <1>1, <1>6
    <2> QED
      BY <1>2, <1>3, <1>4, <2>1 DEF Contained
  <1>7. ASSUME NEW m \in Nodes, st2[m] = "skipped"
        PROVE  ab \/ deps[m] \cap InState(st2, {"failed", "skipped"}) # {}
    BY <1>1, <1>3, <1>7 DEF Contained
  <1> QED
    BY <1>5, <1>6, <1>7 DEF Contained, st2, lf2, hk2

LEMMA FinishOrderly ==
    ASSUME deps \in [Nodes -> SUBSET Nodes], left \in [Nodes -> 0..N],
           NEW st \in [Nodes -> NodeState], NEW n \in Nodes, Counted(st, left),
           NEW hk1 \in [Nodes -> Nat], NEW hk2 \in [Nodes -> Nat],
           hk1[n] > 0, hk2 = [hk1 EXCEPT ![n] = @ - 1],
           Orderly(st, left, hk1)
    PROVE  Orderly(StateAfter(n, st), LeftAfter(n, st), hk2)
  <1> DEFINE st2 == StateAfter(n, st)
             lf2 == LeftAfter(n, st)
  <1>1. \A m \in Nodes : st2[m] = st[m] \/ (st[m] = "pending" /\ st2[m] = "ready")
    BY FinishFacts
  <1>2. \A m \in Nodes : st[m] = "pending" =>
            lf2[m] = IF m \in Dependents[n] THEN left[m] - 1 ELSE left[m]
    BY DEF LeftAfter, Unblocked, InState
  <1> HIDE DEF st2, lf2
  <1>3. SUFFICES ASSUME NEW m \in Nodes, st2[m] = "pending"
                 PROVE  lf2[m] <= Cardinality(Waits(m, st2, hk2))
    BY DEF Orderly, st2, lf2
  <1> DEFINE before == Waits(m, st, hk1)
             after == Waits(m, st2, hk2)
  <1>4. before \in SUBSET Nodes /\ after \in SUBSET Nodes
    BY DEF Waits
  <1>5. Cardinality(before) \in Nat /\ Cardinality(after) \in Nat
    <2> HIDE DEF before, after
    <2> QED
      BY <1>4, Sizes
  <1>6. st[m] = "pending" /\ left[m] <= Cardinality(before) /\ left[m] \in Nat
    BY <1>1, <1>3 DEF Orderly
  <1>7. before \subseteq after \cup {n}
    BY <1>1 DEF Waits, Final
  <1>8. CASE m \in Dependents[n]
    <2> HIDE DEF before, after
    <2>1. before \subseteq after \cup {n} /\ after \cup {n} \in SUBSET Nodes
      BY <1>4, <1>7
    <2>2. Cardinality(after \cup {n}) \in Nat /\ Cardinality(after \cup {n}) <= Cardinality(after) + 1
      <3>1. IsFiniteSet(after)
        BY <1>4, Sizes
      <3>2. Cardinality(after \cup {n}) =
               IF n \in after THEN Cardinality(after) ELSE Cardinality(after) + 1
        BY <3>1, FS_AddElement
      <3> QED
        BY <1>5, <3>2
    <2>3. Cardinality(before) <= Cardinality(after \cup {n})
      BY <2>1, Inclusion
    <2>4. lf2[m] = left[m] - 1
      BY <1>2, <1>6, <1>8
    <2>5. lf2[m] <= Cardinality(after)
      BY <1>5, <1>6, <2>2, <2>3, <2>4
    <2> QED
      BY <2>5 DEF after
  <1>9. CASE m \notin Dependents[n]
    <2>1. n \notin deps[m]
      BY <1>9, DependentsFacts
    <2>2. before \subseteq after
      BY <1>7, <2>1 DEF Waits
    <2> HIDE DEF before, after
    <2>3. Cardinality(before) <= Cardinality(after)
      BY <1>4, <2>2, Inclusion
    <2>4. lf2[m] = left[m]
      BY <1>2, <1>6, <1>9
    <2>5. lf2[m] <= Cardinality(after)
      BY <1>5, <1>6, <2>3, <2>4
    <2> QED
      BY <2>5 DEF after
  <1> QED
    BY <1>8, <1>9

-----------------------------------------------------------------------------
(* What onSettled() keeps.                                                 *)

\* The nodes skipped with a failed one: pending, closed under dependents, and
\* each because of a dependency that failed or is skipped with it.
LEMMA SkipFacts ==
    ASSUME deps \in [Nodes -> SUBSET Nodes], NEW st, NEW n \in Nodes
    PROVE  LET skip == SkipSubtree(n, st)
           IN  /\ skip \in SUBSET Nodes
               /\ \A m \in skip : st[m] = "pending" /\ deps[m] \cap ({n} \cup skip) # {}
               /\ \A m \in Nodes : \A d \in {n} \cup skip :
                     st[m] = "pending" /\ d \in deps[m] => m \in skip
  <1> DEFINE ok == InState(st, {"pending"})
             skip == SkipSubtree(n, st)
             T == {m \in skip : deps[m] \cap ({n} \cup skip) # {}}
  <1>1. /\ skip \subseteq ok
        /\ Dependents[n] \cap ok \subseteq skip
        /\ \A r \in skip : Dependents[r] \cap ok \subseteq skip
    BY ReachFacts DEF SkipSubtree
  <1>2. /\ Dependents[n] \cap ok \subseteq T
        /\ \A r \in T : Dependents[r] \cap ok \subseteq T
        => skip \subseteq T
    <2>1. T \in SUBSET ok
      BY <1>1
    <2> HIDE DEF T
    <2> QED
      BY <2>1, ReachFacts DEF SkipSubtree
  <1>3. ok \in SUBSET Nodes /\ \A m \in Nodes : m \in ok <=> st[m] = "pending"
    BY States
  <1> HIDE DEF skip, ok
  <1>4. \A m \in Dependents[n] \cap ok : n \in deps[m]
    BY <1>3, DependentsFacts
  <1>5. \A r \in skip : \A m \in Dependents[r] \cap ok : r \in deps[m]
    BY <1>1, <1>3, DependentsFacts
  <1>6. skip \subseteq T
    BY <1>1, <1>2, <1>4, <1>5
  <1>7. \A m \in skip : st[m] = "pending" /\ deps[m] \cap ({n} \cup skip) # {}
    BY <1>1, <1>3, <1>6
  <1>8. ASSUME NEW m \in Nodes, NEW d \in {n} \cup skip, st[m] = "pending", d \in deps[m]
        PROVE  m \in skip
    <2>1. m \in ok /\ d \in Nodes
      BY <1>1, <1>3, <1>8
    <2>2. m \in Dependents[d]
      BY <1>8, <2>1, DependentsFacts
    <2> QED
      BY <1>1, <2>1, <2>2
  <1> QED
    BY <1>1, <1>3, <1>7, <1>8 DEF skip

\* The states after node n has ended with a result.
Ended(st, n, result, skip) ==
    [m \in Nodes |-> CASE m = n -> result [] m \in skip -> "skipped" [] OTHER -> st[m]]

SkippedWith(n, result) == IF result = "failed" THEN SkipSubtree(n, state) ELSE {}

LEMMA EndedFacts ==
    ASSUME Types, NEW n \in Nodes, NEW result \in {"done", "failed"},
           state[n] = "running"
    PROVE  LET skip == SkippedWith(n, result)
               st   == Ended(state, n, result, skip)
           IN  /\ skip \in SUBSET Nodes
               /\ st \in [Nodes -> NodeState]
               /\ st[n] = result
               /\ n \notin skip
               /\ \A m \in skip : state[m] = "pending" /\ st[m] = "skipped"
               /\ \A m \in Nodes : m # n /\ m \notin skip => st[m] = state[m]
               /\ \A m \in skip : result = "failed" /\ deps[m] \cap ({n} \cup skip) # {}
               /\ \A m \in Nodes : \A d \in Nodes :
                     /\ st[m] = "pending"
                     /\ d \in deps[m]
                     /\ d \in skip \/ (d = n /\ result = "failed")
                     => FALSE
  <1> DEFINE skip == SkippedWith(n, result)
             st   == Ended(state, n, result, skip)
  <1>1. /\ skip \in SUBSET Nodes
        /\ \A m \in skip : /\ state[m] = "pending"
                           /\ result = "failed"
                           /\ deps[m] \cap ({n} \cup skip) # {}
        /\ result = "failed" => \A m \in Nodes : \A d \in {n} \cup skip :
              state[m] = "pending" /\ d \in deps[m] => m \in skip
    BY SkipFacts DEF SkippedWith, Types
  <1> HIDE DEF skip
  <1>2. /\ st \in [Nodes -> NodeState]
        /\ st[n] = result
        /\ n \notin skip
        /\ \A m \in skip : st[m] = "skipped"
        /\ \A m \in Nodes : m # n /\ m \notin skip => st[m] = state[m]
    BY <1>1 DEF Ended, Types, NodeState
  <1>3. ASSUME NEW m \in Nodes, NEW d \in Nodes, st[m] = "pending", d \in deps[m],
               d \in skip \/ (d = n /\ result = "failed")
        PROVE  FALSE
    <2>1. m # n /\ m \notin skip /\ state[m] = "pending"
      BY <1>2, <1>3
    <2> QED
      BY <1>1, <1>3, <2>1
  <1> QED
    BY <1>1, <1>2, <1>3 DEF skip

LEMMA EndedBooks ==
    ASSUME Types, NEW n \in Nodes, NEW result \in {"done", "failed"},
           state[n] = "running", NEW skip, skip = SkippedWith(n, result),
           Books(state, running, settled, outputs, failed, skipped)
    PROVE  Books(Ended(state, n, result, skip), running - 1,
                 settled + 1 + Cardinality(skip),
                 IF result = "done" THEN outputs \cup {n} ELSE outputs,
                 IF result = "failed" THEN failed \cup {n} ELSE failed,
                 skipped \cup skip)
  <1> DEFINE st == Ended(state, n, result, skip)
  <1>1. /\ skip \in SUBSET Nodes
        /\ st \in [Nodes -> NodeState]
        /\ st[n] = result
        /\ n \notin skip
        /\ \A m \in skip : state[m] = "pending" /\ st[m] = "skipped"
        /\ \A m \in Nodes : m # n /\ m \notin skip => st[m] = state[m]
    BY EndedFacts
  <1> HIDE DEF st
  <1>2. /\ InState(st, {"done"}) = IF result = "done" THEN InState(state, {"done"}) \cup {n}
                                                     ELSE InState(state, {"done"})
        /\ InState(st, {"failed"}) = IF result = "failed" THEN InState(state, {"failed"}) \cup {n}
                                                         ELSE InState(state, {"failed"})
        /\ InState(st, {"skipped"}) = InState(state, {"skipped"}) \cup skip
    BY <1>1 DEF InState
  <1>3. /\ InState(st, {"running"}) = InState(state, {"running"}) \ {n}
        /\ n \in InState(state, {"running"})
    BY <1>1 DEF InState
  <1>4. Cardinality(InState(st, {"running"})) = running - 1
    <2>1. InState(state, {"running"}) \in SUBSET Nodes
      BY States
    <2>2. Cardinality(InState(state, {"running"}) \ {n})
             = Cardinality(InState(state, {"running"})) - 1
      BY <1>3, <2>1, Without, OneNode
    <2> QED
      BY <1>3, <2>2 DEF Books
  <1>5. Cardinality(InState(st, Final)) = settled + 1 + Cardinality(skip)
    <2> DEFINE F == InState(state, Final)
               G == InState(st, Final)
    <2>1. /\ G = (F \cup {n}) \cup skip
          /\ F \cap {n} = {}
          /\ (F \cup {n}) \cap skip = {}
      BY <1>1 DEF InState, Final
    <2>2. F \in SUBSET Nodes /\ {n} \in SUBSET Nodes /\ F \cup {n} \in SUBSET Nodes
      BY States
    <2>3. Cardinality(F) \in Nat /\ Cardinality(skip) \in Nat /\ settled = Cardinality(F)
      BY <1>1, <2>2, Sizes DEF Books
    <2> HIDE DEF F, G
    <2>4. Cardinality(F \cup {n}) = Cardinality(F) + 1
      BY <2>1, <2>2, Disjoint, OneNode
    <2>5. Cardinality((F \cup {n}) \cup skip) = Cardinality(F \cup {n}) + Cardinality(skip)
      BY <1>1, <2>1, <2>2, Disjoint
    <2>6. Cardinality(G) = Cardinality((F \cup {n}) \cup skip)
      BY <2>1, Zenon
    <2>7. Cardinality(G) = settled + 1 + Cardinality(skip)
      BY <2>3, <2>4, <2>5, <2>6
    <2> QED
      BY <2>7 DEF G
  <1>6. running \in Nat /\ running <= Concurrency
    BY States, Sizes DEF Books
  <1>7. running - 1 <= Concurrency
    BY <1>6, ConcurrencyAssumption
  <1> QED
    BY <1>2, <1>4, <1>5, <1>7 DEF Books, st

LEMMA EndedKeeps ==
    ASSUME Types, NEW n \in Nodes, NEW result \in {"done", "failed"},
           state[n] = "running", NEW skip, skip = SkippedWith(n, result),
           Counted(state, left), HooksBounded(state, hooks, replans)
    PROVE  LET st == Ended(state, n, result, skip)
               hk == [hooks EXCEPT ![n] = @ + 1]
           IN  /\ Counted(st, left)
               /\ HooksBounded(st, hooks, replans)
               /\ HooksBounded(st, hk, replans)
               /\ Contained(state, left, hooks, aborted) => Contained(st, left, hk, aborted)
               /\ Orderly(state, left, hooks) => Orderly(st, left, hk)
  <1> DEFINE st == Ended(state, n, result, skip)
             hk == [hooks EXCEPT ![n] = @ + 1]
  <1>1. /\ skip \in SUBSET Nodes
        /\ st \in [Nodes -> NodeState]
        /\ st[n] = result
        /\ n \notin skip
        /\ \A m \in skip : state[m] = "pending" /\ st[m] = "skipped"
        /\ \A m \in Nodes : m # n /\ m \notin skip => st[m] = state[m]
        /\ \A m \in skip : result = "failed" /\ deps[m] \cap ({n} \cup skip) # {}
    BY EndedFacts
  <1>2. \A m \in Nodes : \A d \in Nodes :
            /\ st[m] = "pending"
            /\ d \in deps[m]
            => d \notin skip /\ ~(d = n /\ result = "failed")
    BY EndedFacts
  <1> HIDE DEF st
  <1>3. \A m \in Nodes : st[m] = "pending" => state[m] = "pending"
    BY <1>1
  <1>4. Counted(st, left)
    BY <1>3 DEF Counted
  <1>5. HooksBounded(st, hooks, replans) /\ HooksBounded(st, hk, replans)
    BY <1>1 DEF HooksBounded, Types
  <1>6. ASSUME Contained(state, left, hooks, aborted)
        PROVE  Contained(st, left, hk, aborted)
    <2>1. InState(state, {"done"}) \subseteq InState(st, {"done"})
      BY <1>1 DEF InState
    <2>2. InState(state, {"failed", "skipped"}) \subseteq InState(st, {"failed", "skipped"})
      BY <1>1 DEF InState
    <2>3. ASSUME NEW m \in Nodes, st[m] \in {"ready", "running", "done", "failed"}
          PROVE  deps[m] \subseteq InState(st, {"done"})
      <3>1. state[m] \in {"ready", "running", "done", "failed"}
        BY <1>1, <2>3
      <3> QED
        BY <1>6, <2>1, <3>1 DEF Contained
    <2>4. ASSUME NEW m \in Nodes, st[m] = "pending"
          PROVE  /\ deps[m] \cap InState(st, {"failed", "skipped"}) = {}
                 /\ Cardinality(Unmet(m, st, hk)) <= left[m]
      <3>1. /\ deps[m] \cap InState(state, {"failed", "skipped"}) = {}
            /\ Cardinality(Unmet(m, state, hooks)) <= left[m]
        BY <1>3, <1>6, <2>4 DEF Contained
      <3>2. deps[m] \cap InState(st, {"failed", "skipped"}) = {}
        BY <1>1, <1>2, <2>4, <3>1 DEF InState
      <3>3. Unmet(m, st, hk) \subseteq Unmet(m, state, hooks)
        BY <1>1 DEF Unmet, Types
      <3>4. /\ Unmet(m, state, hooks) \in SUBSET Nodes
            /\ Unmet(m, st, hk) \in SUBSET Nodes
        BY DEF Unmet, Types
      <3>5. /\ Cardinality(Unmet(m, st, hk)) <= Cardinality(Unmet(m, state, hooks))
            /\ Cardinality(Unmet(m, st, hk)) \in Nat
            /\ Cardinality(Unmet(m, state, hooks)) \in Nat
        <4> DEFINE before == Unmet(m, state, hooks)
                   after == Unmet(m, st, hk)
        <4>1. after \in SUBSET before /\ before \in SUBSET Nodes
          BY <3>3, <3>4
        <4> HIDE DEF before, after
        <4>2. /\ Cardinality(after) <= Cardinality(before)
              /\ Cardinality(after) \in Nat /\ Cardinality(before) \in Nat
          BY <4>1, Inclusion
        <4> QED
          BY <4>2 DEF before, after
      <3>6. left[m] \in Nat
        BY DEF Types
      <3> QED
        BY <3>1, <3>2, <3>5, <3>6
    <2>5. ASSUME NEW m \in Nodes, st[m] = "skipped"
          PROVE  aborted \/ deps[m] \cap InState(st, {"failed", "skipped"}) # {}
      <3>1. CASE m \in skip
        BY <1>1, <3>1 DEF InState, Types
      <3>2. CASE m \notin skip
        <4>1. state[m] = "skipped"
          BY <1>1, <2>5, <3>2
        <4> QED
          BY <1>6, <2>2, <4>1 DEF Contained
      <3> QED
        BY <3>1, <3>2
    <2> QED
      BY <2>3, <2>4, <2>5 DEF Contained
  <1>7. ASSUME Orderly(state, left, hooks)
        PROVE  Orderly(st, left, hk)
    <2> SUFFICES ASSUME NEW m \in Nodes, st[m] = "pending"
                 PROVE  left[m] <= Cardinality(Waits(m, st, hk))
      BY DEF Orderly
    <2>1. Waits(m, state, hooks) \subseteq Waits(m, st, hk)
      <3> SUFFICES ASSUME NEW d \in Waits(m, state, hooks) PROVE d \in Waits(m, st, hk)
        OBVIOUS
      <3>1. d \in Nodes /\ d \in deps[m] /\ d \notin skip
        BY <1>2 DEF Waits, Types
      <3>2. CASE d = n
        BY <1>1, <3>1, <3>2 DEF Waits, Types
      <3>3. CASE d # n
        BY <1>1, <3>1, <3>3 DEF Waits, Types
      <3> QED
        BY <3>2, <3>3
    <2>2. Waits(m, state, hooks) \in SUBSET Nodes /\ Waits(m, st, hk) \in SUBSET Nodes
      BY DEF Waits, Types
    <2>3. /\ Cardinality(Waits(m, state, hooks)) <= Cardinality(Waits(m, st, hk))
          /\ Cardinality(Waits(m, st, hk)) \in Nat
          /\ Cardinality(Waits(m, state, hooks)) \in Nat
      <3> DEFINE before == Waits(m, state, hooks)
                 after == Waits(m, st, hk)
      <3>1. before \in SUBSET after /\ after \in SUBSET Nodes
        BY <2>1, <2>2
      <3> HIDE DEF before, after
      <3>2. /\ Cardinality(before) <= Cardinality(after)
            /\ Cardinality(after) \in Nat /\ Cardinality(before) \in Nat
        BY <3>1, Inclusion
      <3> QED
        BY <3>2 DEF before, after
    <2>4. left[m] <= Cardinality(Waits(m, state, hooks)) /\ left[m] \in Nat
      BY <1>3, <1>7 DEF Orderly, Types
    <2> QED
      BY <2>3, <2>4
  <1> QED
    BY <1>4, <1>5, <1>6, <1>7 DEF st

-----------------------------------------------------------------------------
(* What a replan keeps.                                                    *)

\* The cone holds neither running nor skipped nodes and is closed over both
\* directions of the edges between the others.
LEMMA ConeFacts ==
    ASSUME Types, NEW n \in Nodes
    PROVE  /\ Cone(n) \in SUBSET Nodes
           /\ \A m \in Cone(n) : state[m] \notin {"running", "skipped"}
           /\ state[n] \notin {"running", "skipped"} => n \in Cone(n)
           /\ \A r \in Cone(n) : \A m \in Nodes :
                 /\ m \in deps[r] \/ r \in deps[m]
                 /\ state[m] \notin {"running", "skipped"}
                 => m \in Cone(n)
  <1> DEFINE ok == Nodes \ InState(state, {"running", "skipped"})
             cone == Cone(n)
  <1>1. /\ cone \subseteq ok
        /\ {n} \cap ok \subseteq cone
        /\ \A r \in cone : Neighbours[r] \cap ok \subseteq cone
    BY ReachFacts DEF Cone
  <1>2. \A m \in Nodes : m \in ok <=> state[m] \notin {"running", "skipped"}
    BY DEF InState
  <1>3. ok \subseteq Nodes
    OBVIOUS
  <1> HIDE DEF ok, cone
  <1>4. ASSUME NEW r \in cone, NEW m \in Nodes, m \in deps[r] \/ r \in deps[m],
               state[m] \notin {"running", "skipped"}
        PROVE  m \in cone
    <2>1. r \in Nodes
      BY <1>1, <1>3
    <2>2. m \in Neighbours[r]
      BY <1>4, <2>1, DependentsFacts
    <2> QED
      BY <1>1, <1>2, <1>4, <2>2
  <1> QED
    BY <1>1, <1>2, <1>3, <1>4 DEF cone

\* The states and counts after the cone was reset.
Rewound(cone) ==
    [m \in Nodes |-> IF m \notin cone THEN state[m]
                     ELSE IF WaitingOn(m, cone) = {} THEN "ready" ELSE "pending"]

LeftAnew(cone) ==
    [m \in Nodes |-> IF m \in cone THEN Cardinality(WaitingOn(m, cone)) ELSE left[m]]

LEMMA ReplanFacts ==
    ASSUME Types, NEW n \in Nodes, hooks[n] > 0,
           NEW cone, cone = Cone(n),
           NEW reset, reset = cone \cap InState(state, {"done", "failed"}),
           NEW hk, hk = [hooks EXCEPT ![n] = @ - 1],
           Books(state, running, settled, outputs, failed, skipped),
           Counted(state, left), HooksBounded(state, hooks, replans)
    PROVE  /\ Rewound(cone) \in [Nodes -> NodeState]
           /\ LeftAnew(cone) \in [Nodes -> 0..N]
           /\ Books(Rewound(cone), running, settled - Cardinality(reset),
                    outputs \ reset, failed \ reset, skipped)
           /\ Counted(Rewound(cone), LeftAnew(cone))
           /\ HooksBounded(Rewound(cone), hk, replans + 1)
           /\ Orderly(state, left, hooks) => Orderly(Rewound(cone), LeftAnew(cone), hk)
  <1> DEFINE st == Rewound(cone)
             lf == LeftAnew(cone)
  <1>1. /\ cone \in SUBSET Nodes
        /\ \A m \in cone : state[m] \notin {"running", "skipped"}
        /\ state[n] \notin {"running", "skipped"} => n \in cone
        /\ \A r \in cone : \A m \in Nodes :
              (m \in deps[r] \/ r \in deps[m]) /\ state[m] \notin {"running", "skipped"}
              => m \in cone
    BY ConeFacts
  <1>2. \A m \in Nodes : /\ m \in cone => st[m] \in {"ready", "pending"}
                         /\ m \notin cone => st[m] = state[m]
    BY DEF Rewound
  <1>3. st \in [Nodes -> NodeState]
    BY DEF Rewound, Types, NodeState
  <1>4. \A m \in Nodes : /\ WaitingOn(m, cone) \in SUBSET Nodes
                         /\ IsFiniteSet(WaitingOn(m, cone))
                         /\ Cardinality(WaitingOn(m, cone)) \in 0..N
    <2>1. \A m \in Nodes : WaitingOn(m, cone) \in SUBSET Nodes
      BY DEF WaitingOn, Types
    <2> QED
      BY <2>1, Sizes
  <1>5. lf \in [Nodes -> 0..N]
    BY <1>4 DEF LeftAnew, Types
  <1>6. Counted(st, lf)
    <2> SUFFICES ASSUME NEW m \in Nodes, st[m] = "pending" PROVE lf[m] >= 1
      BY DEF Counted
    <2>1. CASE m \in cone
      <3>1. WaitingOn(m, cone) # {} /\ lf[m] = Cardinality(WaitingOn(m, cone))
        BY <2>1 DEF Rewound, LeftAnew
      <3>2. Cardinality(WaitingOn(m, cone)) # 0
        BY <1>4, <3>1, FS_EmptySet
      <3> QED
        BY <1>4, <3>1, <3>2
    <2>2. CASE m \notin cone
      BY <1>2, <2>2 DEF LeftAnew, Counted
    <2> QED
      BY <2>1, <2>2
  <1>7. Books(st, running, settled - Cardinality(reset), outputs \ reset, failed \ reset,
              skipped)
    <2>1. /\ InState(st, {"done"}) = InState(state, {"done"}) \ reset
          /\ InState(st, {"failed"}) = InState(state, {"failed"}) \ reset
          /\ InState(st, {"running"}) = InState(state, {"running"})
          /\ InState(st, {"skipped"}) = InState(state, {"skipped"})
          /\ InState(st, Final) = InState(state, Final) \ reset
          /\ reset \subseteq InState(state, Final)
      BY <1>1, <1>2 DEF InState, Final
    <2>2. Cardinality(InState(state, Final) \ reset) = settled - Cardinality(reset)
      <3>1. InState(state, Final) \in SUBSET Nodes /\ reset \in SUBSET InState(state, Final)
        BY <2>1, States
      <3> QED
        BY <3>1, Without DEF Books
    <2> QED
      BY <2>1, <2>2 DEF Books
  <1>8. HooksBounded(st, hk, replans + 1)
    <2> SUFFICES ASSUME NEW m \in Nodes
                 PROVE  hk[m] <= replans + 1 + (IF st[m] \in {"done", "failed"} THEN 1 ELSE 0)
      BY DEF HooksBounded
    <2>1. /\ hk[m] \in Nat /\ replans \in Nat /\ hooks[m] \in Nat
          /\ hk[m] <= hooks[m]
      BY ReplansAssumption DEF Types
    <2>2. hooks[m] <= replans + 1
      BY <2>1 DEF HooksBounded
    <2> QED
      BY <2>1, <2>2
  <1>9. ASSUME Orderly(state, left, hooks)
        PROVE  Orderly(st, lf, hk)
    <2> SUFFICES ASSUME NEW m \in Nodes, st[m] = "pending"
                 PROVE  lf[m] <= Cardinality(Waits(m, st, hk))
      BY DEF Orderly
    <2> DEFINE after == Waits(m, st, hk)
    <2>1. after \in SUBSET Nodes
      BY DEF Waits, Types
    <2>2. CASE m \in cone
      <3>1. WaitingOn(m, cone) \subseteq after
        BY <1>1, <1>2 DEF WaitingOn, Waits, InState, Final, Types
      <3>2. lf[m] = Cardinality(WaitingOn(m, cone))
        BY <2>2 DEF LeftAnew
      <3> HIDE DEF after
      <3>3. Cardinality(WaitingOn(m, cone)) <= Cardinality(after)
        BY <2>1, <3>1, Inclusion
      <3> QED
        BY <3>2, <3>3 DEF after
    <2>3. CASE m \notin cone
      <3> DEFINE before == Waits(m, state, hooks)
      <3>1. state[m] = "pending" /\ lf[m] = left[m]
        BY <1>2, <2>3 DEF LeftAnew
      <3>2. before \subseteq after
        <4> SUFFICES ASSUME NEW d \in before PROVE d \in after
          OBVIOUS
        <4>1. d \in Nodes /\ d \in deps[m]
          BY DEF Waits, Types
        <4>2. CASE state[d] \notin Final
          BY <1>2, <4>1, <4>2 DEF Waits, Final
        <4>3. CASE state[d] \in Final
          <5>1. hooks[d] > 0 /\ state[d] \in {"done", "failed"}
            BY <4>3 DEF Waits, Final
          <5>2. d # n
            BY <1>1, <2>3, <3>1, <4>1, <5>1
          <5>3. hk[d] = hooks[d]
            BY <4>1, <5>2 DEF Types
          <5> QED
            BY <1>2, <4>1, <5>1, <5>3 DEF Waits, Final
        <4> QED
          BY <4>2, <4>3
      <3>3. left[m] <= Cardinality(before) /\ left[m] \in Nat
        BY <1>9, <3>1 DEF Orderly, Types
      <3> HIDE DEF before, after
      <3>4. /\ Cardinality(before) <= Cardinality(after)
            /\ Cardinality(before) \in Nat /\ Cardinality(after) \in Nat
        BY <2>1, <3>2, Inclusion
      <3>5. lf[m] <= Cardinality(after)
        BY <3>1, <3>3, <3>4
      <3> QED
        BY <3>5 DEF after
    <2> QED
      BY <2>2, <2>3
  <1> QED
    BY <1>3, <1>5, <1>6, <1>7, <1>8, <1>9

-----------------------------------------------------------------------------
(* The steps.                                                              *)

\* What holds of every step from a state of RunInv; the second part needs
\* hooks that do not throw before they return a promise.
Kept ==
    /\ RunInv'
    /\ "throw" \notin HookAnswers /\ Orderly(state, left, hooks)
          => Orderly(state, left, hooks)' /\ NoIdleSlot'

\* When all have settled there is no node in another state.
LEMMA AllSettled ==
    ASSUME NEW st, NEW run, NEW out, NEW fl, NEW skip, Books(st, run, N, out, fl, skip)
    PROVE  \A n \in Nodes : st[n] \in Final
  <1>1. IsFiniteSet(Nodes) /\ Cardinality(Nodes) = N
    BY NodesAssumption, FS_Interval
  <1>2. InState(st, Final) \in SUBSET Nodes /\ Cardinality(InState(st, Final)) = Cardinality(Nodes)
    BY <1>1, States DEF Books
  <1>3. InState(st, Final) = Nodes
    BY <1>1, <1>2, FS_Subset
  <1> QED
    BY <1>3, States

\* The step of every handler that ends in the pump: what holds of the data it
\* hands to the pump holds of the state it leaves.
LEMMA PumpStep ==
    ASSUME Types, NEW st \in [Nodes -> NodeState], NEW lf \in [Nodes -> 0..N],
           NEW hk \in [Nodes -> Nat], NEW r \in 0..MaxReplans, NEW ab \in BOOLEAN,
           NEW run, NEW sett, NEW out, NEW fl, NEW skip,
           Books(st, run, sett, out, fl, skip), Counted(st, lf), HooksBounded(st, hk, r),
           r = 0 => /\ short = {} /\ Contained(st, lf, hk, ab)
                    /\ returned => \A m \in Nodes : st[m] \in Final,
           PumpAndFinish(st, run, sett, out, ab, skip),
           left' = lf, hooks' = hk, outputs' = out, failed' = fl, replans' = r,
           aborted' = ab, deps' = deps, hooked' = hooked
    PROVE  /\ RunInv'
           /\ Orderly(st, lf, hk) => Orderly(state, left, hooks)'
           /\ NoIdleSlot'
  <1>1. deps \in [Nodes -> SUBSET Nodes] /\ short \in SUBSET Nodes /\ returned \in BOOLEAN
    BY DEF Types
  <1>2. /\ PumpRelation(st, run, sett, ab, skip, state', running', settled', skipped')
        /\ returned' = (returned \/ (settled' = N /\ running' = 0))
        /\ short' = short \cup
              {m \in (IF ab THEN {} ELSE Begun(st, run)) : ~ deps[m] \subseteq out}
    BY DEF PumpAndFinish, PumpRelation
  <1>3. /\ short' \in SUBSET Nodes
        /\ \A m \in short' : m \in short \/ (st[m] = "ready" /\ ~(deps[m] \subseteq out))
    BY <1>1, <1>2 DEF Begun
  <1>4. /\ state' \in [Nodes -> NodeState]
        /\ Books(state', running', settled', out, fl, skipped')
        /\ PumpMoves(st, ab, state')
        /\ InState(state', {"ready"}) # {} => running' >= Concurrency
    BY <1>2, PumpFacts
  <1>5. /\ Counted(state', lf)
        /\ HooksBounded(state', hk, r)
        /\ Contained(st, lf, hk, ab) => Contained(state', lf, hk, ab)
        /\ Orderly(st, lf, hk) => Orderly(state', lf, hk)
    BY <1>1, <1>4, PumpKeeps
  <1>6. Types'
    BY <1>1, <1>2, <1>3, <1>4 DEF Types
  <1>7. r = 0 => short' = {}
    <2> SUFFICES ASSUME r = 0, NEW m \in short' PROVE FALSE
      OBVIOUS
    <2>1. st[m] = "ready" /\ ~(deps[m] \subseteq out) /\ m \in Nodes
      BY <1>3
    <2>2. deps[m] \subseteq InState(st, {"done"})
      BY <2>1 DEF Contained
    <2> QED
      BY <2>1, <2>2 DEF Books
  <1>8. r = 0 /\ returned' => \A m \in Nodes : state'[m] \in Final
    <2> SUFFICES ASSUME r = 0, returned' PROVE \A m \in Nodes : state'[m] \in Final
      OBVIOUS
    <2>1. CASE returned
      BY <2>1, <1>4 DEF PumpMoves, Final
    <2>2. CASE settled' = N
      BY <2>2, <1>4, AllSettled
    <2> QED
      BY <1>2, <2>1, <2>2
  <1>9. Books(state, running, settled, outputs, failed, skipped)'
    BY <1>4 DEF Books
  <1>10. /\ Counted(state, left)'
         /\ HooksBounded(state, hooks, replans)'
         /\ replans' = 0 => Contained(state, left, hooks, aborted)'
    BY <1>5 DEF Counted, HooksBounded, Contained, Unmet
  <1>11. RunInv'
    BY <1>6, <1>7, <1>8, <1>9, <1>10 DEF RunInv, ReturnedIsSettled
  <1>12. Orderly(st, lf, hk) => Orderly(state, left, hooks)'
    BY <1>5 DEF Orderly, Waits
  <1>13. NoIdleSlot'
    <2>1. running' \in Nat
      BY <1>4, States, Sizes DEF Books
    <2> QED
      BY <1>4, <2>1, ConcurrencyAssumption DEF NoIdleSlot
  <1> QED
    BY <1>11, <1>12, <1>13

LEMMA SettleStep ==
    ASSUME RunInv, NEW n \in Nodes, NEW result \in {"done", "failed"}, Settle(n, result)
    PROVE  Kept
  <1> DEFINE skip == SkippedWith(n, result)
             st   == Ended(state, n, result, skip)
             hk   == [hooks EXCEPT ![n] = @ + 1]
             out  == IF result = "done" THEN outputs \cup {n} ELSE outputs
             fl   == IF result = "failed" THEN failed \cup {n} ELSE failed
             sett == settled + 1 + Cardinality(skip)
  <1>1. /\ state[n] = "running"
        /\ outputs' = out /\ failed' = fl
        /\ UNCHANGED <<deps, hooked, replans, aborted>>
        /\ \/ /\ ~hooked
              /\ left' = LeftAfter(n, st)
              /\ PumpAndFinish(StateAfter(n, st), running - 1, sett, out, aborted, skipped \cup skip)
              /\ hooks' = hooks
           \/ /\ hooked
              /\ hooks' = hk \/ ("throw" \in HookAnswers /\ hooks' = hooks)
              /\ state' = st
              /\ skipped' = skipped \cup skip
              /\ running' = running - 1
              /\ settled' = sett
              /\ UNCHANGED <<left, returned, short>>
    BY DEF Settle, Ended, SkippedWith, planVars
  <1>2. /\ st \in [Nodes -> NodeState] /\ st[n] = result
    BY <1>1, EndedFacts DEF RunInv
  <1>3. Books(st, running - 1, sett, out, fl, skipped \cup skip)
    BY <1>1, EndedBooks DEF RunInv
  <1>4. /\ Counted(st, left)
        /\ HooksBounded(st, hooks, replans)
        /\ HooksBounded(st, hk, replans)
        /\ Contained(state, left, hooks, aborted) => Contained(st, left, hk, aborted)
        /\ Orderly(state, left, hooks) => Orderly(st, left, hk)
    BY <1>1, EndedKeeps DEF RunInv
  <1>5. /\ hk \in [Nodes -> Nat] /\ hk[n] = hooks[n] + 1
        /\ hooks = [hk EXCEPT ![n] = @ - 1]
        /\ hooks \in [Nodes -> Nat]
        /\ \A m \in Nodes : m # n => hk[m] = hooks[m]
    <2>1. hooks \in [Nodes -> Nat]
      BY DEF RunInv, Types
    <2>2. hk \in [Nodes -> Nat] /\ hk[n] = hooks[n] + 1 /\ \A m \in Nodes : m # n => hk[m] = hooks[m]
      BY <2>1
    <2>3. hk[n] - 1 = hooks[n]
      BY <2>1, <2>2
    <2> HIDE DEF hk
    <2>4. hooks = [hk EXCEPT ![n] = @ - 1]
      BY <2>1, <2>2, <2>3
    <2> QED
      BY <2>1, <2>2, <2>4
  <1>6. Types /\ Counted(state, left) /\ (replans = 0 => ~returned)
    BY <1>1 DEF RunInv, ReturnedIsSettled, Final
  <1> HIDE DEF skip, st, hk, out, fl, sett
  <1>7. CASE hooked
    <2>1. /\ hooks' = hk \/ ("throw" \in HookAnswers /\ hooks' = hooks)
          /\ state' = st /\ skipped' = skipped \cup skip /\ running' = running - 1
          /\ settled' = sett /\ left' = left /\ returned' = returned /\ short' = short
          /\ outputs' = out /\ failed' = fl
          /\ UNCHANGED <<deps, hooked, replans, aborted>>
      BY <1>1, <1>7
    <2>2. Types'
      BY <1>2, <1>5, <1>6, <2>1 DEF Types
    <2>3. Contained(st, left, hk, aborted) => Contained(st, left, hooks, aborted)
      <3>1. \A m \in Nodes : hooks[m] <= hk[m] /\ hooks[m] \in Nat /\ hk[m] \in Nat
        BY <1>5, <1>6 DEF Types
      <3>2. ASSUME NEW m \in Nodes, Cardinality(Unmet(m, st, hk)) <= left[m]
            PROVE  Cardinality(Unmet(m, st, hooks)) <= left[m]
        <4> DEFINE few == Unmet(m, st, hooks)
                   many == Unmet(m, st, hk)
        <4>1. few \in SUBSET many /\ many \in SUBSET Nodes
          BY <1>6, <3>1 DEF Unmet, Types
        <4>2. left[m] \in Nat
          BY <1>6 DEF Types
        <4> HIDE DEF few, many
        <4>3. Cardinality(few) <= Cardinality(many)
              /\ Cardinality(few) \in Nat /\ Cardinality(many) \in Nat
          BY <4>1, Inclusion
        <4> QED
          BY <3>2, <4>2, <4>3 DEF few, many
      <3> QED
        BY <3>2 DEF Contained
    <2>4. replans = 0 => Contained(st, left, hooks', aborted)
      BY <1>4, <2>1, <2>3 DEF RunInv
    <2>5. RunInv'
      BY <1>3, <1>4, <1>6, <2>1, <2>2, <2>4 DEF RunInv, ReturnedIsSettled, Books, Counted,
         HooksBounded, Contained, Unmet
    <2>6. ASSUME "throw" \notin HookAnswers, Orderly(state, left, hooks)
          PROVE  Orderly(state, left, hooks)' /\ NoIdleSlot'
      <3>1. hooks' = hk
        BY <2>1, <2>6
      <3>2. Orderly(state, left, hooks)'
        BY <1>4, <2>1, <2>6, <3>1 DEF Orderly, Waits
      <3>3. hooks'[n] > 0
        BY <1>5, <1>6, <3>1 DEF Types
      <3> QED
        BY <3>2, <3>3 DEF NoIdleSlot
    <2> QED
      BY <2>5, <2>6 DEF Kept
  <1>8. CASE ~hooked
    <2> DEFINE st1 == StateAfter(n, st)
               lf1 == LeftAfter(n, st)
    <2>1. /\ left' = lf1
          /\ PumpAndFinish(st1, running - 1, sett, out, aborted, skipped \cup skip)
          /\ hooks' = hooks /\ outputs' = out /\ failed' = fl
          /\ UNCHANGED <<deps, hooked, replans, aborted>>
      BY <1>1, <1>8
    <2>2. /\ deps \in [Nodes -> SUBSET Nodes] /\ left \in [Nodes -> 0..N]
          /\ hooks[n] \in Nat /\ aborted \in BOOLEAN /\ replans \in 0..MaxReplans
      BY <1>6 DEF Types
    <2>3. /\ st1 \in [Nodes -> NodeState]
          /\ lf1 \in [Nodes -> 0..N]
          /\ \A m \in Nodes : st1[m] = st[m] \/ (st[m] = "pending" /\ st1[m] = "ready")
          /\ Counted(st1, lf1)
      BY <1>2, <1>4, <2>2, FinishFacts
    <2>4. Books(st1, running - 1, sett, out, fl, skipped \cup skip)
      BY <1>3, <2>3, FinishBooks
    <2>5. hk[n] > 0
      BY <1>5, <2>2
    <2>6. replans = 0 => Contained(st1, lf1, hooks, aborted)
      <3> SUFFICES ASSUME replans = 0 PROVE Contained(st1, lf1, hooks, aborted)
        OBVIOUS
      <3>1. hooks[n] <= replans + 0
        BY <1>1 DEF RunInv, HooksBounded
      <3>2. hk[n] - 1 = 0
        BY <1>5, <2>2, <3>1
      <3>3. hooks = [hk EXCEPT ![n] = 0]
        BY <1>5, <3>2
      <3>4. Contained(st, left, hk, aborted)
        BY <1>4 DEF RunInv
      <3>5. st[n] \in {"done", "failed"}
        BY <1>2
      <3>6. Contained(st1, lf1, [hk EXCEPT ![n] = 0], aborted)
        <4>1. /\ Counted(st, left) /\ hk \in [Nodes -> Nat]
              /\ st \in [Nodes -> NodeState]
          BY <1>2, <1>4, <1>5
        <4> QED
          BY <2>2, <2>5, <3>4, <3>5, <4>1, FinishContained
      <3> QED
        BY <3>3, <3>6, Zenon
    <2>7. Orderly(state, left, hooks) => Orderly(st1, lf1, hooks)
      BY <1>2, <1>4, <1>5, <2>2, <2>5, FinishOrderly
    <2>8. replans = 0 => short = {} /\ ~returned
      BY <1>6 DEF RunInv
    <2> HIDE DEF st1, lf1
    <2>9. HooksBounded(st1, hooks, replans)
      BY <1>4, <2>3 DEF HooksBounded
    <2>10. /\ RunInv'
           /\ Orderly(st1, lf1, hooks) => Orderly(state, left, hooks)'
           /\ NoIdleSlot'
      BY <1>5, <1>6, <2>1, <2>2, <2>3, <2>4, <2>6, <2>8, <2>9, PumpStep
    <2> QED
      BY <2>7, <2>10 DEF Kept
  <1> QED
    BY <1>6, <1>7, <1>8 DEF Types

\* The answer of a hook: finish(true).
LEMMA ContinueStep ==
    ASSUME RunInv, NEW n \in Nodes, NEW answer, Continue(n, answer)
    PROVE  Kept
  <1> DEFINE hk == [hooks EXCEPT ![n] = @ - 1]
             st1 == StateAfter(n, state)
             lf1 == LeftAfter(n, state)
             ab == aborted \/ answer = "abort"
  <1>1. /\ hooks[n] > 0
        /\ hooks' = hk /\ aborted' = ab /\ left' = lf1
        /\ PumpAndFinish(st1, running, settled, outputs, ab, skipped)
        /\ UNCHANGED <<deps, hooked, outputs, failed, replans>>
    BY DEF Continue, planVars
  <1>2. /\ Types
        /\ deps \in [Nodes -> SUBSET Nodes] /\ left \in [Nodes -> 0..N]
        /\ state \in [Nodes -> NodeState]
        /\ hooks \in [Nodes -> Nat] /\ hooks[n] \in Nat
        /\ aborted \in BOOLEAN /\ ab \in BOOLEAN /\ (aborted => ab)
        /\ replans \in 0..MaxReplans
    BY DEF RunInv, Types
  <1>3. /\ Books(state, running, settled, outputs, failed, skipped)
        /\ Counted(state, left) /\ HooksBounded(state, hooks, replans)
        /\ replans = 0 => /\ short = {}
                          /\ Contained(state, left, hooks, aborted)
                          /\ returned => \A m \in Nodes : state[m] \in Final
    BY DEF RunInv, ReturnedIsSettled
  <1>4. hk \in [Nodes -> Nat] /\ \A m \in Nodes : hk[m] <= hooks[m]
    <2>1. hooks[n] - 1 \in Nat /\ hooks[n] - 1 <= hooks[n]
      BY <1>1, <1>2
    <2>2. \A m \in Nodes : hooks[m] \in Nat
      BY <1>2
    <2> QED
      BY <1>2, <2>1, <2>2
  <1> HIDE DEF ab
  <1>5. HooksBounded(state, hk, replans)
    <2> HIDE DEF hk
    <2>1. ASSUME NEW m \in Nodes
          PROVE  hk[m] <= replans + (IF state[m] \in {"done", "failed"} THEN 1 ELSE 0)
      <3>1. hk[m] \in Nat /\ hooks[m] \in Nat /\ hk[m] <= hooks[m]
        BY <1>2, <1>4
      <3>2. hooks[m] <= replans + (IF state[m] \in {"done", "failed"} THEN 1 ELSE 0)
        BY <1>3 DEF HooksBounded
      <3> QED
        BY <1>2, <3>1, <3>2
    <2> QED
      BY <2>1 DEF HooksBounded
  <1>6. /\ st1 \in [Nodes -> NodeState]
        /\ lf1 \in [Nodes -> 0..N]
        /\ \A m \in Nodes : st1[m] = state[m] \/ (state[m] = "pending" /\ st1[m] = "ready")
        /\ Counted(st1, lf1)
    BY <1>2, <1>3, FinishFacts
  <1>7. Books(st1, running, settled, outputs, failed, skipped)
    BY <1>3, <1>6, FinishBooks
  <1>8. replans = 0 => Contained(st1, lf1, hk, ab)
    <2> SUFFICES ASSUME replans = 0 PROVE Contained(st1, lf1, hk, ab)
      OBVIOUS
    <2>1. hooks[n] <= 0 + (IF state[n] \in {"done", "failed"} THEN 1 ELSE 0)
      BY <1>3 DEF HooksBounded
    <2>2. state[n] \in {"done", "failed"} /\ hooks[n] - 1 = 0
      BY <1>1, <1>2, <2>1
    <2>3. hk = [hooks EXCEPT ![n] = 0]
      BY <2>2
    <2>4. Contained(st1, lf1, [hooks EXCEPT ![n] = 0], aborted)
      BY <1>1, <1>2, <1>3, <2>2, FinishContained
    <2> HIDE DEF hk, st1, lf1
    <2>5. Contained(st1, lf1, hk, aborted)
      BY <2>3, <2>4, Zenon
    <2> QED
      BY <1>2, <2>5 DEF Contained
  <1>9. Orderly(state, left, hooks) => Orderly(st1, lf1, hk)
    BY <1>1, <1>2, <1>3, <1>4, FinishOrderly
  <1>10. replans = 0 /\ returned => \A m \in Nodes : st1[m] \in Final
    BY <1>3, <1>6 DEF Final
  <1> HIDE DEF hk, st1, lf1
  <1>11. HooksBounded(st1, hk, replans)
    BY <1>5, <1>6 DEF HooksBounded
  <1>12. /\ RunInv'
         /\ Orderly(st1, lf1, hk) => Orderly(state, left, hooks)'
         /\ NoIdleSlot'
    BY <1>1, <1>2, <1>3, <1>4, <1>6, <1>7, <1>8, <1>10, <1>11, PumpStep
  <1> QED
    BY <1>9, <1>12 DEF Kept

LEMMA ReplanStep ==
    ASSUME RunInv, NEW n \in Nodes, Replan(n)
    PROVE  Kept
  <1> DEFINE cone == Cone(n)
             reset == cone \cap InState(state, {"done", "failed"})
             hk == [hooks EXCEPT ![n] = @ - 1]
             st == Rewound(cone)
             lf == LeftAnew(cone)
  <1>1. /\ hooks[n] > 0 /\ replans < MaxReplans /\ ~aborted
        /\ hooks' = hk /\ replans' = replans + 1
        /\ outputs' = outputs \ reset /\ failed' = failed \ reset
        /\ left' = lf
        /\ PumpAndFinish(st, running, settled - Cardinality(reset), outputs \ reset, FALSE, skipped)
        /\ UNCHANGED <<deps, hooked, aborted>>
    BY DEF Replan, planVars, Rewound, LeftAnew
  <1>2. /\ Types /\ hooks \in [Nodes -> Nat] /\ hooks[n] \in Nat
        /\ replans \in 0..MaxReplans /\ aborted = FALSE
    BY <1>1 DEF RunInv, Types
  <1>3. hk \in [Nodes -> Nat]
    <2>1. hooks[n] - 1 \in Nat
      BY <1>1, <1>2
    <2> QED
      BY <1>2, <2>1
  <1>4. replans + 1 \in 0..MaxReplans /\ replans + 1 # 0
    BY <1>1, <1>2, ReplansAssumption
  <1> HIDE DEF cone, reset, hk
  <1>5. /\ st \in [Nodes -> NodeState]
        /\ lf \in [Nodes -> 0..N]
        /\ Books(st, running, settled - Cardinality(reset),
                 outputs \ reset, failed \ reset, skipped)
        /\ Counted(st, lf)
        /\ HooksBounded(st, hk, replans + 1)
        /\ Orderly(state, left, hooks) => Orderly(st, lf, hk)
    BY <1>1, <1>2, ReplanFacts DEF RunInv, cone, reset, hk
  <1> HIDE DEF st, lf
  <1>6. /\ RunInv'
        /\ Orderly(st, lf, hk) => Orderly(state, left, hooks)'
        /\ NoIdleSlot'
    BY <1>1, <1>2, <1>3, <1>4, <1>5, PumpStep
  <1> QED
    BY <1>5, <1>6 DEF Kept

-----------------------------------------------------------------------------
(* The run.                                                                *)

LEMMA InitHolds ==
    ASSUME Init
    PROVE  RunInv /\ Orderly(state, left, hooks) /\ NoIdleSlot
  <1> DEFINE first == [n \in Nodes |-> IF deps[n] = {} THEN "ready" ELSE "pending"]
             begun == Begun(first, 0)
  <1>1. /\ deps \in [Nodes -> SUBSET Nodes] /\ hooked \in BOOLEAN
        /\ state = [n \in Nodes |-> IF n \in begun THEN "running" ELSE first[n]]
        /\ running = Cardinality(begun)
        /\ left = [n \in Nodes |-> Cardinality(deps[n])]
        /\ outputs = {} /\ failed = {} /\ skipped = {} /\ short = {}
        /\ settled = 0 /\ hooks = [n \in Nodes |-> 0] /\ replans = 0
        /\ aborted = FALSE /\ returned = FALSE
    BY PlansAssumption DEF Init
  <1>2. \A n \in Nodes : /\ deps[n] \in SUBSET Nodes
                         /\ Cardinality(deps[n]) \in 0..N
                         /\ deps[n] # {} => Cardinality(deps[n]) >= 1
    <2> TAKE n \in Nodes
    <2>1. deps[n] \in SUBSET Nodes
      BY <1>1
    <2>2. IsFiniteSet(deps[n]) /\ Cardinality(deps[n]) \in 0..N
      BY <2>1, Sizes
    <2>3. Cardinality(deps[n]) = 0 => deps[n] = {}
      BY <2>2, FS_EmptySet
    <2> QED
      BY <2>1, <2>2, <2>3, NodesAssumption
  <1>3. /\ first \in [Nodes -> NodeState]
        /\ \A n \in Nodes : IF deps[n] = {} THEN first[n] = "ready" ELSE first[n] = "pending"
    BY DEF NodeState
  <1> HIDE DEF first
  <1>4. left \in [Nodes -> 0..N] /\ \A n \in Nodes : left[n] = Cardinality(deps[n])
    BY <1>1, <1>2
  <1>5. hooks \in [Nodes -> Nat] /\ \A n \in Nodes : hooks[n] = 0
    BY <1>1
  <1>6. Books(first, 0, 0, {}, {}, {})
    <2>1. /\ InState(first, Final) = {} /\ InState(first, {"running"}) = {}
          /\ InState(first, {"done"}) = {} /\ InState(first, {"failed"}) = {}
          /\ InState(first, {"skipped"}) = {}
      BY <1>3 DEF InState, Final
    <2>2. Cardinality(InState(first, Final)) = 0 /\ Cardinality(InState(first, {"running"})) = 0
      BY <2>1, FS_EmptySet
    <2> QED
      BY <2>1, <2>2, ConcurrencyAssumption DEF Books
  <1>7. PumpRelation(first, 0, 0, aborted, {}, state, running, settled, skipped)
    <2>1. Cardinality({}) = 0
      BY FS_EmptySet
    <2>2. begun \subseteq Nodes
      BY DEF Begun
    <2>3. Cardinality(begun) \in Nat
      BY <2>2, Sizes
    <2> HIDE DEF begun
    <2>4. running = 0 + Cardinality(begun) /\ settled = 0 + Cardinality({})
          /\ skipped = {} \cup {}
      BY <1>1, <2>1, <2>3
    <2>5. state = [n \in Nodes |-> CASE n \in {}    -> "skipped"
                                     [] n \in begun -> "running"
                                     [] OTHER       -> first[n]]
      BY <1>1
    <2> QED
      BY <1>1, <2>4, <2>5 DEF PumpRelation, begun
  <1>8. /\ state \in [Nodes -> NodeState]
        /\ Books(state, running, settled, outputs, failed, skipped)
        /\ PumpMoves(first, aborted, state)
        /\ InState(state, {"ready"}) # {} => running >= Concurrency
    <2>1. aborted \in BOOLEAN
      BY <1>1
    <2>2. /\ state \in [Nodes -> NodeState]
          /\ Books(state, running, settled, {}, {}, skipped)
          /\ PumpMoves(first, aborted, state)
          /\ InState(state, {"ready"}) # {} => running >= Concurrency
      BY <1>3, <1>6, <1>7, <2>1, PumpFacts
    <2> QED
      BY <1>1, <2>2 DEF Books
  <1>9. /\ Counted(first, left)
        /\ HooksBounded(first, hooks, replans)
        /\ Contained(first, left, hooks, aborted)
        /\ Orderly(first, left, hooks)
    <2>1. Counted(first, left)
      BY <1>2, <1>3, <1>4 DEF Counted
    <2>2. HooksBounded(first, hooks, replans)
      BY <1>1, <1>3, <1>5 DEF HooksBounded
    <2>3. \A n \in Nodes : Cardinality(Unmet(n, first, hooks)) <= left[n]
      <3> SUFFICES ASSUME NEW n \in Nodes
                   PROVE  Cardinality(Unmet(n, first, hooks)) <= Cardinality(deps[n])
        BY <1>4
      <3>1. Unmet(n, first, hooks) \in SUBSET deps[n]
        BY DEF Unmet
      <3> QED
        BY <1>2, <3>1, Inclusion
    <2>4. Contained(first, left, hooks, aborted)
      BY <1>1, <1>3, <2>3 DEF Contained, InState
    <2>5. \A n \in Nodes : Waits(n, first, hooks) = deps[n]
      BY <1>2, <1>3 DEF Waits, Final
    <2>6. \A n \in Nodes : left[n] <= Cardinality(Waits(n, first, hooks))
      <3> SUFFICES ASSUME NEW n \in Nodes
                   PROVE  left[n] <= Cardinality(Waits(n, first, hooks))
        OBVIOUS
      <3>1. Cardinality(Waits(n, first, hooks)) = Cardinality(deps[n])
        BY <2>5, Zenon
      <3> QED
        BY <1>2, <1>4, <3>1
    <2> QED
      BY <2>1, <2>2, <2>4, <2>6 DEF Orderly
  <1>10. /\ Counted(state, left)
         /\ HooksBounded(state, hooks, replans)
         /\ Contained(state, left, hooks, aborted)
         /\ Orderly(state, left, hooks)
    <2>1. aborted \in BOOLEAN /\ deps \in [Nodes -> SUBSET Nodes]
      BY <1>1
    <2> QED
      BY <1>3, <1>8, <1>9, <2>1, PumpKeeps
  <1>11. Types
    <2>1. /\ short \in SUBSET Nodes /\ replans \in 0..MaxReplans
          /\ aborted \in BOOLEAN /\ returned \in BOOLEAN
      <3>1. replans \in 0..MaxReplans
        BY <1>1, ReplansAssumption
      <3>2. short \in SUBSET Nodes
        BY <1>1
      <3>3. aborted \in BOOLEAN /\ returned \in BOOLEAN
        BY <1>1
      <3> QED
        BY <3>1, <3>2, <3>3
    <2>2. deps \in [Nodes -> SUBSET Nodes] /\ hooked \in BOOLEAN
      BY <1>1
    <2> QED
      BY <1>4, <1>5, <1>8, <2>1, <2>2 DEF Types
  <1>12. RunInv
    BY <1>1, <1>8, <1>10, <1>11 DEF RunInv, ReturnedIsSettled
  <1>13. NoIdleSlot
    <2>1. running \in Nat
      BY <1>8, States, Sizes DEF Books
    <2> QED
      BY <1>8, <2>1, ConcurrencyAssumption DEF NoIdleSlot
  <1> QED
    BY <1>10, <1>12, <1>13

LEMMA NextHolds ==
    ASSUME RunInv, [Next]_vars
    PROVE  /\ RunInv'
           /\ "throw" \notin HookAnswers /\ Orderly(state, left, hooks) /\ NoIdleSlot
                 => Orderly(state, left, hooks)' /\ NoIdleSlot'
  <1>1. CASE UNCHANGED vars
    <2>1. RunInv'
      BY <1>1 DEF vars, planVars, counters, RunInv, Types, Books, Counted, HooksBounded,
         Contained, Unmet, ReturnedIsSettled
    <2>2. Orderly(state, left, hooks) => Orderly(state, left, hooks)'
      BY <1>1 DEF vars, planVars, counters, Orderly, Waits
    <2>3. NoIdleSlot => NoIdleSlot'
      BY <1>1 DEF vars, planVars, counters, NoIdleSlot
    <2> QED
      BY <2>1, <2>2, <2>3
  <1>2. CASE Next
    <2>1. PICK n \in Nodes : Settle(n, "done") \/ Settle(n, "failed") \/ HookAnswer(n)
      BY <1>2 DEF Next
    <2>2. CASE Settle(n, "done") \/ Settle(n, "failed")
      BY <2>2, SettleStep DEF Kept
    <2>3. CASE HookAnswer(n)
      BY <2>3, ContinueStep, ReplanStep DEF HookAnswer, Kept
    <2> QED
      BY <2>1, <2>2, <2>3
  <1> QED
    BY <1>1, <1>2

-----------------------------------------------------------------------------
(* What the invariant says.                                                *)

\* The inductive invariant of the runner, for every plan and every hook.
THEOREM RunnerInvariant == Spec => []RunInv
  <1>1. Init => RunInv
    BY InitHolds
  <1>2. RunInv /\ [Next]_vars => RunInv'
    BY NextHolds
  <1> QED
    BY <1>1, <1>2, PTL DEF Spec

\* Every variable keeps its type; in particular the counters stay within the
\* number of nodes, and no node has more hooks out than one and the replans.
THEOREM TypeCorrect == Spec => []TypeOK
  <1>1. ASSUME RunInv PROVE TypeOK
    <2>1. running \in 0..N /\ settled \in 0..N
      BY <1>1, States, Sizes DEF RunInv, Books
    <2>2. hooks \in [Nodes -> 0..(MaxReplans + 1)]
      <3>1. hooks \in [Nodes -> Nat] /\ replans \in 0..MaxReplans
        BY <1>1 DEF RunInv, Types
      <3>2. \A n \in Nodes : hooks[n] <= replans + (IF state[n] \in {"done", "failed"} THEN 1 ELSE 0)
        BY <1>1 DEF RunInv, HooksBounded
      <3>3. \A n \in Nodes : hooks[n] \in 0..(MaxReplans + 1)
        <4> TAKE n \in Nodes
        <4>1. hooks[n] \in Nat /\ hooks[n] <= replans + 1
          BY <3>1, <3>2
        <4> QED
          BY <3>1, <4>1, ReplansAssumption
      <3> QED
        BY <3>1, <3>3
    <2>3. outputs \subseteq Nodes /\ failed \subseteq Nodes /\ skipped \subseteq Nodes
      BY <1>1, States DEF RunInv, Books
    <2> QED
      BY <1>1, <2>1, <2>2, <2>3 DEF RunInv, Types, TypeOK
  <1> QED
    BY <1>1, RunnerInvariant, PTL

\* The counters and lists the runner ends on agree with the states of the nodes
\* through every failure, replan and abort, also when hooks throw.
THEOREM BooksCorrect == Spec => []BooksAgree
  <1>1. RunInv => BooksAgree
    BY DEF RunInv, Books, BooksAgree
  <1> QED
    BY <1>1, RunnerInvariant, PTL

\* Before any replan no node starts without the outputs of its dependencies,
\* and a failure is contained in its subtree: all of that, and only that.
THEOREM InputsCorrect == Spec => []InputsComplete
  <1>1. ASSUME RunInv PROVE InputsComplete
    <2> SUFFICES ASSUME replans = 0
                 PROVE  /\ short = {}
                        /\ \A n \in skipped : aborted \/ deps[n] \cap (failed \cup skipped) # {}
                        /\ \A n \in failed : Dependents[n] \subseteq skipped
      BY DEF InputsComplete
    <2>1. /\ short = {} /\ Contained(state, left, hooks, aborted)
          /\ failed = InState(state, {"failed"}) /\ skipped = InState(state, {"skipped"})
          /\ state \in [Nodes -> NodeState]
      BY <1>1 DEF RunInv, Books, Types
    <2>2. ASSUME NEW n \in skipped
          PROVE  aborted \/ deps[n] \cap (failed \cup skipped) # {}
      BY <2>1, <2>2 DEF Contained, InState
    <2>3. ASSUME NEW n \in failed, NEW m \in Dependents[n]
          PROVE  m \in skipped
      <3>1. n \in Nodes /\ m \in Nodes /\ n \in deps[m] /\ state[n] = "failed"
        BY <2>1, DependentsFacts DEF InState
      <3>2. state[m] \notin {"pending", "ready", "running", "done", "failed"}
        BY <2>1, <3>1 DEF Contained, InState
      <3> QED
        BY <2>1, <3>1, <3>2 DEF InState, NodeState
    <2> QED
      BY <2>1, <2>2, <2>3
  <1> QED
    BY <1>1, RunnerInvariant, PTL

\* "Never before": a run that made no replan returns only when every node is
\* done, failed or skipped.  (With replans it may return before; a run shows it.)
THEOREM ReturnsSettled == Spec => [](replans = 0 => ReturnedIsSettled)
  <1>1. RunInv => (replans = 0 => ReturnedIsSettled)
    BY DEF RunInv
  <1> QED
    BY <1>1, RunnerInvariant, PTL

\* What the waiting needs beside the invariant: no pending node has more to
\* count down than dependencies that are still to report.
WaitInv == RunInv /\ Orderly(state, left, hooks) /\ NoIdleSlot

LEMMA WaitHolds ==
    ASSUME "throw" \notin HookAnswers
    PROVE  Spec => []WaitInv
  <1>1. Init => WaitInv
    BY InitHolds DEF WaitInv
  <1>2. WaitInv /\ [Next]_vars => WaitInv'
    BY NextHolds DEF WaitInv
  <1> QED
    BY <1>1, <1>2, PTL DEF Spec

\* With hooks that do not throw before they return a promise (an async function
\* never does), a ready node waits only while every slot is taken: each handler
\* ends in the pump, which leaves one only for want of a slot.
THEOREM SlotsUsed ==
    ASSUME "throw" \notin HookAnswers
    PROVE  Spec => []NoIdleSlot
  <1>1. WaitInv => NoIdleSlot
    BY DEF WaitInv
  <1> QED
    BY <1>1, WaitHolds, PTL

\* With such hooks a pending node has a dependency that will still report, by
\* settling or by its hook's answer: no node is forgotten.
THEOREM NothingForgotten ==
    ASSUME "throw" \notin HookAnswers
    PROVE  Spec => []NoOrphanWait
  <1>1. ASSUME WaitInv PROVE NoOrphanWait
    <2> SUFFICES ASSUME NEW n \in InState(state, {"pending"})
                 PROVE  \E m \in deps[n] : state[m] \notin Final \/ hooks[m] > 0
      BY DEF NoOrphanWait
    <2>1. n \in Nodes /\ state[n] = "pending"
      BY DEF InState
    <2>2. left[n] \in Nat /\ left[n] >= 1 /\ left[n] <= Cardinality(Waits(n, state, hooks))
      BY <1>1, <2>1 DEF WaitInv, RunInv, Types, Counted, Orderly
    <2>3. Waits(n, state, hooks) # {}
      <3> SUFFICES ASSUME Waits(n, state, hooks) = {} PROVE FALSE
        OBVIOUS
      <3>1. Cardinality(Waits(n, state, hooks)) = Cardinality({})
        BY Zenon
      <3> QED
        BY <2>2, <3>1, FS_EmptySet
    <2> QED
      BY <2>3 DEF Waits
  <1> QED
    BY <1>1, WaitHolds, PTL
=============================================================================
