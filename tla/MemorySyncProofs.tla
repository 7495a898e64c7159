-------------------------- MODULE MemorySyncProofs --------------------------
(***************************************************************************)
(* MemorySync for any number of processes, facts, edits and clock readings.*)
(*                                                                         *)
(* A sync takes the steps of the lock, so at most one process is inside a  *)
(* sync (SyncIsMutual) until somebody strays.  Under that, and until the   *)
(* clock is set back, SyncInv is inductive.  WorldInv says what is true of *)
(* the disk and the sinks, whoever died where: above all, that what was    *)
(* sent of a fact's present version has its intent file or its checkpoint. *)
(* JobInv says how the locals of the one sync that runs relate to them:    *)
(* its state is what the files would load as.                              *)
(***************************************************************************)
EXTENDS MemorySync, TLAPS, FiniteSetTheorems

-----------------------------------------------------------------------------
(***************************************************************************)
(* The lock of PublicationLock is a mutex for every number of processes    *)
(* and every pattern of deaths.                                            *)
(*                                                                         *)
(* LockInv is inductive.  That it leaves room for one live owner only is a *)
(* count: every lock file but the base one is named after a dead owner of  *)
(* another file, so there is at most one file more than there are files of *)
(* dead owners.                                                            *)
(***************************************************************************)
AtMostOne == \A c, d \in Holders : c = d

\* Two live clients never hold the lock together.
LEMMA OneHolder == LockInv => AtMostOne
<1> SUFFICES ASSUME LockInv, NEW c \in Holders, NEW d \in Holders, c # d PROVE FALSE
    BY DEF AtMostOne
<1> DEFINE Files  == {p \in Paths : owner[p] # NoOwner}
           Stale  == {p \in Files : owner[p] \in Dead}
           Heirs  == {owner[p] : p \in Stale}
<1>1. IsFiniteSet(Files) /\ IsFiniteSet(Stale) /\ Cardinality(Files) \in Nat /\ Cardinality(Stale) \in Nat
  <2>1. IsFiniteSet(Paths)
    BY ClientsAssumption, FS_AddElement DEF Paths
  <2>2. Files \in SUBSET Paths /\ Stale \in SUBSET Files
    OBVIOUS
  <2>3. IsFiniteSet(Files)
    BY <2>1, <2>2, FS_Subset
  <2>4. IsFiniteSet(Stale)
    BY <2>2, <2>3, FS_Subset
  <2> QED
    BY <2>3, <2>4, FS_CardinalityType
<1>2. IsFiniteSet(Heirs) /\ Cardinality(Heirs) <= Cardinality(Stale) /\ Cardinality(Heirs) \in Nat
  <2> DEFINE f == [p \in Stale |-> owner[p]]
  <2>1. f \in Surjection(Stale, Heirs)
    BY DEF Surjection
  <2> HIDE DEF f, Heirs, Stale
  <2> QED
    BY <1>1, <2>1, FS_Surjection, FS_CardinalityType
<1>3. Files \ {Base} \subseteq Heirs
  <2> SUFFICES ASSUME NEW p \in Files, p # Base PROVE p \in Heirs
    OBVIOUS
  <2>1. p \in Clients /\ owner[p] # NoOwner
    BY DEF Paths
  <2>2. PICK r \in Paths : owner[r] = p
    BY <2>1 DEF LockInv
  <2>3. p \in Dead
    BY <2>1 DEF LockInv
  <2> QED
    BY <2>1, <2>2, <2>3, PathsAssumption
<1>4. Cardinality(Files) <= Cardinality(Heirs) + 1
  <2>1. IsFiniteSet(Heirs \cup {Base}) /\ Cardinality(Heirs \cup {Base}) <= Cardinality(Heirs) + 1
        /\ Cardinality(Heirs \cup {Base}) \in Nat
    <3> HIDE DEF Heirs
    <3>1. /\ IsFiniteSet(Heirs \cup {Base})
          /\ Cardinality(Heirs \cup {Base}) = IF Base \in Heirs THEN Cardinality(Heirs)
                                               ELSE Cardinality(Heirs) + 1
      BY <1>2, FS_AddElement
    <3> QED
      BY <1>2, <3>1
  <2>2. Files \in SUBSET (Heirs \cup {Base})
    BY <1>3
  <2> HIDE DEF Heirs, Files
  <2>3. Cardinality(Files) <= Cardinality(Heirs \cup {Base})
    BY <2>1, <2>2, FS_Subset
  <2> QED
    BY <1>1, <1>2, <2>1, <2>3
<1>5. /\ at[c] \in Files \ Stale
      /\ at[d] \in Files \ Stale
      /\ at[c] # at[d]
  <2>1. at[c] \in Paths /\ at[d] \in Paths /\ owner[at[c]] = c /\ owner[at[d]] = d
    BY DEF LockInv, LockTypeOK, Holders
  <2>2. c \notin Dead /\ d \notin Dead /\ c # NoOwner /\ d # NoOwner
    BY PathsAssumption DEF Holders, Dead
  <2> QED
    BY <2>1, <2>2
<1>6. Cardinality(Stale) + 2 <= Cardinality(Files)
  <2> DEFINE Two == (Stale \cup {at[c]}) \cup {at[d]}
  <2>1. at[c] \notin Stale /\ at[d] \notin Stale \cup {at[c]}
    BY <1>5
  <2>2. Two \in SUBSET Files
    BY <1>5
  <2> HIDE DEF Stale, Files
  <2>3. IsFiniteSet(Stale \cup {at[c]}) /\ Cardinality(Stale \cup {at[c]}) = Cardinality(Stale) + 1
    BY <1>1, <2>1, FS_AddElement
  <2>4. Cardinality(Two) = Cardinality(Stale) + 2
    <3>1. Cardinality(Two) = Cardinality(Stale \cup {at[c]}) + 1
      BY <2>1, <2>3, FS_AddElement
    <3> QED
      BY <1>1, <2>3, <3>1
  <2>5. Cardinality(Two) <= Cardinality(Files)
    BY <1>1, <2>2, FS_Subset
  <2> QED
    BY <2>4, <2>5
<1> HIDE DEF Files, Stale, Heirs
<1> QED
    BY <1>1, <1>2, <1>4, <1>6

LEMMA LockInvHolds == LockInit => LockInv
<1> SUFFICES ASSUME LockInit PROVE LockInv
    OBVIOUS
<1> USE DEF LockInit
<1>1. LockTypeOK
    BY DEF LockTypeOK, Paths
<1>2. Holders = {}
    BY DEF Holders
<1>3. \A p \in Paths : owner[p] = NoOwner
    OBVIOUS
<1>4. \A p \in Clients : p # Base /\ p \in Paths
    BY PathsAssumption DEF Paths
<1> QED
    BY <1>1, <1>2, <1>3, <1>4 DEF LockInv

\* Who has strayed has strayed for good.
LEMMA StrayedForGood == strayed /\ [LockNext]_lockVars => strayed'
    BY DEF LockNext, Acquiring, FindFree, Read, FollowDead, FindBusy, Link, TryAgain, Unlock, Perish, lockVars

\* An attempt that ends leaves no trace.
LEMMA TryAgainKeeps ==
    ASSUME LockInv, NEW c \in Clients, TryAgain(c), lk[c] \in {"walk", "link"}
    PROVE  LockInv'
<1> USE PathsAssumption
<1>1. /\ owner' = owner /\ strayed' = strayed
      /\ lk' = [lk EXCEPT ![c] = "idle"] /\ at' = [at EXCEPT ![c] = Base]
      /\ seen' = [seen EXCEPT ![c] = NoOwner] /\ stale' = stale \ {c}
    BY DEF TryAgain, LookAt
<1>2. LockTypeOK'
    BY <1>1 DEF LockInv, LockTypeOK, Paths
<1>3. Holders' = Holders /\ Dead' = Dead /\ c \notin Holders
    BY <1>1 DEF LockInv, LockTypeOK, Holders, Dead
<1>4. /\ \A x \in Holders : at'[x] = at[x]
      /\ \A x \in Clients : x # c => at'[x] = at[x] /\ seen'[x] = seen[x] /\ lk'[x] = lk[x]
      /\ at'[c] = Base /\ seen'[c] = NoOwner /\ lk'[c] = "idle"
    BY <1>1, <1>3 DEF LockInv, LockTypeOK, Holders
<1>5. \A p \in Paths : owner[p] /= NoOwner /\ IsAlive(owner[p])' => lk'[owner[p]] = "held" /\ at'[owner[p]] = p
    BY <1>1, <1>4 DEF LockInv, LockTypeOK, IsAlive
<1>6. \A p \in Clients : (owner[p] /= NoOwner \/ \E x \in Clients : at'[x] = p)
                            => p \in Dead /\ \E r \in Paths : owner[r] = p
    BY <1>4 DEF LockInv
<1>7. \A x \in Clients : seen'[x] /= NoOwner /\ x \notin stale' => owner[at'[x]] = seen'[x]
    BY <1>1, <1>4 DEF LockInv
<1> QED
    BY <1>1, <1>2, <1>3, <1>4, <1>5, <1>6, <1>7 DEF LockInv

\* A client that reads or links keeps its place, and takes no file.
LEMMA WalkKeeps ==
    ASSUME LockInv, NEW c \in Clients, FindFree(c) \/ Read(c)
    PROVE  LockInv'
<1>1. /\ lk[c] \in {"idle", "walk"} /\ at[c] \in Paths /\ owner' = owner /\ at' = at /\ stale' = stale
      /\ \E s \in {"walk", "link"} : lk' = [lk EXCEPT ![c] = s]
      /\ strayed' = strayed
      /\ seen' = seen \/ (seen' = [seen EXCEPT ![c] = owner[at[c]]] /\ owner[at[c]] # NoOwner)
    BY DEF FindFree, Read, LockInv, LockTypeOK
<1>2. LockTypeOK'
    BY <1>1 DEF LockInv, LockTypeOK
<1>3. Holders' = Holders /\ Dead' = Dead
    BY <1>1 DEF LockInv, LockTypeOK, Holders, Dead
<1>4. \A p \in Paths : owner[p] /= NoOwner /\ IsAlive(owner[p])' => lk'[owner[p]] = "held" /\ at[owner[p]] = p
    BY <1>1 DEF LockInv, LockTypeOK, IsAlive
<1>5. \A x \in Clients : seen'[x] /= NoOwner /\ x \notin stale => owner[at[x]] = seen'[x]
    BY <1>1 DEF LockInv, LockTypeOK
<1> QED
    BY <1>1, <1>2, <1>3, <1>4, <1>5 DEF LockInv

\* Who follows the file it read, and that is still there, comes to the path of
\* its dead owner's successor.
LEMMA FollowKeeps ==
    ASSUME LockInv, NEW c \in Clients, FollowDead(c), ~ strayed'
    PROVE  LockInv'
<1> USE PathsAssumption
<1>1. /\ lk[c] = "walk" /\ seen[c] # NoOwner /\ c \notin stale
      /\ owner' = owner /\ lk' = lk /\ stale' = stale \ {c} /\ strayed' \in BOOLEAN
      /\ at' = [at EXCEPT ![c] = seen[c]] /\ seen' = [seen EXCEPT ![c] = NoOwner]
    BY DEF FollowDead, LookAt, LockInv, LockTypeOK
<1>2. seen[c] \in Dead /\ at[c] \in Paths /\ owner[at[c]] = seen[c]
    BY <1>1 DEF FollowDead, IsAlive, Dead, LockInv, LockTypeOK
<1>3. LockTypeOK'
    BY <1>1, <1>2 DEF LockInv, LockTypeOK, Paths, Dead
<1>4. Holders' = Holders /\ Dead' = Dead /\ c \notin Holders
    BY <1>1 DEF Holders, Dead
<1>5. /\ \A x \in Clients : x # c => at'[x] = at[x] /\ seen'[x] = seen[x]
      /\ at'[c] = seen[c] /\ seen'[c] = NoOwner
    BY <1>1 DEF LockInv, LockTypeOK
<1>6. \A p \in Paths : owner[p] /= NoOwner /\ IsAlive(owner[p])' => lk[owner[p]] = "held" /\ at'[owner[p]] = p
    BY <1>1, <1>5 DEF LockInv, LockTypeOK, IsAlive
<1>7. \A p \in Clients : (owner[p] /= NoOwner \/ \E x \in Clients : at'[x] = p)
                            => p \in Dead /\ \E r \in Paths : owner[r] = p
    BY <1>2, <1>5 DEF LockInv
<1>8. \A x \in Clients : seen'[x] /= NoOwner /\ x \notin stale' => owner[at'[x]] = seen'[x]
    BY <1>1, <1>5 DEF LockInv
<1>9. \A x \in Holders : at'[x] = at[x]
    BY <1>4, <1>5 DEF Holders
<1> QED
    BY <1>1, <1>3, <1>4, <1>6, <1>7, <1>8, <1>9 DEF LockInv

LEMMA LinkKeeps == ASSUME LockInv, NEW c \in Clients, Link(c) PROVE LockInv'
<1> USE PathsAssumption
<1>1. CASE owner[at[c]] = NoOwner
  <2>1. /\ lk[c] = "link" /\ at[c] \in Paths
        /\ owner' = [owner EXCEPT ![at[c]] = c]
        /\ lk' = [lk EXCEPT ![c] = "held"]
        /\ at' = at /\ seen' = seen /\ stale' = stale /\ strayed' = strayed
    BY <1>1 DEF Link, LockInv, LockTypeOK
  <2>2. LockTypeOK'
    BY <2>1 DEF LockInv, LockTypeOK
  <2>3. \A p \in Paths : owner[p] # c
    BY <2>1 DEF LockInv, IsAlive
  <2>4. \A p \in Paths : owner'[p] = IF p = at[c] THEN c ELSE owner[p]
    BY <2>1 DEF LockInv, LockTypeOK
  <2>5. \A x \in Clients : lk'[x] = IF x = c THEN "held" ELSE lk[x]
    BY <2>1 DEF LockInv, LockTypeOK
  <2>6. Holders' = Holders \cup {c} /\ Dead' = Dead
    BY <2>1, <2>5 DEF Holders, Dead
  <2>7. \A x \in Holders' : owner'[at'[x]] = x
    BY <1>1, <2>1, <2>4, <2>6 DEF LockInv, LockTypeOK, Holders
  <2>8. \A p \in Paths : owner'[p] # NoOwner /\ IsAlive(owner[p])'
                         => lk'[owner'[p]] = "held" /\ at'[owner'[p]] = p
    BY <2>1, <2>4, <2>5 DEF LockInv, LockTypeOK, IsAlive
  <2>9. \A p, r \in Paths : owner'[p] = owner'[r] /\ owner'[p] # NoOwner => p = r
    BY <2>3, <2>4 DEF LockInv
  <2>10. ASSUME NEW p \in Clients, owner'[p] # NoOwner \/ \E x \in Clients : at[x] = p
         PROVE  p \in Dead' /\ \E r \in Paths : owner'[r] = p
    <3>1. owner[p] # NoOwner \/ \E x \in Clients : at[x] = p
      BY <2>4, <2>10 DEF Paths
    <3>2. p \in Dead /\ \E r \in Paths : owner[r] = p
      BY <3>1 DEF LockInv
    <3> QED
      BY <1>1, <2>4, <2>6, <3>2
  <2>11. \A x \in Clients : seen[x] /= NoOwner /\ x \notin stale => owner'[at[x]] = seen[x]
    BY <1>1, <2>4 DEF LockInv, LockTypeOK
  <2> QED
    BY <2>1, <2>2, <2>7, <2>8, <2>9, <2>10, <2>11 DEF LockInv
<1>2. CASE owner[at[c]] # NoOwner
    BY <1>2, TryAgainKeeps DEF Link
<1> QED
    BY <1>1, <1>2

LEMMA UnlockKeeps == ASSUME LockInv, NEW c \in Clients, Unlock(c) PROVE LockInv'
<1> USE PathsAssumption
<1>1. /\ lk[c] = "held" /\ owner[at[c]] = c /\ at[c] \in Paths
      /\ owner' = [owner EXCEPT ![at[c]] = NoOwner]
      /\ lk' = [lk EXCEPT ![c] = "idle"]
      /\ at' = [at EXCEPT ![c] = Base]
      /\ stale' = stale \cup {d \in Clients : seen[d] = c} /\ seen' = seen /\ strayed' = strayed
    BY DEF Unlock, LockInv, LockTypeOK, Holders
<1>2. LockTypeOK'
    BY <1>1 DEF LockInv, LockTypeOK, Paths
<1>3. \A p \in Paths : owner'[p] = IF p = at[c] THEN NoOwner ELSE owner[p]
    BY <1>1 DEF LockInv, LockTypeOK
<1>4. /\ \A x \in Clients : x # c => lk'[x] = lk[x] /\ at'[x] = at[x]
      /\ lk'[c] = "idle" /\ at'[c] = Base
    BY <1>1 DEF LockInv, LockTypeOK
<1>5. Dead' = Dead /\ Holders' = Holders \ {c}
    BY <1>1, <1>4 DEF Dead, Holders
<1>6. \A x \in Holders' : owner'[at'[x]] = x
    BY <1>1, <1>3, <1>4, <1>5 DEF LockInv, LockTypeOK, Holders
<1>7. \A p \in Paths : owner'[p] # NoOwner /\ IsAlive(owner[p])'
                         => lk'[owner'[p]] = "held" /\ at'[owner'[p]] = p
  <2> SUFFICES ASSUME NEW p \in Paths, owner'[p] # NoOwner, IsAlive(owner[p])'
               PROVE  lk'[owner'[p]] = "held" /\ at'[owner'[p]] = p
    OBVIOUS
  <2>1. p # at[c] /\ owner'[p] = owner[p] /\ owner[p] \in Clients
    BY <1>3 DEF LockInv, LockTypeOK
  <2>2. owner[p] # c
    BY <1>1, <2>1 DEF LockInv
  <2> QED
    BY <1>4, <2>1, <2>2 DEF LockInv, IsAlive
<1>8. \A p, r \in Paths : owner'[p] = owner'[r] /\ owner'[p] # NoOwner => p = r
    BY <1>3 DEF LockInv
<1>9. ASSUME NEW p \in Clients, owner'[p] # NoOwner \/ \E x \in Clients : at'[x] = p
      PROVE  p \in Dead' /\ \E r \in Paths : owner'[r] = p
  <2>1. p \in Dead /\ \E r \in Paths : owner[r] = p
    BY <1>3, <1>4, <1>9 DEF LockInv, Paths
  <2>2. c \notin Dead
    BY <1>1 DEF Dead
  <2> QED
    BY <1>1, <1>3, <1>5, <2>1, <2>2
<1>10. ASSUME NEW x \in Clients, seen[x] # NoOwner, x \notin stale'
       PROVE  owner'[at'[x]] = seen[x]
  <2>1. x \notin stale /\ seen[x] # c
    BY <1>1, <1>10
  <2>2. owner[at[x]] = seen[x]
    BY <1>10, <2>1 DEF LockInv
  <2>3. at[x] # at[c] /\ x # c
    BY <1>1, <2>1, <2>2
  <2> QED
    BY <1>3, <1>4, <2>2, <2>3 DEF LockInv, LockTypeOK
<1> QED
    BY <1>1, <1>2, <1>6, <1>7, <1>8, <1>9, <1>10 DEF LockInv

LEMMA PerishKeeps == ASSUME LockInv, NEW c \in Clients, Perish(c) PROVE LockInv'
<1> USE PathsAssumption
<1>1. /\ lk[c] # "dead" /\ owner' = owner /\ strayed' = strayed
      /\ lk' = [lk EXCEPT ![c] = "dead"] /\ at' = [at EXCEPT ![c] = Base]
      /\ seen' = [seen EXCEPT ![c] = NoOwner] /\ stale' = stale \ {c}
    BY DEF Perish, LookAt
<1>2. LockTypeOK'
    BY <1>1 DEF LockInv, LockTypeOK, Paths
<1>3. /\ \A x \in Clients : x # c => lk'[x] = lk[x] /\ at'[x] = at[x] /\ seen'[x] = seen[x]
      /\ lk'[c] = "dead" /\ at'[c] = Base /\ seen'[c] = NoOwner
    BY <1>1 DEF LockInv, LockTypeOK
<1>4. Holders' = Holders \ {c} /\ Dead' = Dead \cup {c}
    BY <1>3 DEF Holders, Dead
<1>5. \A x \in Holders' : owner[at'[x]] = x
    BY <1>3, <1>4 DEF LockInv, Holders
<1>6. \A p \in Paths : owner[p] /= NoOwner /\ IsAlive(owner[p])' => lk'[owner[p]] = "held" /\ at'[owner[p]] = p
    BY <1>1, <1>3 DEF LockInv, LockTypeOK, IsAlive
<1>7. \A p \in Clients : (owner[p] /= NoOwner \/ \E x \in Clients : at'[x] = p)
                            => p \in Dead' /\ \E r \in Paths : owner[r] = p
    BY <1>3, <1>4 DEF LockInv
<1>8. \A x \in Clients : seen'[x] /= NoOwner /\ x \notin stale' => owner[at'[x]] = seen'[x]
    BY <1>1, <1>3 DEF LockInv
<1> QED
    BY <1>1, <1>2, <1>5, <1>6, <1>7, <1>8 DEF LockInv

LEMMA LockInvInductive == LockInv /\ [LockNext]_lockVars /\ ~ strayed' => LockInv'
<1> SUFFICES ASSUME LockInv, [LockNext]_lockVars, ~ strayed' PROVE LockInv'
    OBVIOUS
<1>1. ASSUME NEW c \in Clients, FindBusy(c) PROVE LockInv'
    BY <1>1, TryAgainKeeps DEF FindBusy
<1>2. CASE UNCHANGED lockVars
    BY <1>2 DEF lockVars, LockInv, LockTypeOK, Holders, Dead, IsAlive
<1> QED
    BY <1>1, <1>2, WalkKeeps, FollowKeeps, LinkKeeps, UnlockKeeps, PerishKeeps DEF LockNext, Acquiring

\* Until somebody strays the inductive invariant holds, in every run of any
\* number of processes.
THEOREM LockInvCorrect == LockSpec => [](strayed \/ LockInv)
<1>1. (strayed \/ LockInv) /\ [LockNext]_lockVars => (strayed \/ LockInv)'
    BY LockInvInductive, StrayedForGood
<1> QED
    BY <1>1, LockInvHolds, PTL DEF LockSpec

\* Every step of the lock is a step of the mutex: an owner file is linked only
\* when no live client holds the lock, and a death releases what it held.
LEMMA LockStepIsMutexStep ==
    ASSUME LockInv, AtMostOne', [LockNext]_lockVars
    PROVE  [M!Next]_<<Holders, Dead>>
<1> USE DEF LockInv, LockTypeOK, Holders, Dead
<1>1. ASSUME NEW c \in Clients,
             \/ FindFree(c) \/ Read(c) \/ FollowDead(c)
             \/ TryAgain(c) /\ lk[c] \in {"walk", "link"}
      PROVE  UNCHANGED <<Holders, Dead>>
    BY <1>1 DEF FindFree, Read, FollowDead, TryAgain
<1>2. ASSUME NEW c \in Clients, FindBusy(c) PROVE UNCHANGED <<Holders, Dead>>
    BY <1>1, <1>2 DEF FindBusy
<1>3. ASSUME NEW c \in Clients, Link(c) PROVE M!Acquire(c) \/ UNCHANGED <<Holders, Dead>>
  <2>1. CASE owner[at[c]] = NoOwner
    <3>1. Holders' = Holders \cup {c} /\ Dead' = Dead /\ c \notin Holders /\ c \notin Dead
      BY <1>3, <2>1 DEF Link
    <3>2. \A x, y \in Holders' : x = y
      BY DEF AtMostOne
    <3> HIDE DEF Holders, Dead
    <3>3. Holders = {} /\ Holders' = {c}
      BY <3>1, <3>2
    <3> QED
      BY <3>1, <3>3 DEF M!Acquire
  <2>2. CASE owner[at[c]] # NoOwner
    BY <1>1, <1>3, <2>2 DEF Link
  <2> QED
    BY <2>1, <2>2
<1>4. ASSUME NEW c \in Clients, Unlock(c) PROVE M!Release(c)
  <2>1. c \in Holders /\ Holders' = Holders \ {c} /\ Dead' = Dead
    BY <1>4 DEF Unlock
  <2>2. Holders = {c}
    <3>1. \A d \in Holders : d = c
      BY <2>1, OneHolder DEF AtMostOne
    <3> HIDE DEF Holders
    <3> QED
      BY <2>1, <3>1
  <2> HIDE DEF Holders, Dead
  <2> QED
    BY <2>1, <2>2 DEF M!Release
<1>5. ASSUME NEW c \in Clients, Perish(c) PROVE M!Die(c)
  <2>1. c \notin Dead /\ Dead' = Dead \cup {c} /\ Holders' = Holders \ {c}
    BY <1>5 DEF Perish
  <2> HIDE DEF Holders, Dead
  <2> QED
    BY <2>1 DEF M!Die
<1>6. CASE UNCHANGED lockVars
    BY <1>6 DEF lockVars
<1> HIDE DEF Holders, Dead, LockInv
<1> QED
    BY <1>1, <1>2, <1>3, <1>4, <1>5, <1>6 DEF LockNext, Acquiring, M!Next

\* The publication lock implements the mutex for every number of processes and
\* every pattern of deaths until somebody strays: it has one live owner at a time.
THEOREM LockIsMutexCorrect == LockSpec => LockIsMutex
<1>1. LockInit => M!Init
    BY DEF LockInit, M!Init, Holders, Dead
<1>2. LockInv => AtMostOne
    BY OneHolder
<1>3. LockInv /\ AtMostOne' /\ [LockNext]_lockVars => [M!Next]_<<Holders, Dead>>
    BY LockStepIsMutexStep
<1>4. (strayed \/ LockInv) /\ (strayed \/ AtMostOne)' /\ [LockNext]_lockVars
          => [strayed' \/ M!Next]_<<Holders, Dead>>
    BY <1>3, StrayedForGood
<1> QED
    BY <1>1, <1>2, <1>4, LockInvCorrect, PTL DEF LockSpec, LockIsMutex

-----------------------------------------------------------------------------
(* The syncs.                                                              *)

Sent(d) == d \in net \/ taken[d] > 0
Covered(d, ledger) == Sent(d) => intents[d] = "whole" \/ ledger[<<d[1], "l3">>].version = d[2]

TrueLedger(ledger) ==
    \A f \in Facts :
        /\ ledger[<<f, "l2">>].version /= 0 => Matching(<<f, ledger[<<f, "l2">>].version>>)
        /\ ledger[<<f, "l3">>].version /= 0 => taken[<<f, ledger[<<f, "l3">>].version>>] > 0

\* What holds of a ledger file.
SoundLedger(ledger) ==
    /\ TrueLedger(ledger)
    /\ \A e \in Facts \X Sinks : ledger[e].version <= edits[e[1]] /\ ledger[e].time <= clock

PendingIsLater ==
    \A e \in Facts \X Sinks :
        Contents(pending)[e] /= Never => Contents(primary)[e].time <= Contents(pending)[e].time

WorldInv ==
    /\ \A d \in Deeds : taken[d] <= 1 /\ (d \in net => taken[d] = 0)
    /\ \A d \in Deeds : Sent(d) => d[2] <= edits[d[1]]
    /\ \A f \in Facts : content[f] \in {0, edits[f]}
    /\ \A d \in Deeds : d[2] = content[d[1]] => Covered(d, Merged)
    /\ SoundLedger(Contents(primary)) /\ SoundLedger(Contents(pending))
    /\ PendingIsLater

Outside   == {"none", "load", "leave"}
Closing   == {"publish", "unpend", "unintend"}
DeedSteps == {"l2list", "l2write", "l2save", "l3", "intent", "send", "answer", "recall", "l3save"}

\* The locals j of a sync between load and leave.
LocalsInv(j) ==
    /\ j.time = clock
    /\ SoundLedger(j.state)
    /\ \A e \in Facts \X Sinks : j.entries[e[1]] /= 0 => j.state[e].version <= j.entries[e[1]]
    /\ \A f \in Facts : j.entries[f] <= edits[f]
    /\ \A d \in Deeds : d[2] = content[d[1]] /\ d[2] /= j.entries[d[1]] => ~ Sent(d)
    /\ \A d \in Deeds : d[2] = j.entries[d[1]] => Covered(d, j.state)
    /\ \A d \in j.complete : d[2] = j.entries[d[1]] /\ j.state[<<d[1], "l3">>].version = d[2]
    /\ j.saved => j.dirty

\* What the step it is at adds.
StepInv(j) ==
    LET d == <<j.fact, j.entries[j.fact]>>
    IN /\ j.step \in DeedSteps => d \in Deeds
       /\ j.step = "l2" => j.fact \in Facts
       /\ j.step = "l2save" => Matching(d)
       /\ j.step = "l3save" => taken[d] > 0
       /\ j.step \in {"intent", "send"} => ~ Sent(d)
       /\ j.step \in {"send", "answer"} => intents[d] = "whole"

FilesInv(j) ==
    /\ j.step \notin Closing => /\ \A e \in Facts \X Sinks : j.state[e] = Merged[e]
                                /\ ~ j.saved => pending = NoFile
    /\ j.step \in Closing => \A e \in Facts \X Sinks :
                                IF j.entries[e[1]] = 0 THEN j.state[e] = Never ELSE j.state[e] = Merged[e]
    /\ j.step = "publish" => pending = IF j.saved THEN {j.state} ELSE NoFile
    /\ j.step = "unpend"  => primary = {j.state} /\ pending = {j.state}
    /\ j.step = "unintend" => \A e \in Facts \X Sinks : j.state[e] = Merged[e]

JobInv(c) == job[c].step \notin Outside => LocalsInv(job[c]) /\ StepInv(job[c]) /\ FilesInv(job[c])

SyncInv == TypeOK /\ WorldInv /\ \A c \in Holders : JobInv(c)

-----------------------------------------------------------------------------
(* The sync and its lock.                                                  *)

\* Every step of the sync is a step of the lock or leaves it alone.
LEMMA StepIsLockStep == [Next]_vars => [LockNext]_lockVars
<1> SUFFICES ASSUME [Next]_vars PROVE [LockNext]_lockVars
    OBVIOUS
<1>1. ASSUME NEW c \in Clients, Take(c) PROVE LockNext
    BY <1>1 DEF Take, LockNext
<1>2. ASSUME NEW c \in Clients, Leave(c) PROVE LockNext
    BY <1>2 DEF Leave, LockNext
<1>3. ASSUME NEW c \in Clients, Crash(c) PROVE LockNext
    BY <1>3 DEF Crash, LockNext
<1>4. ASSUME NEW c \in Clients, SyncStep(c), ~ Leave(c) PROVE UNCHANGED lockVars
    BY <1>4 DEF SyncStep, KeepSinks, Load, BeginL2, ListL2, WriteL2, SaveL2, BeginL3, WriteIntent,
         Send, Answer, Rejected, Recall, SaveL3, Close, Publish, Unpend, Unintend, DiskFails
<1>5. ASSUME NEW f \in Facts, Edit(f) PROVE UNCHANGED lockVars
    BY <1>5 DEF Edit
<1>6. ASSUME NEW d \in Deeds, Insert(d) \/ Deliver(d) PROVE UNCHANGED lockVars
    BY <1>6 DEF Insert, Deliver
<1>7. CASE UNCHANGED vars
    BY <1>7 DEF vars
<1> QED
    BY <1>1, <1>2, <1>3, <1>4, <1>5, <1>6, <1>7 DEF Next

LEMMA SyncIsLockSpec == Spec => LockSpec
<1>1. Init => LockInit
    BY DEF Init
<1> QED
    BY <1>1, StepIsLockStep, PTL DEF Spec, LockSpec

\* Until somebody strays the lock's invariant holds in every run of the sync.
THEOREM SyncLockInv == Spec => [](strayed \/ LockInv)
<1> QED
    BY SyncIsLockSpec, LockInvCorrect, PTL

\* Until somebody strays no two live processes are inside syncUpWhileLocked
\* together.
THEOREM SyncIsMutual == Spec => LockIsMutex
<1> QED
    BY SyncIsLockSpec, LockIsMutexCorrect, PTL

-----------------------------------------------------------------------------
(* Files and locals.                                                       *)

USE DEF timeVars, l2Vars, l3Vars

\* What the invariants read, and a step that leaves all of it alone.
World == <<l1Vars, timeVars, diskVars, written, l3Vars>>
SameWorld == UNCHANGED World /\ inserts' \subseteq Deeds /\ lk' = lk

\* The store only ever has more, so what matches goes on matching.
SinksGrow == \A d \in Deeds : (Matching(d) => Matching(d)') /\ (taken[d] > 0 => taken'[d] > 0)

LEMMA MatchingFrame == ASSUME UNCHANGED <<written, says>> PROVE \A d : Matching(d)' <=> Matching(d)
    BY DEF Matching

LEMMA SinksOnlyGrow ==
    ASSUME written \subseteq written', says' = says, \A d \in Deeds : taken[d] > 0 => taken'[d] > 0
    PROVE  SinksGrow
    BY DEF SinksGrow, Matching

LEMMA ContentsFacts == Contents(NoFile) = EmptyLedger /\ \A s : Contents({s}) = s
<1>1. ASSUME NEW s PROVE {s} # NoFile /\ (CHOOSE t \in {s} : TRUE) = s
  <2>1. \E t \in {s} : TRUE
    OBVIOUS
  <2>2. (CHOOSE t \in {s} : TRUE) \in {s}
    BY <2>1
  <2> QED
    BY <2>2 DEF NoFile
<1> QED
    BY <1>1 DEF Contents

LEMMA NeverIsCheckpoint == Never \in Checkpoint /\ EmptyLedger \in Ledger
    BY BoundsAssumption DEF Never, Checkpoint, EmptyLedger, Ledger

LEMMA LedgerTypes ==
    ASSUME TypeOK
    PROVE  Contents(primary) \in Ledger /\ Contents(pending) \in Ledger /\ Merged \in Ledger
<1>1. ASSUME NEW file, IsFile(file) PROVE Contents(file) \in Ledger
    BY <1>1, ContentsFacts, NeverIsCheckpoint DEF IsFile
<1>2. Contents(primary) \in Ledger /\ Contents(pending) \in Ledger
    BY <1>1 DEF TypeOK
<1>3. \A e \in Facts \X Sinks : Newer(Contents(primary)[e], Contents(pending)[e]) \in Checkpoint
    BY <1>2 DEF Newer, Ledger
<1> QED
    BY <1>2, <1>3 DEF Merged, Ledger

\* What a sync would load of one entry, given that pending is the later file.
LEMMA MergedEntry ==
    ASSUME TypeOK, PendingIsLater, NEW e \in Facts \X Sinks
    PROVE  Merged[e] = IF Contents(pending)[e] = Never THEN Contents(primary)[e] ELSE Contents(pending)[e]
<1>1. Contents(primary)[e] \in Checkpoint /\ Contents(pending)[e] \in Checkpoint
    BY LedgerTypes DEF Ledger
<1> QED
    BY <1>1 DEF Merged, Newer, PendingIsLater, Checkpoint

\* A step that leaves files, sinks, facts and the clock alone.
LEMMA WorldFrame ==
    ASSUME WorldInv, UNCHANGED World
    PROVE  WorldInv'
<1> USE DEF World, l1Vars, diskVars
<1>1. Contents(primary)' = Contents(primary) /\ Contents(pending)' = Contents(pending) /\ Merged' = Merged
    BY DEF Merged, Contents
<1>2. \A d : Sent(d)' = Sent(d)
    BY DEF Sent
<1>3. \A d, l : Covered(d, l)' = Covered(d, l)
    BY <1>2 DEF Covered
<1>4. SoundLedger(Contents(primary))' /\ SoundLedger(Contents(pending))'
    BY <1>1, MatchingFrame DEF SoundLedger, TrueLedger, WorldInv
<1>5. PendingIsLater'
    BY <1>1 DEF PendingIsLater, WorldInv
<1>6. \A d \in Deeds : d[2] = content'[d[1]] => Covered(d, Merged)'
    BY <1>1, <1>2 DEF Covered, WorldInv
<1> QED
    BY <1>1, <1>2, <1>4, <1>5, <1>6 DEF WorldInv

\* The locals of a sync whose next step is all that changes.
LEMMA LocalsFrame ==
    ASSUME UNCHANGED <<l1Vars, timeVars, intents, written, l3Vars>>, NEW c \in Clients, NEW j, LocalsInv(j),
           job'[c].time = j.time, job'[c].state = j.state, job'[c].entries = j.entries,
           job'[c].complete = j.complete, job'[c].saved = j.saved, job'[c].dirty = j.dirty
    PROVE  LocalsInv(job[c])'
    BY MatchingFrame DEF LocalsInv, l1Vars, SoundLedger, TrueLedger, Covered, Sent

LEMMA FilesFrame ==
    ASSUME UNCHANGED <<primary, pending>>, NEW c \in Clients, NEW j, FilesInv(j),
           j.step \notin Closing, job'[c].step \notin Closing,
           job'[c].state = j.state, job'[c].entries = j.entries, job'[c].saved = j.saved
    PROVE  FilesInv(job[c])'
    BY DEF FilesInv, Merged, Contents, Closing

\* Only the holder's locals matter after a step that leaves the lock alone.
LEMMA HolderOnly ==
    ASSUME AtMostOne, NEW c \in Holders, lk' = lk, TypeOK', WorldInv', JobInv(c)'
    PROVE  SyncInv'
<1>1. \A x \in Holders' : x = c
    BY DEF AtMostOne, Holders
<1> QED
    BY <1>1 DEF SyncInv

LEMMA JobOnly ==
    ASSUME SyncInv, AtMostOne, NEW c \in Holders, NEW j \in Jobs, SameWorld,
           job' = [job EXCEPT ![c] = j], JobInv(c)'
    PROVE  SyncInv'
<1>1. c \in Clients
    BY DEF Holders
<1>2. WorldInv'
    BY WorldFrame DEF SyncInv, SameWorld
<1>3. TypeOK'
    BY <1>1 DEF SameWorld, World, l1Vars, diskVars, SyncInv, TypeOK
<1> QED
    BY <1>2, <1>3, HolderOnly DEF SyncInv, SameWorld

\* The types of a job and of the deed it is at.
LEMMA JobTypes ==
    ASSUME SyncInv, NEW c \in Clients
    PROVE  /\ job[c] \in Jobs
           /\ job[c].step \in Steps /\ job[c].fact \in 1..(NumFacts + 1)
           /\ job[c].entries \in [Facts -> 0..MaxVersion] /\ job[c].state \in Ledger
           /\ job[c].dirty \in BOOLEAN /\ job[c].saved \in BOOLEAN
           /\ job[c].complete \in SUBSET Deeds /\ job[c].time \in 0..MaxTime
           /\ job[c].gate \in {"unasked", "ready", "refused"}
    BY DEF SyncInv, TypeOK, Jobs

\* The locals of a client that is at a step without a sync.
LEMMA NoJobType == /\ NoJob \in Jobs
                   /\ \A s \in Steps : [NoJob EXCEPT !.step = s] \in Jobs /\ [NoJob EXCEPT !.step = s].step = s
<1>1. 1 \in 1..(NumFacts + 1) /\ 0 \in 0..MaxVersion /\ 0 \in 0..MaxTime
    BY BoundsAssumption
<1>2. [f \in Facts |-> 0] \in [Facts -> 0..MaxVersion]
    BY <1>1
<1>3. NoJob \in Jobs
    BY <1>1, <1>2, NeverIsCheckpoint DEF NoJob, Jobs, Steps
<1> QED
    BY <1>3 DEF Jobs

\* A sync that gives up has no locals left that matter.
LEMMA GoLeave ==
    ASSUME SyncInv, AtMostOne, NEW c \in Holders, SameWorld, Abandon(c)
    PROVE  SyncInv'
<1> DEFINE j == [NoJob EXCEPT !.step = "leave"]
<1>1. c \in Clients
    BY DEF Holders
<1>2. j \in Jobs /\ j.step = "leave"
    BY NoJobType DEF Steps
<1>3. job' = [job EXCEPT ![c] = j]
    BY DEF Abandon
<1> HIDE DEF j
<1>4. job'[c] = j
    BY <1>1, <1>3 DEF SyncInv, TypeOK
<1>5. JobInv(c)'
    BY <1>2, <1>4 DEF JobInv, Outside
<1> QED
    BY <1>2, <1>3, <1>5, JobOnly

\* All but the step and the fact a job is at, and Honcho's status.
SameLocals(k, j) ==
    /\ k.time = j.time /\ k.state = j.state /\ k.entries = j.entries
    /\ k.complete = j.complete /\ k.saved = j.saved /\ k.dirty = j.dirty

LEMMA GotoJob ==
    ASSUME SyncInv, NEW c \in Clients, NEW s \in Steps
    PROVE  [job[c] EXCEPT !.step = s] \in Jobs /\ SameLocals([job[c] EXCEPT !.step = s], job[c])
           /\ [job[c] EXCEPT !.step = s].step = s
    BY JobTypes DEF SameLocals, Jobs

\* A sync goes from one step of the loop to another.
LEMMA GoOnWith ==
    ASSUME SyncInv, AtMostOne, NEW c \in Holders, NEW k \in Jobs, SameWorld, SameLocals(k, job[c]),
           job' = [job EXCEPT ![c] = k],
           job[c].step \notin Outside, job[c].step \notin Closing, k.step \notin Closing,
           StepInv(job[c])'
    PROVE  SyncInv'
<1>1. c \in Clients
    BY DEF Holders
<1>2. job'[c] = k
    BY <1>1 DEF SyncInv, TypeOK
<1>3. LocalsInv(job[c]) /\ FilesInv(job[c])
    BY DEF SyncInv, JobInv
<1>4. LocalsInv(job[c])'
    BY <1>1, <1>2, <1>3, LocalsFrame DEF SameWorld, World, diskVars, SameLocals
<1>5. FilesInv(job[c])'
    BY <1>1, <1>2, <1>3, FilesFrame DEF SameWorld, World, diskVars, SameLocals
<1> QED
    BY <1>4, <1>5, JobOnly DEF JobInv

LEMMA GoOn ==
    ASSUME SyncInv, AtMostOne, NEW c \in Holders, NEW s \in Steps, SameWorld, Goto(c, s),
           job[c].step \notin Outside, job[c].step \notin Closing, s \notin Closing,
           StepInv(job[c])'
    PROVE  SyncInv'
<1> DEFINE k == [job[c] EXCEPT !.step = s]
<1>1. k \in Jobs /\ SameLocals(k, job[c]) /\ k.step = s /\ job' = [job EXCEPT ![c] = k]
    BY GotoJob DEF Holders, Goto
<1> HIDE DEF k
<1> QED
    BY <1>1, GoOnWith

\* The locals of a sync that goes to the next fact, or to the end of the loop.
Moved(j) == [j EXCEPT !.fact = @ + 1, !.step = IF j.fact = NumFacts THEN "close" ELSE "l2"]

LEMMA NextFactJob ==
    ASSUME SyncInv, NEW c \in Holders, NEW j \in Jobs, j.fact \in Facts, job' = NextFact(c, j)
    PROVE  /\ Moved(j) \in Jobs
           /\ job' = [job EXCEPT ![c] = Moved(j)]
           /\ job'[c].time = j.time /\ job'[c].state = j.state /\ job'[c].entries = j.entries
           /\ job'[c].complete = j.complete /\ job'[c].saved = j.saved /\ job'[c].dirty = j.dirty
           /\ job'[c].step \in {"l2", "close"} /\ job'[c].step \notin Closing
           /\ StepInv(job[c])'
<1> DEFINE k == Moved(j)
<1>1. c \in Clients
    BY DEF Holders
<1>2. k.fact = j.fact + 1 /\ k.step = IF j.fact = NumFacts THEN "close" ELSE "l2"
    BY DEF Jobs, Moved
<1>3. k \in Jobs
  <2>1. j.fact + 1 \in 1..(NumFacts + 1) /\ k.step \in Steps
    BY <1>2, BoundsAssumption DEF Facts, Steps
  <2>2. k = [[j EXCEPT !.fact = j.fact + 1] EXCEPT !.step = IF j.fact = NumFacts THEN "close" ELSE "l2"]
    BY DEF Moved
  <2> QED
    BY <1>2, <2>1, <2>2 DEF Jobs
<1>4. job' = [job EXCEPT ![c] = k]
    BY DEF NextFact, Moved
<1>5. /\ k.time = j.time /\ k.state = j.state /\ k.entries = j.entries /\ k.complete = j.complete
      /\ k.saved = j.saved /\ k.dirty = j.dirty
    BY DEF Jobs, Moved
<1> HIDE DEF k
<1>6. job'[c] = k
    BY <1>1, <1>4 DEF SyncInv, TypeOK
<1>7. StepInv(job[c])'
    BY <1>2, <1>6, BoundsAssumption DEF StepInv, DeedSteps, Facts
<1>8. job'[c].step \in {"l2", "close"} /\ job'[c].step \notin Closing
    BY <1>2, <1>6 DEF Closing
<1> QED
    BY <1>3, <1>4, <1>5, <1>6, <1>7, <1>8 DEF k

LEMMA GoNext ==
    ASSUME SyncInv, AtMostOne, NEW c \in Holders, SameWorld,
           NEW j \in Jobs, LocalsInv(j), FilesInv(j), j.step \notin Closing, j.fact \in Facts,
           job' = NextFact(c, j)
    PROVE  SyncInv'
<1>1. c \in Clients
    BY DEF Holders
<1>2. /\ Moved(j) \in Jobs
      /\ job' = [job EXCEPT ![c] = Moved(j)]
      /\ job'[c].time = j.time /\ job'[c].state = j.state /\ job'[c].entries = j.entries
      /\ job'[c].complete = j.complete /\ job'[c].saved = j.saved /\ job'[c].dirty = j.dirty
      /\ job'[c].step \in {"l2", "close"} /\ job'[c].step \notin Closing
      /\ StepInv(job[c])'
    BY <1>1, NextFactJob
<1>3. LocalsInv(job[c])'
    BY <1>1, <1>2, LocalsFrame DEF SameWorld, World, diskVars
<1>4. FilesInv(job[c])'
    BY <1>1, <1>2, FilesFrame DEF SameWorld, World, diskVars
<1> QED
    BY <1>2, <1>3, <1>4, JobOnly DEF JobInv

-----------------------------------------------------------------------------
(* The steps of the loop that write nothing.                               *)

LEMMA KeptWorld ==
    ASSUME SyncInv, KeepSinks, UNCHANGED diskVars
    PROVE  SameWorld /\ UNCHANGED <<intents, written, says, net, taken>>
    BY DEF KeepSinks, SameWorld, World, lockVars, l1Vars, sinkVars, diskVars, SyncInv, TypeOK

\* What a step of the loop starts from.
LEMMA AtLoop ==
    ASSUME SyncInv, NEW c \in Clients, NEW s \in Steps \ Outside, AtStep(c, s)
    PROVE  /\ c \in Holders /\ LocalsInv(job[c]) /\ StepInv(job[c]) /\ FilesInv(job[c])
           /\ s \in DeedSteps => Deed(c) \in Deeds /\ job[c].fact \in Facts
           /\ Deed(c)[1] = job[c].fact /\ Deed(c)[2] = job[c].entries[job[c].fact]
<1>1. c \in Holders /\ job[c].step = s
    BY DEF AtStep, Holders
<1>2. LocalsInv(job[c]) /\ StepInv(job[c]) /\ FilesInv(job[c])
    BY <1>1 DEF SyncInv, JobInv
<1>3. s \in DeedSteps => Deed(c) \in Deeds /\ job[c].fact \in Facts
    BY <1>1, <1>2 DEF StepInv, Deed, Fact, Deeds
<1> QED
    BY <1>1, <1>2, <1>3 DEF Deed, Fact

LEMMA BeginL2Keeps == ASSUME SyncInv, AtMostOne, NEW c \in Clients, BeginL2(c) PROVE SyncInv'
<1> USE DEF Outside, Closing, Steps
<1>1. /\ c \in Holders /\ job[c].step = "l2" /\ job[c].fact \in Facts
      /\ LocalsInv(job[c]) /\ FilesInv(job[c]) /\ job[c] \in Jobs /\ SameWorld
    BY AtLoop, JobTypes, KeptWorld DEF BeginL2, AtStep, StepInv
<1>2. CASE job[c].entries[job[c].fact] = 0
    BY <1>1, <1>2, GoNext DEF BeginL2, Job
<1>3. CASE job[c].entries[job[c].fact] # 0
  <2>1. PICK s \in {"l3", "l2list"} : Goto(c, s)
    BY <1>1, <1>3 DEF BeginL2, Job
  <2>2. job'[c] = [job[c] EXCEPT !.step = s]
    BY <1>1, <2>1 DEF Goto, SyncInv, TypeOK
  <2>3. <<job[c].fact, job[c].entries[job[c].fact]>> \in Deeds
    BY <1>1, <1>3, JobTypes DEF Deeds
  <2>4. StepInv(job[c])'
    BY <1>1, <2>2, <2>3, JobTypes DEF StepInv, DeedSteps, Jobs
  <2> QED
    BY <1>1, <2>1, <2>4, GoOn
<1> QED
    BY <1>2, <1>3

\* The deed of a sync that only changed its step.
LEMMA SameDeed ==
    ASSUME SyncInv, NEW c \in Clients, NEW s, Goto(c, s)
    PROVE  /\ job'[c].step = s /\ job'[c].fact = job[c].fact /\ job'[c].entries = job[c].entries
           /\ job'[c].state = job[c].state
           /\ <<job'[c].fact, job'[c].entries[job'[c].fact]>> = Deed(c)
<1>1. job'[c] = [job[c] EXCEPT !.step = s]
    BY DEF Goto, SyncInv, TypeOK
<1> QED
    BY <1>1, JobTypes DEF Jobs, Deed, Fact

\* What matches goes to its checkpoint; an insert is sent and says nothing yet.
LEMMA ListL2Keeps == ASSUME SyncInv, AtMostOne, NEW c \in Clients, ListL2(c) PROVE SyncInv'
<1> USE DEF Outside, Closing, Steps, DeedSteps
<1>1. /\ c \in Holders /\ job[c].step = "l2list" /\ Deed(c) \in Deeds /\ UNCHANGED <<written, says>>
    BY AtLoop DEF ListL2, AtStep, l1Vars
<1>2. SameWorld
  <2>1. inserts \subseteq Deeds
    BY DEF SyncInv, TypeOK
  <2> QED
    BY <1>1, <2>1 DEF ListL2, SameWorld, World, lockVars
<1>3. PICK s \in {"l2save", "l2write", "l3"} : Goto(c, s) /\ (s = "l2save" => Matching(Deed(c)))
    BY DEF ListL2
<1>4. \A d : Matching(d)' <=> Matching(d)
    BY <1>1, MatchingFrame
<1>5. StepInv(job[c])'
    BY <1>1, <1>3, <1>4, SameDeed DEF StepInv
<1> QED
    BY <1>1, <1>2, <1>3, <1>5, GoOn

LEMMA WriteL2Keeps == ASSUME SyncInv, AtMostOne, NEW c \in Clients, WriteL2(c) PROVE SyncInv'
<1> USE DEF Outside, Closing, Steps, DeedSteps
<1>1. /\ c \in Holders /\ job[c].step = "l2write" /\ Deed(c) \in Deeds
      /\ SameWorld /\ UNCHANGED <<written, says>>
    BY AtLoop, KeptWorld DEF WriteL2, AtStep
<1>2. PICK s \in {"l2save", "l3"} : Goto(c, s) /\ (s = "l2save" => Deed(c) \in written)
    BY DEF WriteL2
<1>3. s = "l2save" => Matching(Deed(c))
    BY <1>2 DEF Matching
<1>4. \A d : Matching(d)' <=> Matching(d)
    BY <1>1, MatchingFrame
<1>5. StepInv(job[c])'
    BY <1>1, <1>2, <1>3, <1>4, SameDeed DEF StepInv
<1> QED
    BY <1>1, <1>2, <1>5, GoOn

LEMMA BeginL3Keeps == ASSUME SyncInv, AtMostOne, NEW c \in Clients, BeginL3(c) PROVE SyncInv'
<1> USE DEF Outside, Closing, Steps, DeedSteps
<1>1. /\ c \in Holders /\ job[c].step = "l3" /\ Deed(c) \in Deeds /\ job[c].fact \in Facts
      /\ LocalsInv(job[c]) /\ FilesInv(job[c]) /\ job[c] \in Jobs
      /\ Deed(c)[1] = job[c].fact /\ Deed(c)[2] = job[c].entries[job[c].fact]
      /\ SameWorld /\ UNCHANGED <<intents, net, taken>>
    BY AtLoop, JobTypes, KeptWorld DEF BeginL3, AtStep
<1>2. CASE Abandon(c)
    BY <1>1, <1>2, GoLeave
<1>3. CASE job' = NextFact(c, job[c])
    BY <1>1, <1>3, GoNext
<1>4. CASE /\ job[c].state[<<Fact(c), "l3">>].version = Deed(c)[2]
           /\ job' = NextFact(c, [job[c] EXCEPT !.complete = @ \cup {Deed(c)}])
  <2> DEFINE j == [job[c] EXCEPT !.complete = @ \cup {Deed(c)}]
  <2>1. /\ j.time = job[c].time /\ j.state = job[c].state /\ j.entries = job[c].entries
        /\ j.saved = job[c].saved /\ j.dirty = job[c].dirty /\ j.step = job[c].step /\ j.fact = job[c].fact
        /\ j.complete = job[c].complete \cup {Deed(c)}
    BY <1>1 DEF Jobs
  <2>2. j \in Jobs
    BY <1>1 DEF Jobs
  <2>3. job' = NextFact(c, j)
    BY <1>4
  <2> HIDE DEF j
  <2>4. LocalsInv(j)
    BY <1>1, <1>4, <2>1 DEF LocalsInv, Fact
  <2>5. FilesInv(j)
    BY <1>1, <2>1 DEF FilesInv
  <2> QED
    BY <1>1, <2>1, <2>2, <2>3, <2>4, <2>5, GoNext
<1>5. ASSUME NEW g \in {"unasked", "ready", "refused"}, job' = NextFact(c, [job[c] EXCEPT !.gate = g])
      PROVE  SyncInv'
  <2> DEFINE j == [job[c] EXCEPT !.gate = g]
  <2>1. j \in Jobs /\ SameLocals(j, job[c]) /\ j.step = job[c].step /\ j.fact = job[c].fact
    BY <1>1 DEF Jobs, SameLocals
  <2>2. job' = NextFact(c, j)
    BY <1>5
  <2> HIDE DEF j
  <2>3. LocalsInv(j) /\ FilesInv(j)
    BY <1>1, <2>1 DEF LocalsInv, FilesInv, SameLocals
  <2> QED
    BY <1>1, <2>1, <2>2, <2>3, GoNext
<1>6. ASSUME NEW g \in {"unasked", "ready", "refused"},
             NEW s \in {"recall", "intent"}, s = "intent" => intents[Deed(c)] # "whole",
             job[c].state[<<Fact(c), "l3">>].version # Deed(c)[2],
             job' = [job EXCEPT ![c].gate = g, ![c].step = s]
      PROVE  SyncInv'
  <2> DEFINE j == [job[c] EXCEPT !.gate = g, !.step = s]
  <2>1. /\ j \in Jobs /\ SameLocals(j, job[c]) /\ j.step = s /\ j.fact = job[c].fact
    BY <1>1 DEF Jobs, SameLocals
  <2>2. job' = [job EXCEPT ![c] = j]
    BY <1>6
  <2> HIDE DEF j
  <2>3. job'[c] = j
    BY <1>1, <2>2 DEF SyncInv, TypeOK
  <2>4. s = "intent" => ~ Sent(Deed(c))
    BY <1>1, <1>6 DEF LocalsInv, Covered, Fact
  <2>5. \A d : Sent(d)' = Sent(d)
    BY <1>1 DEF Sent
  <2>6. <<job'[c].fact, job'[c].entries[job'[c].fact]>> = Deed(c) /\ job'[c].step = s
    BY <2>1, <2>3 DEF SameLocals, Deed, Fact
  <2>7. StepInv(job[c])'
    BY <1>1, <2>4, <2>5, <2>6 DEF StepInv
  <2> QED
    BY <1>1, <2>1, <2>2, <2>7, GoOnWith
<1>7. {"ready", "refused"} \subseteq {"unasked", "ready", "refused"} /\ {job[c].gate} \subseteq {"unasked", "ready", "refused"}
    BY JobTypes
<1>8. CASE intents[Deed(c)] = "partial"
    BY <1>2, <1>8 DEF BeginL3
<1>9. CASE intents[Deed(c)] # "partial" /\ job[c].state[<<Fact(c), "l3">>].version = Deed(c)[2]
    BY <1>3, <1>4, <1>9 DEF BeginL3, Job, Fact
<1>10. CASE intents[Deed(c)] # "partial" /\ job[c].state[<<Fact(c), "l3">>].version # Deed(c)[2]
  <2>1. PICK g \in {"unasked", "ready", "refused"} :
           job' = IF g = "refused" THEN NextFact(c, [job[c] EXCEPT !.gate = g])
                  ELSE [job EXCEPT ![c].gate = g,
                                   ![c].step = IF intents[Deed(c)] = "whole" THEN "recall" ELSE "intent"]
    BY <1>1, <1>10, <1>7, Zenon DEF BeginL3, Job, Fact
  <2> QED
    BY <1>5, <1>6, <1>10, <2>1
<1> QED
    BY <1>8, <1>9, <1>10

LEMMA AnswerKeeps == ASSUME SyncInv, AtMostOne, NEW c \in Clients, Answer(c) PROVE SyncInv'
<1> USE DEF Outside, Closing, Steps, DeedSteps
<1>1. /\ c \in Holders /\ job[c].step = "answer" /\ Deed(c) \in Deeds
      /\ SameWorld /\ UNCHANGED taken
    BY AtLoop, KeptWorld DEF Answer, AtStep
<1>2. PICK s \in {"l3save", "recall"} : Goto(c, s) /\ (s = "l3save" => taken[Deed(c)] > 0)
    BY DEF Answer
<1>3. StepInv(job[c])'
    BY <1>1, <1>2, SameDeed DEF StepInv
<1> QED
    BY <1>1, <1>2, <1>3, GoOn

LEMMA RecallKeeps == ASSUME SyncInv, AtMostOne, NEW c \in Clients, Recall(c) PROVE SyncInv'
<1> USE DEF Outside, Closing, Steps, DeedSteps
<1>1. /\ c \in Holders /\ job[c].step = "recall" /\ Deed(c) \in Deeds /\ job[c].fact \in Facts
      /\ LocalsInv(job[c]) /\ FilesInv(job[c]) /\ job[c] \in Jobs
      /\ SameWorld /\ UNCHANGED taken
    BY AtLoop, JobTypes, KeptWorld DEF Recall, AtStep
<1>2. CASE taken[Deed(c)] > 0 /\ Goto(c, "l3save")
  <2>1. StepInv(job[c])'
    BY <1>1, <1>2, SameDeed DEF StepInv
  <2> QED
    BY <1>1, <1>2, <2>1, GoOn
<1>3. CASE job' = NextFact(c, Job(c))
    BY <1>1, <1>3, GoNext DEF Job
<1> QED
    BY <1>2, <1>3 DEF Recall

LEMMA DiskFailsKeeps == ASSUME SyncInv, AtMostOne, NEW c \in Clients, DiskFails(c) PROVE SyncInv'
<1>1. c \in Holders /\ SameWorld
    BY KeptWorld DEF DiskFails, Holders
<1> QED
    BY <1>1, GoLeave DEF DiskFails

-----------------------------------------------------------------------------
(* The steps that change the sinks, the facts or the clock.                *)

\* A sound ledger stays sound while facts, clock and sinks only move on.
LEMMA SoundGrows ==
    ASSUME TypeOK, TypeOK', clock <= clock', \A f \in Facts : edits[f] <= edits'[f],
           SinksGrow,
           NEW l \in Ledger, SoundLedger(l)
    PROVE  SoundLedger(l)'
<1>1. \A e \in Facts \X Sinks : l[e].version \in 0..MaxVersion /\ l[e].time \in 0..MaxTime
    BY DEF Ledger, Checkpoint
<1>2. \A f \in Facts, s \in Sinks : l[<<f, s>>].version # 0 => <<f, l[<<f, s>>].version>> \in Deeds
    BY <1>1 DEF Deeds
<1>3. TrueLedger(l)'
    BY <1>2 DEF TrueLedger, SoundLedger, Sinks, SinksGrow
<1>4. ASSUME NEW e \in Facts \X Sinks PROVE l[e].version <= edits'[e[1]] /\ l[e].time <= clock'
  <2>1. edits[e[1]] \in 0..MaxVersion /\ edits'[e[1]] \in 0..MaxVersion /\ edits[e[1]] <= edits'[e[1]]
    BY DEF TypeOK
  <2> QED
    BY <1>1, <2>1, BoundsAssumption DEF SoundLedger, TypeOK
<1> QED
    BY <1>3, <1>4 DEF SoundLedger

\* The same for the ledgers a step leaves alone.
LEMMA FilesStaySound ==
    ASSUME SyncInv, TypeOK', clock <= clock', \A f \in Facts : edits[f] <= edits'[f],
           SinksGrow
    PROVE  /\ UNCHANGED primary => SoundLedger(Contents(primary))'
           /\ UNCHANGED pending => SoundLedger(Contents(pending))'
           /\ \A c \in Holders : job[c].step \notin Outside /\ job'[c].state = job[c].state
                                   => SoundLedger(job[c].state)'
<1>1. \A l \in Ledger : SoundLedger(l) => SoundLedger(l)'
    BY SoundGrows DEF SyncInv
<1>2. /\ Contents(primary) \in Ledger /\ Contents(pending) \in Ledger
      /\ SoundLedger(Contents(primary)) /\ SoundLedger(Contents(pending))
    BY LedgerTypes DEF SyncInv, WorldInv
<1>3. \A c \in Holders : job[c].step \notin Outside => job[c].state \in Ledger /\ SoundLedger(job[c].state)
    BY JobTypes DEF SyncInv, JobInv, LocalsInv, Holders
<1>4. UNCHANGED primary => SoundLedger(Contents(primary))'
    BY <1>1, <1>2 DEF SoundLedger, TrueLedger, Contents
<1>5. UNCHANGED pending => SoundLedger(Contents(pending))'
    BY <1>1, <1>2 DEF SoundLedger, TrueLedger, Contents
<1>6. \A c \in Holders : job[c].step \notin Outside /\ job'[c].state = job[c].state
                                   => SoundLedger(job[c].state)'
    BY <1>1, <1>3 DEF SoundLedger, TrueLedger
<1> QED
    BY <1>4, <1>5, <1>6

LEMMA MergedFrame == UNCHANGED <<primary, pending>> => Merged' = Merged /\ (PendingIsLater => PendingIsLater')
    BY DEF Merged, Contents, PendingIsLater

\* A snapshot that lands, also late, gives the store more to match.
LEMMA InsertKeeps == ASSUME SyncInv, NEW d \in Deeds, Insert(d) PROVE SyncInv'
<1> USE DEF l1Vars, l3Vars, diskVars
<1>1. UNCHANGED <<lockVars, l1Vars, timeVars, diskVars, l3Vars, job>>
    BY DEF Insert
<1>2. written \subseteq written' /\ written' \subseteq Deeds /\ inserts' \subseteq Deeds
    BY DEF Insert, SyncInv, TypeOK
<1>3. TypeOK'
    BY <1>1, <1>2 DEF SyncInv, TypeOK
<1>4. \A x : Sent(x)' <=> Sent(x)
    BY <1>1 DEF Sent
<1>5. SinksGrow
    BY <1>1, <1>2, SinksOnlyGrow
<1>6. clock <= clock' /\ \A f \in Facts : edits[f] <= edits'[f]
    BY <1>1 DEF SyncInv, TypeOK
<1>7. /\ SoundLedger(Contents(primary))' /\ SoundLedger(Contents(pending))'
      /\ \A c \in Holders : job[c].step \notin Outside => SoundLedger(job[c].state)'
    BY <1>1, <1>3, <1>5, <1>6, FilesStaySound
<1>8. Merged' = Merged /\ PendingIsLater'
    BY <1>1, MergedFrame DEF SyncInv, WorldInv
<1>9. WorldInv'
  <2>1. \A x \in Deeds : x[2] = content'[x[1]] => Covered(x, Merged)'
    BY <1>1, <1>4, <1>8 DEF SyncInv, WorldInv, Covered
  <2> QED
    BY <1>1, <1>4, <1>7, <1>8, <2>1 DEF SyncInv, WorldInv
<1>10. ASSUME NEW c \in Holders, job[c].step \notin Outside
       PROVE  LocalsInv(job[c])' /\ StepInv(job[c])' /\ FilesInv(job[c])'
  <2>1. LocalsInv(job[c]) /\ StepInv(job[c]) /\ FilesInv(job[c]) /\ job[c] \in Jobs
    BY <1>10, JobTypes DEF SyncInv, JobInv, Holders
  <2>2. LocalsInv(job[c])'
    BY <1>1, <1>4, <1>7, <1>10, <2>1 DEF LocalsInv, Covered
  <2>3. FilesInv(job[c])'
    BY <1>1, <1>8, <2>1 DEF FilesInv
  <2>4. StepInv(job[c])'
    BY <1>1, <1>4, <1>5, <2>1 DEF StepInv, DeedSteps, SinksGrow
  <2> QED
    BY <2>2, <2>3, <2>4
<1>11. \A c \in Holders' : JobInv(c)'
    BY <1>1, <1>10 DEF JobInv, Holders, lockVars
<1> QED
    BY <1>3, <1>9, <1>11 DEF SyncInv

\* The locals and the files after a step that changes no ledger, no clock and no
\* L1 fact, and of the job only the step.
LEMMA GoWith ==
    ASSUME SyncInv, AtMostOne, NEW c \in Holders, NEW k \in Jobs, SameLocals(k, job[c]),
           job' = [job EXCEPT ![c] = k],
           UNCHANGED <<l1Vars, timeVars, primary, pending, l2Vars, lk>>,
           job[c].step \notin Outside, job[c].step \notin Closing, k.step \notin Closing,
           intents' \in [Deeds -> {"none", "partial", "whole"}],
           taken' = taken, net' \subseteq Deeds,
           \A d \in net' : taken[d] = 0 /\ d[2] <= edits[d[1]],
           \A d \in Deeds : d[2] = content[d[1]] => Covered(d, Merged)',
           \A d \in Deeds : d[2] = content[d[1]] /\ d[2] /= job[c].entries[d[1]] => ~ Sent(d)',
           \A d \in Deeds : d[2] = job[c].entries[d[1]] => Covered(d, job[c].state)',
           StepInv(job[c])'
    PROVE  SyncInv'
<1>1. c \in Clients /\ job[c] \in Jobs /\ LocalsInv(job[c]) /\ FilesInv(job[c])
    BY JobTypes DEF Holders, SyncInv, JobInv
<1>2. job' \in [Clients -> Jobs] /\ job'[c] = k
    BY <1>1 DEF SyncInv, TypeOK
<1>3. TypeOK'
    BY <1>2 DEF SyncInv, TypeOK, l1Vars
<1>4. /\ job'[c].time = job[c].time /\ job'[c].state = job[c].state /\ job'[c].entries = job[c].entries
      /\ job'[c].complete = job[c].complete /\ job'[c].saved = job[c].saved /\ job'[c].dirty = job[c].dirty
      /\ job'[c].step = k.step
    BY <1>1, <1>2 DEF SameLocals
<1>5. clock <= clock' /\ SinksGrow /\ \A f \in Facts : edits[f] <= edits'[f]
    BY SinksOnlyGrow DEF SyncInv, TypeOK, l1Vars
<1>6. SoundLedger(Contents(primary))' /\ SoundLedger(Contents(pending))' /\ SoundLedger(job[c].state)'
    BY <1>1, <1>3, <1>4, <1>5, FilesStaySound
<1>7. Merged' = Merged /\ PendingIsLater'
    BY MergedFrame DEF SyncInv, WorldInv
<1>8. WorldInv'
  <2>1. \A d \in Deeds : Sent(d)' => d[2] <= edits[d[1]]
    BY DEF Sent, SyncInv, WorldInv
  <2>2. \A d \in Deeds : taken'[d] <= 1 /\ (d \in net' => taken'[d] = 0)
    BY DEF SyncInv, WorldInv
  <2> QED
    BY <1>6, <1>7, <2>1, <2>2 DEF SyncInv, WorldInv, l1Vars
<1>9. LocalsInv(job[c])'
  <2>1. \A d \in Deeds : d[2] = job'[c].entries[d[1]] => Covered(d, job[c].state)'
    BY <1>4
  <2>2. \A d \in Deeds : d[2] = content'[d[1]] /\ d[2] /= job'[c].entries[d[1]] => ~ Sent(d)'
    BY <1>4 DEF l1Vars
  <2> QED
    BY <1>1, <1>4, <1>6, <2>1, <2>2 DEF LocalsInv, l1Vars
<1>10. FilesInv(job[c])'
    BY <1>1, <1>4, FilesFrame
<1> QED
    BY <1>3, <1>8, <1>9, <1>10, HolderOnly DEF JobInv

LEMMA SendKeeps == ASSUME SyncInv, AtMostOne, NEW c \in Clients, Send(c) PROVE SyncInv'
<1> USE DEF Outside, Closing, Steps, DeedSteps
<1>1. /\ c \in Holders /\ job[c].step = "send" /\ Deed(c) \in Deeds
      /\ ~ Sent(Deed(c)) /\ intents[Deed(c)] = "whole"
      /\ Deed(c)[1] = job[c].fact /\ Deed(c)[2] = job[c].entries[job[c].fact]
      /\ LocalsInv(job[c]) /\ job[c] \in Jobs
      /\ UNCHANGED <<l1Vars, timeVars, primary, pending, intents, l2Vars, taken, lk>>
    BY AtLoop, JobTypes DEF Send, AtStep, lockVars, diskVars, StepInv, Deed, Fact
<1>2. net' = net \cup {Deed(c)} /\ Goto(c, "answer")
    BY DEF Send
<1>3. taken[Deed(c)] = 0
    BY <1>1 DEF Sent, SyncInv, TypeOK
<1>4. Deed(c)[2] <= edits[Deed(c)[1]]
    BY <1>1 DEF LocalsInv, Deeds
<1>5. \A d : Sent(d)' <=> Sent(d) \/ d = Deed(c)
    BY <1>1, <1>2 DEF Sent
<1>6. net' \subseteq Deeds /\ \A d \in net' : taken[d] = 0 /\ d[2] <= edits[d[1]]
    BY <1>1, <1>2, <1>3, <1>4 DEF SyncInv, WorldInv, TypeOK, Sent
<1>7. \A d, l : Covered(d, l) => Covered(d, l)'
    BY <1>1, <1>5 DEF Covered
<1>8. \A d \in Deeds : d[2] = content[d[1]] => Covered(d, Merged)'
  <2>1. Merged' = Merged
    BY <1>1, MergedFrame
  <2> QED
    BY <1>1, <1>5, <2>1 DEF Covered, SyncInv, WorldInv
<1>9. \A d \in Deeds : d[2] = content[d[1]] /\ d[2] /= job[c].entries[d[1]] => ~ Sent(d)'
    BY <1>1, <1>5 DEF LocalsInv
<1>10. job'[c].state = job[c].state
    BY <1>1, <1>2, SameDeed
<1>11. \A d \in Deeds : d[2] = job[c].entries[d[1]] => Covered(d, job[c].state)'
    BY <1>1, <1>5, <1>10 DEF Covered, LocalsInv
<1>12. StepInv(job[c])'
    BY <1>1, <1>2, SameDeed DEF StepInv
<1>13. intents' \in [Deeds -> {"none", "partial", "whole"}]
    BY <1>1 DEF SyncInv, TypeOK
<1> DEFINE k == [job[c] EXCEPT !.step = "answer"]
<1>14. k \in Jobs /\ SameLocals(k, job[c]) /\ k.step = "answer" /\ job' = [job EXCEPT ![c] = k]
    BY <1>1, <1>2, GotoJob DEF Goto
<1> HIDE DEF k
<1> QED
    BY <1>1, <1>6, <1>8, <1>9, <1>11, <1>12, <1>13, <1>14, GoWith

LEMMA WriteIntentKeeps == ASSUME SyncInv, AtMostOne, NEW c \in Clients, WriteIntent(c) PROVE SyncInv'
<1> USE DEF Outside, Closing, Steps, DeedSteps
<1>1. /\ c \in Holders /\ job[c].step = "intent" /\ Deed(c) \in Deeds /\ ~ Sent(Deed(c))
      /\ LocalsInv(job[c]) /\ job[c] \in Jobs
      /\ UNCHANGED <<l1Vars, timeVars, primary, pending, l2Vars, taken, net, lk>>
    BY AtLoop, JobTypes DEF WriteIntent, KeepSinks, sinkVars, AtStep, lockVars, StepInv, Deed, Fact
<1>2. intents \in [Deeds -> {"none", "partial", "whole"}]
    BY DEF SyncInv, TypeOK
<1>3. PICK s \in {"intent", "send"} : Goto(c, s) /\ (s = "send" => intents'[Deed(c)] = "whole")
    BY <1>1, <1>2 DEF WriteIntent
<1>4. /\ intents' \in [Deeds -> {"none", "partial", "whole"}]
      /\ \A d \in Deeds : d # Deed(c) => intents'[d] = intents[d]
    BY <1>1, <1>2 DEF WriteIntent
<1>5. \A d : Sent(d)' <=> Sent(d)
    BY <1>1 DEF Sent
<1>6. net' \subseteq Deeds /\ \A d \in net' : taken[d] = 0 /\ d[2] <= edits[d[1]]
    BY <1>1 DEF SyncInv, WorldInv, TypeOK, Sent
<1>7. \A d \in Deeds : d[2] = content[d[1]] => Covered(d, Merged)'
  <2>1. Merged' = Merged
    BY <1>1, MergedFrame
  <2> QED
    BY <1>1, <1>4, <1>5, <2>1 DEF Covered, SyncInv, WorldInv
<1>8. \A d \in Deeds : d[2] = content[d[1]] /\ d[2] /= job[c].entries[d[1]] => ~ Sent(d)'
    BY <1>1, <1>5 DEF LocalsInv
<1>9. job'[c].state = job[c].state
    BY <1>1, <1>3, SameDeed
<1>10. \A d \in Deeds : d[2] = job[c].entries[d[1]] => Covered(d, job[c].state)'
    BY <1>1, <1>4, <1>5, <1>9 DEF Covered, LocalsInv
<1>11. StepInv(job[c])'
    BY <1>1, <1>3, <1>5, SameDeed DEF StepInv
<1> DEFINE k == [job[c] EXCEPT !.step = s]
<1>12. k \in Jobs /\ SameLocals(k, job[c]) /\ k.step = s /\ job' = [job EXCEPT ![c] = k]
  <2>1. s \in Steps
    OBVIOUS
  <2>2. k \in Jobs /\ SameLocals(k, job[c]) /\ k.step = s
    BY <2>1, GotoJob
  <2> QED
    BY <1>3, <2>2 DEF Goto
<1> HIDE DEF k
<1> QED
    BY <1>1, <1>3, <1>4, <1>6, <1>7, <1>8, <1>10, <1>11, <1>12, GoWith

LEMMA RejectedKeeps == ASSUME SyncInv, AtMostOne, NEW c \in Clients, Rejected(c) PROVE SyncInv'
<1> USE DEF Outside, Closing, Steps, DeedSteps
<1>1. /\ c \in Holders /\ job[c].step = "answer" /\ Deed(c) \in Deeds /\ job[c].fact \in Facts
      /\ LocalsInv(job[c]) /\ job[c] \in Jobs
      /\ Deed(c) \in net /\ net' = net \ {Deed(c)}
      /\ UNCHANGED <<l1Vars, timeVars, primary, pending, l2Vars, taken, lk>>
    BY AtLoop, JobTypes DEF Rejected, AtStep, lockVars
<1>2. intents \in [Deeds -> {"none", "partial", "whole"}]
    BY DEF SyncInv, TypeOK
<1>3. /\ intents' \in [Deeds -> {"none", "partial", "whole"}]
      /\ \A d \in Deeds : d # Deed(c) => intents'[d] = intents[d]
    BY <1>1, <1>2 DEF Rejected
<1>4. taken[Deed(c)] = 0
    BY <1>1 DEF SyncInv, WorldInv
<1>5. \A d : Sent(d)' <=> Sent(d) /\ d # Deed(c)
    BY <1>1, <1>4 DEF Sent
<1>6. net' \subseteq Deeds /\ \A d \in net' : taken[d] = 0 /\ d[2] <= edits[d[1]]
    BY <1>1 DEF SyncInv, WorldInv, TypeOK, Sent
<1>7. \A d \in Deeds : d[2] = content[d[1]] => Covered(d, Merged)'
  <2>1. Merged' = Merged
    BY <1>1, MergedFrame
  <2> QED
    BY <1>1, <1>3, <1>5, <2>1 DEF Covered, SyncInv, WorldInv
<1>8. \A d \in Deeds : d[2] = content[d[1]] /\ d[2] /= job[c].entries[d[1]] => ~ Sent(d)'
    BY <1>1, <1>5 DEF LocalsInv
<1>9. PICK k \in Jobs : /\ SameLocals(k, job[c]) /\ job' = [job EXCEPT ![c] = k] /\ k.step \notin Closing
                        /\ StepInv(job[c])'
  <2>1. CASE job' = NextFact(c, Job(c))
    <3>1. /\ Moved(job[c]) \in Jobs
          /\ job' = [job EXCEPT ![c] = Moved(job[c])]
          /\ job'[c].time = job[c].time /\ job'[c].state = job[c].state /\ job'[c].entries = job[c].entries
          /\ job'[c].complete = job[c].complete /\ job'[c].saved = job[c].saved
          /\ job'[c].dirty = job[c].dirty /\ job'[c].step \notin Closing /\ StepInv(job[c])'
      BY <1>1, <2>1, NextFactJob DEF Job
    <3>2. job'[c] = Moved(job[c])
      BY <3>1 DEF SyncInv, TypeOK
    <3>3. SameLocals(Moved(job[c]), job[c]) /\ Moved(job[c]).step \notin Closing
      BY <3>1, <3>2 DEF SameLocals
    <3> QED
      BY <3>1, <3>3
  <2>2. CASE Goto(c, "recall")
    <3>1. StepInv(job[c])'
      BY <1>1, <2>2, SameDeed DEF StepInv
    <3>2. job' = [job EXCEPT ![c] = [job[c] EXCEPT !.step = "recall"]]
      BY <2>2 DEF Goto
    <3> QED
      BY <1>1, <3>1, <3>2, GotoJob
  <2> QED
    BY <2>1, <2>2 DEF Rejected
<1>10. job'[c].state = job[c].state
    BY <1>1, <1>9 DEF SameLocals, SyncInv, TypeOK
<1>11. \A d \in Deeds : d[2] = job[c].entries[d[1]] => Covered(d, job[c].state)'
    BY <1>1, <1>3, <1>5, <1>10 DEF Covered, LocalsInv
<1> QED
    BY <1>1, <1>3, <1>6, <1>7, <1>8, <1>9, <1>11, GoWith

\* A request on its way was not taken yet; it is taken now, or never.
LEMMA DeliverKeeps == ASSUME SyncInv, NEW d \in Deeds, Deliver(d) PROVE SyncInv'
<1> USE DEF l1Vars, diskVars
<1>1. /\ d \in net /\ net' = net \ {d} /\ taken[d] = 0
      /\ UNCHANGED <<lockVars, l1Vars, timeVars, diskVars, l2Vars, job>>
    BY DEF Deliver, SyncInv, WorldInv
<1>2. taken \in [Deeds -> Nat]
    BY DEF SyncInv, TypeOK
<1>3. taken' \in [Deeds -> Nat] /\ \A x \in Deeds : taken'[x] = taken[x] \/ (x = d /\ taken'[x] = 1)
    BY <1>1, <1>2 DEF Deliver
<1>4. TypeOK'
    BY <1>1, <1>3 DEF SyncInv, TypeOK
<1>5. \A x \in Deeds : Sent(x)' => Sent(x)
    BY <1>1, <1>2, <1>3 DEF Sent
<1>6. SinksGrow
  <2>1. \A x \in Deeds : taken[x] > 0 => taken'[x] > 0
    BY <1>1, <1>2, <1>3
  <2> QED
    BY <1>1, <2>1, SinksOnlyGrow
<1>7. clock <= clock' /\ \A f \in Facts : edits[f] <= edits'[f]
    BY <1>1 DEF SyncInv, TypeOK
<1>8. /\ SoundLedger(Contents(primary))' /\ SoundLedger(Contents(pending))'
      /\ \A c \in Holders : job[c].step \notin Outside => SoundLedger(job[c].state)'
    BY <1>1, <1>4, <1>6, <1>7, FilesStaySound
<1>9. Merged' = Merged /\ PendingIsLater'
    BY <1>1, MergedFrame DEF SyncInv, WorldInv
<1>10. WorldInv'
  <2>1. \A x \in Deeds : taken'[x] <= 1 /\ (x \in net' => taken'[x] = 0)
    BY <1>1, <1>3 DEF SyncInv, WorldInv
  <2>2. \A x \in Deeds : x[2] = content'[x[1]] => Covered(x, Merged)'
    BY <1>1, <1>5, <1>9 DEF SyncInv, WorldInv, Covered
  <2> QED
    BY <1>1, <1>5, <1>8, <1>9, <2>1, <2>2 DEF SyncInv, WorldInv
<1>11. ASSUME NEW c \in Holders, job[c].step \notin Outside
       PROVE  LocalsInv(job[c])' /\ StepInv(job[c])' /\ FilesInv(job[c])'
  <2>1. LocalsInv(job[c]) /\ StepInv(job[c]) /\ FilesInv(job[c]) /\ job[c] \in Jobs
    BY <1>11, JobTypes DEF SyncInv, JobInv, Holders
  <2>2. LocalsInv(job[c])'
    BY <1>1, <1>5, <1>8, <1>11, <2>1 DEF LocalsInv, Covered
  <2>3. FilesInv(job[c])'
    BY <1>1, <1>9, <2>1 DEF FilesInv
  <2>4. StepInv(job[c])'
    BY <1>1, <1>5, <1>6, <2>1 DEF StepInv, DeedSteps, SinksGrow
  <2> QED
    BY <2>2, <2>3, <2>4
<1>12. \A c \in Holders' : JobInv(c)'
    BY <1>1, <1>11 DEF JobInv, Holders, lockVars
<1> QED
    BY <1>4, <1>10, <1>12 DEF SyncInv

\* A new version was never sent.
LEMMA EditKeeps == ASSUME SyncInv, NEW f \in Facts, Edit(f) PROVE SyncInv'
<1> USE DEF diskVars, sinkVars
<1>1. UNCHANGED <<lockVars, says, timeVars, diskVars, sinkVars, job>>
    BY DEF Edit
<1>2. /\ edits \in [Facts -> 0..MaxVersion] /\ content \in [Facts -> 0..MaxVersion]
      /\ \A g \in Facts : content[g] \in {0, edits[g]}
    BY DEF SyncInv, TypeOK, WorldInv
<1>3. /\ edits' \in [Facts -> 0..MaxVersion] /\ content' \in [Facts -> 0..MaxVersion]
      /\ \A g \in Facts : edits[g] <= edits'[g]
      /\ \A g \in Facts : content'[g] = content[g] \/ content'[g] = 0
                            \/ (content'[g] = edits'[g] /\ edits[g] < content'[g])
      /\ \A g \in Facts : content'[g] \in {0, edits'[g]}
  <2>1. CASE /\ edits[f] < MaxVersion
             /\ edits' = [edits EXCEPT ![f] = @ + 1]
             /\ content' = [content EXCEPT ![f] = edits'[f]]
    BY <1>2, <2>1, BoundsAssumption
  <2>2. CASE content' = [content EXCEPT ![f] = 0] /\ UNCHANGED edits
    BY <1>2, <2>2, BoundsAssumption
  <2> QED
    BY <2>1, <2>2 DEF Edit
<1>4. TypeOK'
    BY <1>1, <1>3 DEF SyncInv, TypeOK
<1>5. \A d : Sent(d)' <=> Sent(d)
    BY <1>1 DEF Sent
<1>6. ASSUME NEW d \in Deeds, d[2] = content'[d[1]] PROVE d[2] = content[d[1]] \/ ~ Sent(d)
  <2>1. d[1] \in Facts /\ d[2] \in 1..MaxVersion
    BY DEF Deeds
  <2>2. content'[d[1]] = content[d[1]] \/ edits[d[1]] < d[2]
    BY <1>3, <1>6, <2>1
  <2>3. Sent(d) => d[2] <= edits[d[1]]
    BY DEF SyncInv, WorldInv
  <2>4. edits[d[1]] \in 0..MaxVersion
    BY <1>2, <2>1
  <2> QED
    BY <1>6, <2>1, <2>2, <2>3, <2>4, BoundsAssumption
<1>7. clock <= clock' /\ SinksGrow
    BY <1>1, SinksOnlyGrow DEF SyncInv, TypeOK
<1>8. /\ SoundLedger(Contents(primary))' /\ SoundLedger(Contents(pending))'
      /\ \A c \in Holders : job[c].step \notin Outside => SoundLedger(job[c].state)'
    BY <1>1, <1>3, <1>4, <1>7, FilesStaySound
<1>9. Merged' = Merged /\ PendingIsLater'
    BY <1>1, MergedFrame DEF SyncInv, WorldInv
<1>10. WorldInv'
  <2>1. ASSUME NEW d \in Deeds, Sent(d)' PROVE d[2] <= edits'[d[1]]
    <3>1. d[1] \in Facts /\ d[2] <= edits[d[1]] /\ d[2] \in Nat
      BY <1>5, <2>1 DEF SyncInv, WorldInv, Deeds
    <3> QED
      BY <1>2, <1>3, <3>1, BoundsAssumption
  <2>2. \A d \in Deeds : d[2] = content'[d[1]] => Covered(d, Merged)'
    BY <1>1, <1>5, <1>6, <1>9 DEF SyncInv, WorldInv, Covered
  <2>3. \A d \in Deeds : taken'[d] <= 1 /\ (d \in net' => taken'[d] = 0)
    BY <1>1 DEF SyncInv, WorldInv
  <2> QED
    BY <1>3, <1>8, <1>9, <2>1, <2>2, <2>3 DEF WorldInv
<1>11. ASSUME NEW c \in Holders, job[c].step \notin Outside
       PROVE  LocalsInv(job[c])' /\ StepInv(job[c])' /\ FilesInv(job[c])'
  <2>1. LocalsInv(job[c]) /\ StepInv(job[c]) /\ FilesInv(job[c]) /\ job[c] \in Jobs
    BY <1>11, JobTypes DEF SyncInv, JobInv, Holders
  <2>2. LocalsInv(job[c])'
    <3>1. \A g \in Facts : job[c].entries[g] <= edits'[g]
      <4> SUFFICES ASSUME NEW g \in Facts PROVE job[c].entries[g] <= edits'[g]
        OBVIOUS
      <4>1. job[c].entries[g] \in 0..MaxVersion /\ job[c].entries[g] <= edits[g] /\ edits[g] <= edits'[g]
        BY <1>3, <2>1 DEF LocalsInv, Jobs
      <4> QED
        BY <1>2, <1>3, <4>1, BoundsAssumption
    <3>2. \A d \in Deeds : d[2] = content'[d[1]] /\ d[2] /= job[c].entries[d[1]] => ~ Sent(d)
      BY <1>6, <2>1 DEF LocalsInv
    <3> QED
      BY <1>1, <1>5, <1>8, <1>11, <2>1, <3>1, <3>2 DEF LocalsInv, Covered
  <2>3. FilesInv(job[c])'
    BY <1>1, <1>9, <2>1 DEF FilesInv
  <2>4. StepInv(job[c])'
    BY <1>1, <1>5, <1>7, <2>1 DEF StepInv, DeedSteps, SinksGrow
  <2> QED
    BY <2>2, <2>3, <2>4
<1>12. \A c \in Holders' : JobInv(c)'
    BY <1>1, <1>11 DEF JobInv, Holders, lockVars
<1> QED
    BY <1>4, <1>10, <1>12 DEF SyncInv

-----------------------------------------------------------------------------
(* A sync begins and ends.                                                 *)

\* A client comes or goes with locals that do not matter; the others are as
\* they were.
LEMMA ComeAndGo ==
    ASSUME SyncInv, NEW c \in Clients, NEW j \in Jobs, UNCHANGED <<World, inserts>>,
           job' = [job EXCEPT ![c] = j] \/ job' = job,
           \A x \in Holders' : (x \in Holders /\ x /= c) \/ job'[x].step \in Outside
    PROVE  SyncInv'
<1> USE DEF World, l1Vars, diskVars
<1>1. WorldInv'
    BY WorldFrame DEF SyncInv
<1>2. job \in [Clients -> Jobs]
    BY DEF SyncInv, TypeOK
<1>3. job' \in [Clients -> Jobs]
    BY <1>2
<1>4. TypeOK'
    BY <1>3 DEF SyncInv, TypeOK
<1>5. ASSUME NEW x \in Holders', job'[x].step \notin Outside PROVE JobInv(x)'
  <2>1. x \in Holders /\ x \in Clients /\ job'[x] = job[x]
    BY <1>2, <1>5 DEF Holders
  <2>2. LocalsInv(job[x]) /\ StepInv(job[x]) /\ FilesInv(job[x])
    BY <1>5, <2>1 DEF SyncInv, JobInv
  <2>3. LocalsInv(job[x])'
    BY <2>1, <2>2, LocalsFrame
  <2>4. StepInv(job[x])'
    BY <2>1, <2>2, MatchingFrame DEF StepInv, Sent
  <2>5. FilesInv(job[x])'
    BY <2>1, <2>2 DEF FilesInv, Merged, Contents
  <2> QED
    BY <2>3, <2>4, <2>5 DEF JobInv
<1>6. \A x \in Holders' : JobInv(x)'
    BY <1>5 DEF JobInv
<1> QED
    BY <1>1, <1>4, <1>6 DEF SyncInv

LEMMA TakeKeeps == ASSUME SyncInv, NEW c \in Clients, LockInv, Take(c) PROVE SyncInv'
<1> USE DEF Outside
<1>1. \A x \in Clients \ {c} : lk'[x] = lk[x]
    BY DEF Take, Acquiring, FindFree, Read, FollowDead, FindBusy, TryAgain, Link, LockInv, LockTypeOK
<1>2. UNCHANGED <<World, inserts>>
    BY DEF Take, World, sinkVars
<1> DEFINE j == [NoJob EXCEPT !.step = "load"]
<1>3. j \in Jobs /\ j.step = "load"
    BY NoJobType DEF Steps
<1>4. IF lk'[c] = "held" THEN job' = [job EXCEPT ![c] = j] ELSE job' = job
    BY DEF Take
<1> HIDE DEF j
<1>5. \A x \in Holders' : (x \in Holders /\ x /= c) \/ job'[x].step \in Outside
    BY <1>1, <1>3, <1>4 DEF Holders, SyncInv, TypeOK
<1> QED
    BY <1>2, <1>3, <1>4, <1>5, ComeAndGo

LEMMA LeaveKeeps == ASSUME SyncInv, LockInv, NEW c \in Clients, Leave(c) \/ Crash(c) PROVE SyncInv'
<1>1. NoJob.step \in Outside
    BY DEF NoJob, Outside
<1>2. UNCHANGED <<World, inserts>> /\ job' = [job EXCEPT ![c] = NoJob]
    BY DEF Leave, Crash, World, sinkVars
<1>3. job'[c].step \in Outside
    BY <1>1, <1>2 DEF SyncInv, TypeOK
<1>4. \A x \in Clients \ {c} : lk'[x] = "held" => lk[x] = "held"
    BY DEF Leave, Crash, Unlock, Perish, LockInv, LockTypeOK
<1>5. \A x \in Holders' : (x \in Holders /\ x /= c) \/ job'[x].step \in Outside
    BY <1>3, <1>4 DEF Holders
<1> QED
    BY <1>2, <1>5, NoJobType, ComeAndGo

\* What a sync loads of the files agrees with the sinks.
LEMMA LoadKeeps == ASSUME SyncInv, AtMostOne, NEW c \in Clients, Load(c), ~ setback' PROVE SyncInv'
<1> USE DEF Steps, l1Vars, diskVars, sinkVars
<1>1. /\ c \in Holders /\ clock' \in 0..MaxTime /\ ~ clock' < clock /\ setback' \in BOOLEAN
      /\ UNCHANGED <<lockVars, l1Vars, diskVars, sinkVars>>
  <2>1. c \in Holders /\ clock' \in 0..MaxTime /\ UNCHANGED <<lockVars, l1Vars, diskVars, sinkVars>>
    BY BoundsAssumption DEF Load, AtStep, Holders
  <2>2. ~ clock' < clock /\ setback' \in BOOLEAN
    BY Zenon DEF Load
  <2> QED
    BY <2>1, <2>2
<1>2. job \in [Clients -> Jobs] /\ clock \in 0..MaxTime
    BY DEF SyncInv, TypeOK
<1>3. clock <= clock'
    BY <1>1, <1>2, BoundsAssumption
<1>4. \A d : Sent(d)' <=> Sent(d)
    BY <1>1 DEF Sent
<1>5. Merged' = Merged /\ PendingIsLater'
    BY <1>1, MergedFrame DEF SyncInv, WorldInv
<1>6. \A f \in Facts : edits[f] <= edits'[f]
    BY <1>1 DEF SyncInv, TypeOK
<1>7. SinksGrow
    BY <1>1, SinksOnlyGrow
<1>8. ASSUME TypeOK' PROVE WorldInv'
  <2>1. SoundLedger(Contents(primary))' /\ SoundLedger(Contents(pending))'
    BY <1>1, <1>3, <1>6, <1>8, <1>7, FilesStaySound
  <2>2. \A d \in Deeds : d[2] = content'[d[1]] => Covered(d, Merged)'
    BY <1>1, <1>4, <1>5 DEF SyncInv, WorldInv, Covered
  <2> QED
    BY <1>1, <1>4, <1>5, <2>1, <2>2 DEF SyncInv, WorldInv
<1>9. CASE Clash
  <2>1. job' = [job EXCEPT ![c] = [NoJob EXCEPT !.step = "leave"]]
    BY <1>9 DEF Load, Abandon
  <2>2. job' \in [Clients -> Jobs] /\ job'[c].step = "leave"
    BY <1>2, <2>1, NoJobType
  <2>3. TypeOK'
    BY <1>1, <2>2 DEF SyncInv, TypeOK
  <2>4. JobInv(c)'
    BY <2>2 DEF JobInv, Outside
  <2> QED
    BY <1>1, <1>8, <2>3, <2>4, HolderOnly DEF lockVars
<1>10. CASE ~ Clash
  <2> DEFINE j == [NoJob EXCEPT !.step = "l2", !.entries = content, !.state = Merged,
                                !.dirty = (pending /= NoFile), !.saved = (pending /= NoFile),
                                !.time = clock']
  <2>1. job' = [job EXCEPT ![c] = j]
    BY <1>10 DEF Load
  <2>2. /\ j.step = "l2" /\ j.fact = 1 /\ j.entries = content /\ j.state = Merged
        /\ j.dirty = (pending /= NoFile) /\ j.saved = (pending /= NoFile) /\ j.gate = "unasked"
        /\ j.complete = {} /\ j.time = clock'
    BY DEF NoJob
  <2>3. j \in Jobs
    <3>1. content \in [Facts -> 0..MaxVersion] /\ Merged \in Ledger
      BY LedgerTypes DEF SyncInv, TypeOK
    <3>2. "l2" \in Steps /\ (pending /= NoFile) \in BOOLEAN
      OBVIOUS
    <3> QED
      BY <1>1, <3>1, <3>2, NoJobType, ZenonT(60) DEF Jobs
  <2> HIDE DEF j
  <2>5. job' \in [Clients -> Jobs] /\ job'[c] = j
    BY <1>1, <1>2, <2>1, <2>3 DEF Holders
  <2>6. TypeOK'
    BY <1>1, <2>5 DEF SyncInv, TypeOK
  <2>7. \A e \in Facts \X Sinks : Merged[e] = IF Contents(pending)[e] = Never THEN Contents(primary)[e]
                                              ELSE Contents(pending)[e]
    BY MergedEntry DEF SyncInv, WorldInv
  <2>8. SoundLedger(Merged)
    <3>1. SoundLedger(Contents(primary)) /\ SoundLedger(Contents(pending))
      BY DEF SyncInv, WorldInv
    <3>2. \A f \in Facts, s \in Sinks : <<f, s>> \in Facts \X Sinks
      OBVIOUS
    <3>3. TrueLedger(Merged)
      BY <2>7, <3>1, <3>2 DEF SoundLedger, TrueLedger, Sinks
    <3> QED
      BY <2>7, <3>1, <3>3 DEF SoundLedger
  <2>9. SoundLedger(job[c].state)'
    <3>1. Merged \in Ledger /\ TypeOK
      BY LedgerTypes DEF SyncInv
    <3>2. SinksGrow
      BY <1>1, <1>7
    <3>3. \A l \in Ledger : SoundLedger(l) => SoundLedger(l)'
      BY <1>3, <1>6, <2>6, <3>1, <3>2, SoundGrows
    <3> QED
      BY <2>2, <2>5, <2>8, <3>1, <3>3 DEF SoundLedger, TrueLedger
  <2>10. \A f \in Facts : content[f] \in {0, edits[f]} /\ edits[f] \in 0..MaxVersion
    BY DEF SyncInv, WorldInv, TypeOK
  <2>11. LocalsInv(job[c])'
    <3>1. \A e \in Facts \X Sinks : content[e[1]] /= 0 => Merged[e].version <= content[e[1]]
      BY <2>8, <2>10 DEF SoundLedger
    <3>2. \A f \in Facts : content[f] <= edits[f]
      BY <2>10, BoundsAssumption
    <3>3. \A d \in Deeds : d[2] = content[d[1]] => Covered(d, Merged)
      BY DEF SyncInv, WorldInv
    <3> QED
      BY <1>1, <1>4, <2>2, <2>5, <2>9, <3>1, <3>2, <3>3 DEF LocalsInv, Covered
  <2>12. StepInv(job[c])'
    BY <2>2, <2>5, BoundsAssumption DEF StepInv, DeedSteps, Facts
  <2>13. FilesInv(job[c])'
    BY <1>1, <1>5, <2>2, <2>5 DEF FilesInv, Closing
  <2> QED
    BY <1>1, <1>8, <2>6, <2>11, <2>12, <2>13, HolderOnly DEF JobInv, lockVars
<1> QED
    BY <1>9, <1>10

-----------------------------------------------------------------------------
(* The steps that write a ledger file.                                     *)

LEMMA NewerEntry ==
    ASSUME NEW a \in Checkpoint, NEW b \in Checkpoint, b /= Never => a.time <= b.time
    PROVE  Newer(a, b) = IF b = Never THEN a ELSE b
    BY DEF Newer, Checkpoint

LEMMA EmptyIsSound == ASSUME TypeOK PROVE SoundLedger(EmptyLedger)
<1>1. \A f \in Facts : 0 <= edits[f]
    BY BoundsAssumption DEF TypeOK
<1>2. 0 <= clock
    BY BoundsAssumption DEF TypeOK
<1> QED
    BY <1>1, <1>2 DEF SoundLedger, TrueLedger, EmptyLedger, Never, Sinks

\* A ledger file becomes the state k of the sync, or goes.
LEMMA FileStep ==
    ASSUME SyncInv, AtMostOne, NEW c \in Holders, NEW k \in Jobs, LocalsInv(k),
           job' = [job EXCEPT ![c] = k],
           UNCHANGED <<l1Vars, timeVars, sinkVars, intents, lk>>,
           primary' = primary \/ primary' = {k.state},
           pending' = pending \/ pending' = {k.state} \/ pending' = NoFile,
           PendingIsLater',
           \A e \in Facts \X Sinks : k.entries[e[1]] /= 0 => Merged'[e] = k.state[e],
           StepInv(job[c])', FilesInv(job[c])'
    PROVE  SyncInv'
<1> USE DEF l1Vars, sinkVars
<1>0. \A d : Matching(d)' <=> Matching(d)
    BY MatchingFrame
<1>1. job' \in [Clients -> Jobs] /\ job'[c] = k /\ k.state \in Ledger /\ k.entries \in [Facts -> 0..MaxVersion]
    BY DEF SyncInv, TypeOK, Holders, Jobs
<1>2. IsFile(primary') /\ IsFile(pending')
    BY <1>1 DEF SyncInv, TypeOK, IsFile
<1>3. TypeOK'
    BY <1>1, <1>2 DEF SyncInv, TypeOK, IsFile
<1>4. /\ Contents(primary)' \in {Contents(primary), k.state}
      /\ Contents(pending)' \in {Contents(pending), k.state, EmptyLedger}
  <2>1. Contents(primary)' = Contents(primary') /\ Contents(pending)' = Contents(pending')
    BY DEF Contents
  <2> QED
    BY <2>1, ContentsFacts
<1>5. SoundLedger(Contents(primary)) /\ SoundLedger(Contents(pending)) /\ SoundLedger(k.state) /\ SoundLedger(EmptyLedger)
    BY EmptyIsSound DEF SyncInv, WorldInv, LocalsInv
<1>6. SoundLedger(Contents(primary))' /\ SoundLedger(Contents(pending))'
    BY <1>0, <1>4, <1>5 DEF SoundLedger, TrueLedger
<1>7. \A d : Sent(d)' <=> Sent(d)
    BY DEF Sent
<1>8. ASSUME NEW d \in Deeds, d[2] = content[d[1]] PROVE Covered(d, Merged)'
  <2>1. d[1] \in Facts /\ d[2] # 0 /\ <<d[1], "l3">> \in Facts \X Sinks
    BY DEF Deeds, Sinks
  <2>2. CASE d[2] = k.entries[d[1]]
    BY <1>7, <2>1, <2>2 DEF LocalsInv, Covered
  <2>3. CASE d[2] # k.entries[d[1]]
    BY <1>7, <1>8, <2>3 DEF LocalsInv, Covered
  <2> QED
    BY <2>2, <2>3
<1>9. WorldInv'
    BY <1>6, <1>7, <1>8 DEF SyncInv, WorldInv
<1>10. LocalsInv(job[c])'
  <2>1. c \in Clients
    BY DEF Holders
  <2> QED
    BY <1>1, <2>1, LocalsFrame
<1> QED
    BY <1>3, <1>9, <1>10, HolderOnly DEF JobInv

\* What a file step of c does to an entry c found a fact for.
Forward(c) == \A e \in Facts \X Sinks : job[c].entries[e[1]] /= 0 => Merged[e].version <= Merged'[e].version

\* The entries of a sync's state, before it replaces the pending file.
LEMMA StateEntry ==
    ASSUME SyncInv, NEW j \in Jobs, FilesInv(j), j.step \notin Closing, NEW e \in Facts \X Sinks
    PROVE  /\ j.state[e] \in Checkpoint /\ Contents(primary)[e] \in Checkpoint
           /\ j.state[e] /= Never => Contents(primary)[e].time <= j.state[e].time
           /\ j.state[e] = Never => Contents(primary)[e] = Never
<1>1. Contents(primary)[e] \in Checkpoint /\ j.state[e] \in Checkpoint
    BY LedgerTypes DEF SyncInv, Ledger, Jobs
<1>2. j.state[e] = IF Contents(pending)[e] = Never THEN Contents(primary)[e] ELSE Contents(pending)[e]
    BY MergedEntry DEF SyncInv, WorldInv, FilesInv
<1>3. Contents(pending)[e] /= Never => Contents(primary)[e].time <= Contents(pending)[e].time
    BY DEF SyncInv, WorldInv, PendingIsLater
<1> QED
    BY <1>1, <1>2, <1>3 DEF Checkpoint

\* A sink took the deed the sync is at: the checkpoint goes to the pending file.
LEMMA AcceptKeeps ==
    ASSUME SyncInv, AtMostOne, NEW c \in Holders, NEW sink \in Sinks, NEW k \in Jobs,
           LocalsInv(job[c]), FilesInv(job[c]), job[c].step \notin Closing, k.step \notin Closing,
           job[c].fact \in Facts, Deed(c) \in Deeds,
           sink = "l2" => Matching(Deed(c)), sink = "l3" => taken[Deed(c)] > 0,
           k.time = job[c].time, k.entries = job[c].entries, k.saved, k.dirty,
           k.state = [job[c].state EXCEPT ![<<job[c].fact, sink>>] =
                        [version |-> job[c].entries[job[c].fact], time |-> job[c].time]],
           k.complete = job[c].complete \/ (sink = "l3" /\ k.complete = job[c].complete \cup {Deed(c)}),
           job' = [job EXCEPT ![c] = k], pending' = {k.state},
           UNCHANGED <<l1Vars, timeVars, sinkVars, intents, primary, lk>>, StepInv(job[c])'
    PROVE  SyncInv' /\ Forward(c)
<1> DEFINE new == <<job[c].fact, sink>>
           v == job[c].entries[job[c].fact]
<1>1. c \in Clients /\ job[c] \in Jobs /\ job[c].state \in Ledger /\ new \in Facts \X Sinks
    BY JobTypes DEF Holders
<1>2. v \in 1..MaxVersion /\ Deed(c) = <<job[c].fact, v>> /\ Deed(c)[1] = job[c].fact /\ Deed(c)[2] = v
    BY DEF Deed, Fact, Deeds
<1>3. \A e \in Facts \X Sinks : k.state[e] = IF e = new THEN [version |-> v, time |-> clock] ELSE job[c].state[e]
    BY <1>1 DEF Ledger, LocalsInv
<1>4. k.state[new] # Never /\ k.state[new].version = v /\ k.state[new].time = clock
    BY <1>1, <1>2, <1>3 DEF Never
<1> HIDE DEF new, v
<1>5. SoundLedger(k.state)
  <2>1. SoundLedger(job[c].state)
    BY DEF LocalsInv
  <2>2. TrueLedger(k.state)
    <3> SUFFICES ASSUME NEW f \in Facts
                 PROVE  /\ k.state[<<f, "l2">>].version /= 0 => Matching(<<f, k.state[<<f, "l2">>].version>>)
                        /\ k.state[<<f, "l3">>].version /= 0 => taken[<<f, k.state[<<f, "l3">>].version>>] > 0
      BY DEF TrueLedger
    <3>1. <<f, "l2">> \in Facts \X Sinks /\ <<f, "l3">> \in Facts \X Sinks
      BY DEF Sinks
    <3>2. \A s \in Sinks : <<f, s>> = new => <<f, v>> = Deed(c) /\ s = sink
      BY <1>2 DEF new
    <3>3. \A s \in Sinks : k.state[<<f, s>>].version = IF <<f, s>> = new THEN v ELSE job[c].state[<<f, s>>].version
      BY <1>3, <1>4
    <3>4. "l2" \in Sinks /\ "l3" \in Sinks
      BY DEF Sinks
    <3>5. k.state[<<f, "l2">>].version /= 0 => Matching(<<f, k.state[<<f, "l2">>].version>>)
      BY <2>1, <3>2, <3>3, <3>4 DEF SoundLedger, TrueLedger
    <3>6. k.state[<<f, "l3">>].version /= 0 => taken[<<f, k.state[<<f, "l3">>].version>>] > 0
      BY <2>1, <3>2, <3>3, <3>4 DEF SoundLedger, TrueLedger
    <3> QED
      BY <3>5, <3>6
  <2>3. v <= edits[job[c].fact]
    BY DEF LocalsInv, v
  <2>4. clock <= clock
    BY DEF SyncInv, TypeOK
  <2>5. new[1] = job[c].fact
    BY DEF new
  <2>6. \A e \in Facts \X Sinks : k.state[e].version <= edits[e[1]] /\ k.state[e].time <= clock
    BY <1>3, <1>4, <2>1, <2>3, <2>4, <2>5 DEF SoundLedger
  <2> QED
    BY <2>2, <2>6 DEF SoundLedger
<1>6. \A d \in Deeds : d[2] = job[c].entries[d[1]] =>
         \/ k.state[<<d[1], "l3">>].version = d[2]
         \/ k.state[<<d[1], "l3">>] = job[c].state[<<d[1], "l3">>]
  <2> SUFFICES ASSUME NEW d \in Deeds, d[2] = job[c].entries[d[1]]
               PROVE  \/ k.state[<<d[1], "l3">>].version = d[2]
                      \/ k.state[<<d[1], "l3">>] = job[c].state[<<d[1], "l3">>]
    OBVIOUS
  <2>1. <<d[1], "l3">> \in Facts \X Sinks
    BY DEF Deeds, Sinks
  <2>2. <<d[1], "l3">> = new => d[2] = v
    BY DEF new, v
  <2> QED
    BY <1>3, <1>4, <2>1, <2>2
<1>7. LocalsInv(k)
  <2>1. \A e \in Facts \X Sinks : k.entries[e[1]] /= 0 => k.state[e].version <= k.entries[e[1]]
    <3>1. new[1] = job[c].fact /\ v = job[c].entries[job[c].fact] /\ v <= v
      BY <1>2 DEF new, v
    <3> QED
      BY <1>3, <1>4, <3>1 DEF LocalsInv
  <2>2. \A d \in Deeds : d[2] = k.entries[d[1]] => Covered(d, k.state)
    BY <1>6 DEF LocalsInv, Covered
  <2>3. \A d \in k.complete : d[2] = k.entries[d[1]] /\ k.state[<<d[1], "l3">>].version = d[2]
    <3>1. ASSUME NEW d \in job[c].complete PROVE d[2] = k.entries[d[1]] /\ k.state[<<d[1], "l3">>].version = d[2]
      <4>1. d \in Deeds
        BY <1>1 DEF Jobs
      <4> QED
        BY <1>6, <4>1 DEF LocalsInv
    <3>2. sink = "l3" => /\ Deed(c)[2] = k.entries[Deed(c)[1]]
                         /\ k.state[<<Deed(c)[1], "l3">>].version = Deed(c)[2]
      BY <1>2, <1>4 DEF new, v
    <3> QED
      BY <3>1, <3>2
  <2> QED
    BY <1>5, <2>1, <2>2, <2>3 DEF LocalsInv
<1>8. ASSUME NEW e \in Facts \X Sinks
      PROVE  /\ k.state[e] \in Checkpoint /\ Contents(primary)[e] \in Checkpoint
             /\ k.state[e] /= Never => Contents(primary)[e].time <= k.state[e].time
             /\ k.state[e] = Never => Contents(primary)[e] = Never
  <2>1. CASE e # new
    BY <1>1, <1>3, <2>1, StateEntry
  <2>2. CASE e = new
    <3>1. k.state[e] \in Checkpoint
      BY DEF Jobs, Ledger
    <3>2. Contents(primary)[e].time <= clock
      BY DEF SyncInv, WorldInv, SoundLedger
    <3> QED
      BY <1>1, <1>4, <2>2, <3>1, <3>2, StateEntry
  <2> QED
    BY <2>1, <2>2
<1>9. Contents(pending)' = k.state /\ Contents(primary)' = Contents(primary)
  <2>1. Contents(pending)' = Contents(pending') /\ Contents(primary)' = Contents(primary')
    BY DEF Contents
  <2> QED
    BY <2>1, ContentsFacts
<1>10. PendingIsLater'
    BY <1>8, <1>9 DEF PendingIsLater
<1>11. \A e \in Facts \X Sinks : Merged'[e] = k.state[e]
  <2>1. \A e \in Facts \X Sinks : Newer(Contents(primary)[e], k.state[e]) = k.state[e]
    BY <1>8, NewerEntry
  <2> QED
    BY <1>9, <2>1 DEF Merged
<1>12. job'[c] = k
    BY <1>1 DEF SyncInv, TypeOK
<1>13. FilesInv(job[c])'
    BY <1>11, <1>12 DEF FilesInv, Closing
<1>14. Forward(c)
  <2> SUFFICES ASSUME NEW e \in Facts \X Sinks, job[c].entries[e[1]] /= 0
               PROVE  Merged[e].version <= Merged'[e].version
    BY DEF Forward
  <2>1. job[c].state[e] = Merged[e] /\ Merged[e].version \in Nat
    BY LedgerTypes DEF FilesInv, SyncInv, Ledger, Checkpoint
  <2>2. e = new => e[1] = job[c].fact
    BY DEF new
  <2>3. e = new => Merged[e].version <= v
    BY <2>1, <2>2 DEF LocalsInv, v
  <2> QED
    BY <1>3, <1>4, <1>11, <2>1, <2>3
<1> QED
    BY <1>7, <1>10, <1>11, <1>13, <1>14, FileStep

\* The locals Accepted() makes of a job.
LEMMA AcceptedJob ==
    ASSUME SyncInv, NEW c \in Holders, NEW sink \in Sinks, job[c].fact \in Facts, LocalsInv(job[c])
    PROVE  LET a == Accepted(job[c], sink)
           IN /\ a \in Jobs /\ a.step = job[c].step /\ a.fact = job[c].fact
              /\ a.time = job[c].time /\ a.entries = job[c].entries /\ a.saved /\ a.dirty
              /\ a.complete = job[c].complete
              /\ a.state = [job[c].state EXCEPT ![<<job[c].fact, sink>>] =
                               [version |-> job[c].entries[job[c].fact], time |-> job[c].time]]
<1> DEFINE j == job[c]
           state == [j.state EXCEPT ![<<j.fact, sink>>] = [version |-> j.entries[j.fact], time |-> j.time]]
<1>1. j \in Jobs /\ j.state \in Ledger /\ j.entries[j.fact] \in 0..MaxVersion /\ j.time \in 0..MaxTime
    BY JobTypes DEF Holders
<1> HIDE DEF j
<1>2. [version |-> j.entries[j.fact], time |-> j.time] \in Checkpoint
    BY <1>1 DEF Checkpoint
<1>3. state \in Ledger
    BY <1>1, <1>2 DEF Ledger
<1>4. Accepted(j, sink) = [[[j EXCEPT !.state = state] EXCEPT !.dirty = TRUE] EXCEPT !.saved = TRUE]
    BY <1>1 DEF Accepted, Jobs
<1> HIDE DEF state
<1>5. LET a == Accepted(j, sink)
      IN /\ a \in Jobs /\ a.step = j.step /\ a.fact = j.fact
         /\ a.time = j.time /\ a.entries = j.entries /\ a.saved /\ a.dirty
         /\ a.complete = j.complete /\ a.state = state
    BY <1>1, <1>3, <1>4 DEF Jobs
<1> QED
    BY <1>5 DEF state, j

LEMMA SaveL2Keeps == ASSUME SyncInv, AtMostOne, NEW c \in Clients, SaveL2(c) PROVE SyncInv' /\ Forward(c)
<1> USE DEF Outside, Closing, Steps, DeedSteps
<1> DEFINE a == Accepted(job[c], "l2")
           k == [a EXCEPT !.step = "l3"]
<1>1. /\ c \in Holders /\ job[c].step = "l2save" /\ Deed(c) \in Deeds /\ job[c].fact \in Facts
      /\ LocalsInv(job[c]) /\ FilesInv(job[c]) /\ job[c] \in Jobs
      /\ Matching(Deed(c))
      /\ UNCHANGED <<l1Vars, timeVars, sinkVars, intents, primary, lk>>
    BY AtLoop, JobTypes DEF SaveL2, KeepSinks, AtStep, lockVars, StepInv, Deed, Fact
<1>2. /\ a \in Jobs /\ a.step = job[c].step /\ a.fact = job[c].fact
      /\ a.time = job[c].time /\ a.entries = job[c].entries /\ a.saved /\ a.dirty
      /\ a.complete = job[c].complete
      /\ a.state = [job[c].state EXCEPT ![<<job[c].fact, "l2">>] =
                       [version |-> job[c].entries[job[c].fact], time |-> job[c].time]]
    BY <1>1, AcceptedJob DEF Sinks
<1>3. job' = [job EXCEPT ![c] = k] /\ pending' = {a.state}
    BY DEF SaveL2, Job
<1> HIDE DEF a
<1>4. /\ k \in Jobs /\ k.step = "l3" /\ k.fact = a.fact /\ k.time = a.time /\ k.entries = a.entries
      /\ k.saved = a.saved /\ k.dirty = a.dirty /\ k.complete = a.complete /\ k.state = a.state
    BY <1>2 DEF Jobs
<1> HIDE DEF k
<1>5. job'[c] = k
    BY <1>1, <1>3 DEF SyncInv, TypeOK
<1>6. StepInv(job[c])'
    BY <1>1, <1>2, <1>4, <1>5 DEF StepInv, Deed, Fact
<1>7. /\ k \in Jobs /\ k.time = job[c].time /\ k.entries = job[c].entries
      /\ k.step \notin Closing /\ job[c].step \notin Closing
      /\ k.saved /\ k.dirty /\ k.complete = job[c].complete /\ pending' = {k.state}
      /\ k.state = [job[c].state EXCEPT ![<<job[c].fact, "l2">>] =
                       [version |-> job[c].entries[job[c].fact], time |-> job[c].time]]
    BY <1>1, <1>2, <1>3, <1>4
<1>8. "l2" \in Sinks
    BY DEF Sinks
<1> QED
    BY <1>1, <1>3, <1>6, <1>7, <1>8, AcceptKeeps

LEMMA SaveL3Keeps == ASSUME SyncInv, AtMostOne, NEW c \in Clients, SaveL3(c) PROVE SyncInv' /\ Forward(c)
<1> USE DEF Outside, Closing, Steps, DeedSteps
<1> DEFINE a == Accepted(job[c], "l3")
           j == [a EXCEPT !.complete = @ \cup {Deed(c)}]
<1>1. /\ c \in Holders /\ job[c].step = "l3save" /\ Deed(c) \in Deeds /\ job[c].fact \in Facts
      /\ LocalsInv(job[c]) /\ FilesInv(job[c]) /\ job[c] \in Jobs
      /\ taken[Deed(c)] > 0
      /\ UNCHANGED <<l1Vars, timeVars, sinkVars, intents, primary, lk>>
    BY AtLoop, JobTypes DEF SaveL3, KeepSinks, AtStep, lockVars, StepInv, Deed, Fact
<1>2. /\ a \in Jobs /\ a.step = job[c].step /\ a.fact = job[c].fact
      /\ a.time = job[c].time /\ a.entries = job[c].entries /\ a.saved /\ a.dirty
      /\ a.complete = job[c].complete
      /\ a.state = [job[c].state EXCEPT ![<<job[c].fact, "l3">>] =
                       [version |-> job[c].entries[job[c].fact], time |-> job[c].time]]
    BY <1>1, AcceptedJob DEF Sinks
<1>3. job' = NextFact(c, j) /\ pending' = {a.state}
    BY DEF SaveL3, Job
<1> HIDE DEF a
<1>4. /\ j.fact = a.fact /\ j.time = a.time /\ j.entries = a.entries
      /\ j.saved = a.saved /\ j.dirty = a.dirty /\ j.complete = a.complete \cup {Deed(c)} /\ j.state = a.state
    BY <1>2 DEF Jobs
<1>5. j \in Jobs
    BY <1>1, <1>2 DEF Jobs
<1> HIDE DEF j
<1>6. /\ Moved(j) \in Jobs /\ job' = [job EXCEPT ![c] = Moved(j)]
      /\ job'[c].time = j.time /\ job'[c].state = j.state /\ job'[c].entries = j.entries
      /\ job'[c].complete = j.complete /\ job'[c].saved = j.saved /\ job'[c].dirty = j.dirty
      /\ job'[c].step \notin Closing /\ StepInv(job[c])'
    BY <1>1, <1>2, <1>3, <1>4, <1>5, NextFactJob, ZenonT(60)
<1>7. job'[c] = Moved(j)
    BY <1>1, <1>6 DEF SyncInv, TypeOK
<1> DEFINE k == Moved(j)
<1>8. /\ k \in Jobs /\ k.time = a.time /\ k.entries = a.entries /\ k.step \notin Closing
      /\ k.saved /\ k.dirty /\ k.complete = job[c].complete \cup {Deed(c)} /\ k.state = a.state
      /\ job' = [job EXCEPT ![c] = k]
    BY <1>2, <1>4, <1>6, <1>7
<1> HIDE DEF k
<1>9. "l3" \in Sinks
    BY DEF Sinks
<1> QED
    BY <1>1, <1>2, <1>3, <1>6, <1>8, <1>9, AcceptKeeps, ZenonT(60)

LEMMA CloseKeeps == ASSUME SyncInv, AtMostOne, NEW c \in Clients, Close(c) PROVE SyncInv' /\ Forward(c)
<1> USE DEF Outside, Steps, DeedSteps
<1> DEFINE j == job[c]
           s == [e \in Facts \X Sinks |-> IF j.entries[e[1]] = 0 THEN Never ELSE j.state[e]]
           dirty == j.dirty \/ s /= j.state
           k == [j EXCEPT !.state = s, !.dirty = dirty, !.step = IF dirty THEN "publish" ELSE "unintend"]
<1>1. /\ c \in Holders /\ j.step = "close" /\ LocalsInv(j) /\ FilesInv(j) /\ j \in Jobs
      /\ j.state \in Ledger /\ j.entries \in [Facts -> 0..MaxVersion] /\ j.dirty \in BOOLEAN /\ j.saved \in BOOLEAN
      /\ UNCHANGED <<l1Vars, timeVars, sinkVars, intents, primary, lk>>
    BY AtLoop, JobTypes DEF Close, KeepSinks, AtStep, lockVars
<1>2. /\ pending' = IF dirty /\ j.saved THEN {s} ELSE pending
      /\ job' = [job EXCEPT ![c] = k]
    BY DEF Close, Job
<1>3. s \in Ledger
  <2>1. \A e \in Facts \X Sinks : j.state[e] \in Checkpoint
    BY <1>1 DEF Ledger
  <2> QED
    BY <2>1, NeverIsCheckpoint DEF Ledger
<1>4. dirty \in BOOLEAN /\ (~ dirty => s = j.state /\ ~ j.dirty) /\ (j.dirty => dirty)
    BY <1>1
<1>5. \A e \in Facts \X Sinks : s[e] = IF j.entries[e[1]] = 0 THEN Never ELSE j.state[e]
    OBVIOUS
<1> HIDE DEF j, s, dirty
<1>6. /\ k.state = s /\ k.dirty = dirty /\ k.step = IF dirty THEN "publish" ELSE "unintend"
      /\ k.entries = j.entries /\ k.time = j.time /\ k.complete = j.complete /\ k.saved = j.saved
    BY <1>1 DEF Jobs
<1>7. k \in Jobs
    BY <1>1, <1>3, <1>4 DEF Jobs
<1> HIDE DEF k
<1>8. job'[c] = k
    BY <1>1, <1>2 DEF SyncInv, TypeOK
<1>9. SoundLedger(s)
  <2>1. SoundLedger(j.state) /\ SoundLedger(EmptyLedger)
    BY <1>1, EmptyIsSound DEF LocalsInv, SyncInv
  <2>2. \A e \in Facts \X Sinks : s[e] = EmptyLedger[e] \/ s[e] = j.state[e]
    BY <1>5 DEF EmptyLedger
  <2>3. \A f \in Facts : <<f, "l2">> \in Facts \X Sinks /\ <<f, "l3">> \in Facts \X Sinks
    BY DEF Sinks
  <2>4. TrueLedger(s)
    BY <2>1, <2>2, <2>3 DEF SoundLedger, TrueLedger
  <2> QED
    BY <2>1, <2>2, <2>4 DEF SoundLedger
<1>10. LocalsInv(k)
  <2>1. \A e \in Facts \X Sinks : k.entries[e[1]] /= 0 => k.state[e].version <= k.entries[e[1]]
    BY <1>1, <1>5, <1>6 DEF LocalsInv
  <2>2. \A d \in Deeds : d[2] = j.entries[d[1]] => s[<<d[1], "l3">>] = j.state[<<d[1], "l3">>]
    <3>1. \A d \in Deeds : <<d[1], "l3">> \in Facts \X Sinks /\ d[2] # 0
      BY DEF Deeds, Sinks
    <3> QED
      BY <1>5, <3>1
  <2>3. \A d \in Deeds : d[2] = k.entries[d[1]] => Covered(d, k.state)
    BY <1>1, <1>6, <2>2 DEF LocalsInv, Covered
  <2>4. \A d \in k.complete : d[2] = k.entries[d[1]] /\ k.state[<<d[1], "l3">>].version = d[2]
    <3>1. /\ j.complete \subseteq Deeds
          /\ \A d \in j.complete : d[2] = j.entries[d[1]] /\ j.state[<<d[1], "l3">>].version = d[2]
      BY <1>1 DEF LocalsInv, Jobs
    <3> QED
      BY <1>6, <2>2, <3>1
  <2> QED
    BY <1>1, <1>4, <1>6, <1>9, <2>1, <2>3, <2>4 DEF LocalsInv
<1>11. StepInv(job[c])'
    BY <1>6, <1>8 DEF StepInv
<1>12. Contents(primary)' = Contents(primary) /\ Contents(pending)' = IF dirty /\ j.saved THEN s ELSE Contents(pending)
  <2>1. Contents(pending)' = Contents(pending') /\ Contents(primary)' = Contents(primary')
    BY DEF Contents
  <2> QED
    BY <1>1, <1>2, <2>1, ContentsFacts
<1>13. ASSUME NEW e \in Facts \X Sinks
       PROVE  /\ s[e] \in Checkpoint /\ Contents(primary)[e] \in Checkpoint
              /\ s[e] /= Never => Contents(primary)[e].time <= s[e].time
              /\ s[e] = Never => j.entries[e[1]] = 0 \/ Contents(primary)[e] = Never
  <2>1. "close" \notin Closing
    BY DEF Closing
  <2>2. s[e] \in Checkpoint
    BY <1>3 DEF Ledger
  <2> QED
    BY <1>1, <1>5, <2>1, <2>2, StateEntry
<1>14. PendingIsLater'
    BY <1>12, <1>13 DEF PendingIsLater, SyncInv, WorldInv
<1>15. \A e \in Facts \X Sinks : j.entries[e[1]] # 0 => Merged'[e] = s[e]
  <2> SUFFICES ASSUME NEW e \in Facts \X Sinks, j.entries[e[1]] # 0 PROVE Merged'[e] = s[e]
    OBVIOUS
  <2>1. Merged'[e] = Newer(Contents(primary)[e], Contents(pending)'[e])
    BY <1>12 DEF Merged
  <2>2. CASE dirty /\ j.saved
    BY <1>12, <1>13, <2>1, <2>2, NewerEntry
  <2>3. CASE ~ (dirty /\ j.saved)
    <3>1. Merged[e] = Newer(Contents(primary)[e], Contents(pending)[e])
      BY DEF Merged
    <3>2. j.state[e] = Merged[e]
      BY <1>1 DEF FilesInv, Closing
    <3> QED
      BY <1>5, <1>12, <2>1, <2>3, <3>1, <3>2
  <2> QED
    BY <2>2, <2>3
<1>16. FilesInv(job[c])'
  <2>1. CASE dirty
    <3>1. k.step = "publish"
      BY <1>6, <2>1
    <3>2. pending' = IF k.saved THEN {k.state} ELSE NoFile
      BY <1>1, <1>2, <1>6, <2>1 DEF FilesInv, Closing
    <3> QED
      BY <1>5, <1>6, <1>8, <1>15, <3>1, <3>2 DEF FilesInv, Closing
  <2>2. CASE ~ dirty
    <3>1. k.step = "unintend" /\ ~ j.saved /\ s = j.state
      BY <1>1, <1>4, <1>6, <2>2 DEF LocalsInv
    <3>2. Merged' = Merged
      BY <1>1, <1>2, <2>2, MergedFrame
    <3>3. \A e \in Facts \X Sinks : s[e] = Merged'[e]
      BY <1>1, <3>1, <3>2 DEF FilesInv, Closing
    <3> QED
      BY <1>5, <1>6, <1>8, <3>1, <3>3 DEF FilesInv, Closing
  <2> QED
    BY <2>1, <2>2
<1>17. /\ pending' = pending \/ pending' = {k.state}
       /\ \A e \in Facts \X Sinks : k.entries[e[1]] /= 0 => Merged'[e] = k.state[e]
    BY <1>2, <1>6, <1>15
<1>18. Forward(c)
  <2>1. \A e \in Facts \X Sinks : j.state[e] = Merged[e] /\ Merged[e].version \in Nat
    BY <1>1, LedgerTypes DEF FilesInv, Closing, SyncInv, Ledger, Checkpoint
  <2> QED
    BY <1>5, <1>15, <2>1 DEF Forward, j
<1> QED
    BY <1>1, <1>2, <1>7, <1>10, <1>11, <1>14, <1>16, <1>17, <1>18, FileStep

LEMMA PublishKeeps == ASSUME SyncInv, AtMostOne, NEW c \in Clients, Publish(c) \/ Unpend(c) PROVE SyncInv' /\ Forward(c)
<1> USE DEF Outside, Steps, DeedSteps, Closing
<1> DEFINE j == job[c]
<1>1. /\ c \in Holders /\ j.step \in {"publish", "unpend"} /\ LocalsInv(j) /\ FilesInv(j) /\ j \in Jobs
      /\ j.state \in Ledger /\ j.saved \in BOOLEAN
      /\ UNCHANGED <<l1Vars, timeVars, sinkVars, intents, lk>>
    BY AtLoop, JobTypes DEF Publish, Unpend, KeepSinks, AtStep, lockVars
<1>2. PICK s \in {"unpend", "unintend"} : Goto(c, s) /\ (s = "unpend" => Publish(c) /\ j.saved)
    BY DEF Publish, Unpend, Job
<1> DEFINE k == [j EXCEPT !.step = s]
<1>3. k \in Jobs /\ SameLocals(k, j) /\ k.step = s /\ job' = [job EXCEPT ![c] = k]
  <2>1. s \in Steps
    OBVIOUS
  <2>2. k \in Jobs /\ SameLocals(k, j) /\ k.step = s
    BY <2>1, GotoJob
  <2> QED
    BY <1>2, <2>2 DEF Goto
<1> HIDE DEF k, j
<1>4. job'[c] = k
    BY <1>1, <1>3 DEF SyncInv, TypeOK
<1>5. /\ primary' = {j.state}
      /\ pending' = {j.state} \/ pending' = NoFile
      /\ s = "unpend" => pending' = {j.state}
      /\ primary' = primary \/ primary' = {j.state}
      /\ pending' = pending \/ pending' = NoFile
  <2>1. CASE Publish(c)
    <3>1. j.step = "publish" /\ primary' = {j.state} /\ pending' = pending
      BY <2>1 DEF Publish, AtStep, Job, j
    <3> QED
      BY <1>1, <1>2, <3>1 DEF FilesInv
  <2>2. CASE Unpend(c)
    <3>1. j.step = "unpend" /\ primary' = primary /\ pending' = NoFile
      BY <2>2 DEF Unpend, AtStep, j
    <3>2. ~ Publish(c)
      BY <3>1 DEF Publish, AtStep, j
    <3> QED
      BY <1>1, <1>2, <3>1, <3>2 DEF FilesInv
  <2> QED
    BY <2>1, <2>2
<1>6. Contents(primary)' = j.state /\ Contents(pending)' \in {j.state, EmptyLedger}
  <2>1. Contents(pending)' = Contents(pending') /\ Contents(primary)' = Contents(primary')
    BY DEF Contents
  <2> QED
    BY <1>5, <2>1, ContentsFacts
<1>7. \A e \in Facts \X Sinks : j.state[e] \in Checkpoint /\ EmptyLedger[e] = Never
    BY <1>1 DEF Ledger, EmptyLedger
<1>8. PendingIsLater'
    BY <1>6, <1>7 DEF PendingIsLater, Checkpoint
<1>9. \A e \in Facts \X Sinks : Merged'[e] = j.state[e]
    BY <1>6, <1>7 DEF Merged, Newer, Checkpoint
<1>10. \A e \in Facts \X Sinks : j.entries[e[1]] = 0 => j.state[e] = Never
    BY <1>1 DEF FilesInv
<1>11. FilesInv(job[c])'
    BY <1>3, <1>4, <1>5, <1>9, <1>10 DEF FilesInv, SameLocals
<1>12. StepInv(job[c])'
    BY <1>3, <1>4 DEF StepInv
<1>13. LocalsInv(k)
    BY <1>1, <1>3 DEF LocalsInv, SameLocals
<1>14. /\ primary' = primary \/ primary' = {k.state}
       /\ pending' = pending \/ pending' = {k.state} \/ pending' = NoFile
       /\ \A e \in Facts \X Sinks : k.entries[e[1]] /= 0 => Merged'[e] = k.state[e]
    BY <1>3, <1>5, <1>9 DEF SameLocals
<1>15. Forward(c)
  <2>1. \A e \in Facts \X Sinks : Merged[e].version \in Nat
    BY LedgerTypes DEF SyncInv, Ledger, Checkpoint
  <2>2. \A e \in Facts \X Sinks : j.entries[e[1]] /= 0 => j.state[e] = Merged[e]
    BY <1>1 DEF FilesInv
  <2> QED
    BY <1>9, <2>1, <2>2 DEF Forward, j
<1> QED
    BY <1>1, <1>3, <1>8, <1>11, <1>12, <1>13, <1>14, <1>15, FileStep

\* A complete intent goes only when the primary has its checkpoint.
LEMMA UnintendKeeps == ASSUME SyncInv, AtMostOne, NEW c \in Clients, Unintend(c) PROVE SyncInv'
<1> USE DEF Outside, Steps, DeedSteps, Closing, l1Vars, sinkVars
<1> DEFINE j == job[c]
<1>1. /\ c \in Holders /\ c \in Clients /\ j.step = "unintend" /\ LocalsInv(j) /\ FilesInv(j) /\ j \in Jobs
      /\ j.complete \in SUBSET Deeds
      /\ UNCHANGED <<l1Vars, timeVars, sinkVars, primary, pending, lk>>
    BY AtLoop, JobTypes DEF Unintend, KeepSinks, AtStep, lockVars
<1>2. CASE Abandon(c) /\ UNCHANGED intents
  <2>1. SameWorld
    BY <1>1, <1>2 DEF SameWorld, World, diskVars, SyncInv, TypeOK
  <2> QED
    BY <1>1, <1>2, <2>1, GoLeave
<1>3. ASSUME NEW d \in Deeds, d \in j.complete,
             intents' = [intents EXCEPT ![d] = "none"],
             job' = [job EXCEPT ![c].complete = @ \ {d}]
      PROVE  SyncInv'
  <2> DEFINE k == [j EXCEPT !.complete = @ \ {d}]
  <2>1. k.time = j.time /\ k.state = j.state /\ k.entries = j.entries /\ k.saved = j.saved /\ k.dirty = j.dirty
        /\ k.step = j.step /\ k.fact = j.fact /\ k.complete = j.complete \ {d}
    BY <1>1 DEF Jobs
  <2>2. k \in Jobs
    BY <1>1 DEF Jobs
  <2>3. job' = [job EXCEPT ![c] = k]
    BY <1>3
  <2> HIDE DEF k
  <2>4. job' \in [Clients -> Jobs] /\ job'[c] = k
    BY <1>1, <2>2, <2>3 DEF SyncInv, TypeOK
  <2>5. /\ intents' \in [Deeds -> {"none", "partial", "whole"}]
        /\ \A x \in Deeds : x # d => intents'[x] = intents[x]
    BY <1>3 DEF SyncInv, TypeOK
  <2>6. TypeOK'
    BY <1>1, <2>4, <2>5 DEF SyncInv, TypeOK
  <2>7. \A x : Sent(x)' <=> Sent(x)
    BY <1>1 DEF Sent
  <2>8. Merged' = Merged /\ PendingIsLater'
    BY <1>1, MergedFrame DEF SyncInv, WorldInv
  <2>9. j.state[<<d[1], "l3">>].version = d[2] /\ Merged[<<d[1], "l3">>].version = d[2]
    <3>1. <<d[1], "l3">> \in Facts \X Sinks
      BY DEF Deeds, Sinks
    <3> QED
      BY <1>1, <1>3, <3>1 DEF LocalsInv, FilesInv
  <2>10. WorldInv'
    <3>1. SoundLedger(Contents(primary))' /\ SoundLedger(Contents(pending))'
      BY <1>1, MatchingFrame, ZenonT(60) DEF SyncInv, WorldInv, SoundLedger, TrueLedger, Contents
    <3>2. \A x \in Deeds : x[2] = content[x[1]] => Covered(x, Merged)'
      BY <2>5, <2>7, <2>8, <2>9 DEF SyncInv, WorldInv, Covered
    <3> QED
      BY <1>1, <2>7, <2>8, <3>1, <3>2 DEF SyncInv, WorldInv
  <2>11. LocalsInv(job[c])'
    <3>1. job'[c].state = j.state /\ clock <= clock' /\ \A f \in Facts : edits[f] <= edits'[f]
      BY <1>1, <2>1, <2>4 DEF SyncInv, TypeOK
    <3>2. \A x \in Deeds : x[2] = j.entries[x[1]] => (Sent(x) => intents'[x] = "whole" \/ j.state[<<x[1], "l3">>].version = x[2])
      BY <1>1, <2>5, <2>9 DEF LocalsInv, Covered
    <3>3. SinksGrow
      BY <1>1, SinksOnlyGrow
    <3>4. SoundLedger(job[c].state)'
      BY <1>1, <2>6, <3>1, <3>3, FilesStaySound
    <3> QED
      BY <1>1, <2>1, <2>4, <2>7, <3>2, <3>4 DEF LocalsInv, Covered
  <2>12. FilesInv(job[c])'
    BY <1>1, <2>1, <2>4, <2>8 DEF FilesInv
  <2>13. StepInv(job[c])'
    BY <1>1, <2>1, <2>4 DEF StepInv
  <2> QED
    BY <1>1, <2>6, <2>10, <2>11, <2>12, <2>13, HolderOnly DEF JobInv
<1>4. CASE \E d \in Job(c).complete : /\ intents' = [intents EXCEPT ![d] = "none"]
                                      /\ job' = [job EXCEPT ![c].complete = @ \ {d}]
    BY <1>1, <1>3, <1>4 DEF Job
<1> QED
    BY <1>2, <1>4 DEF Unintend

-----------------------------------------------------------------------------
(* The invariant and what follows from it.                                 *)

LEMMA SyncInvHolds == Init => SyncInv
<1> SUFFICES ASSUME Init PROVE SyncInv
    OBVIOUS
<1> USE DEF Init
<1>1. Holders = {}
    BY DEF LockInit, Holders
<1>2. Contents(primary) = EmptyLedger /\ Contents(pending) = EmptyLedger
    BY ContentsFacts
<1>3. TypeOK
  <2>1. edits \in [Facts -> 0..MaxVersion]
    BY BoundsAssumption
  <2>2. [d \in Deeds |-> 0] \in [Deeds -> Nat]
    OBVIOUS
  <2>3. job \in [Clients -> Jobs]
    BY NoJobType
  <2>4. says \in [Deeds -> 1..MaxVersion]
    OBVIOUS
  <2>5. clock \in 0..MaxTime
    BY BoundsAssumption
  <2>6. setback \in BOOLEAN
    BY Zenon
  <2> QED
    BY <2>1, <2>2, <2>3, <2>4, <2>5, <2>6 DEF TypeOK, IsFile
<1>4. SoundLedger(EmptyLedger)
    BY <1>3, EmptyIsSound
<1>5. PendingIsLater
    BY <1>2 DEF PendingIsLater, EmptyLedger
<1>6. \A d \in Deeds : taken[d] = 0 /\ ~ Sent(d)
    BY DEF Sent
<1>7. WorldInv
    BY <1>2, <1>4, <1>5, <1>6 DEF WorldInv, Covered
<1> QED
    BY <1>1, <1>3, <1>7 DEF SyncInv

LEMMA SyncInvInductive == SyncInv /\ LockInv /\ [Next]_vars /\ ~ setback' => SyncInv'
<1> SUFFICES ASSUME SyncInv, LockInv, [Next]_vars, ~ setback' PROVE SyncInv'
    OBVIOUS
<1>1. AtMostOne
    BY OneHolder
<1>2. ASSUME NEW c \in Clients, SyncStep(c) PROVE SyncInv'
    BY <1>1, <1>2, LoadKeeps, BeginL2Keeps, ListL2Keeps, WriteL2Keeps, SaveL2Keeps, BeginL3Keeps,
       WriteIntentKeeps, SendKeeps, AnswerKeeps, RejectedKeeps, RecallKeeps, SaveL3Keeps, CloseKeeps,
       PublishKeeps, UnintendKeeps, DiskFailsKeeps, LeaveKeeps DEF SyncStep
<1>3. ASSUME NEW c \in Clients, Take(c) \/ Crash(c) PROVE SyncInv'
    BY <1>3, TakeKeeps, LeaveKeeps
<1>4. CASE UNCHANGED vars
  <2>1. UNCHANGED <<World, inserts>> /\ UNCHANGED <<lockVars, job>>
    BY <1>4 DEF vars, World, sinkVars
  <2>2. TypeOK'
    BY <2>1 DEF SyncInv, TypeOK, World, l1Vars, diskVars
  <2>3. WorldInv'
    BY <2>1, WorldFrame DEF SyncInv
  <2>4. ASSUME NEW c \in Holders' PROVE JobInv(c)'
    <3>1. c \in Holders /\ c \in Clients
      BY <2>1 DEF Holders, lockVars
    <3>2. LocalsInv(job[c]) => LocalsInv(job[c])'
      BY <2>1, <3>1, LocalsFrame DEF World, diskVars
    <3>3. StepInv(job[c]) => StepInv(job[c])'
      BY <2>1, MatchingFrame DEF World, l1Vars, diskVars, StepInv, Sent
    <3>4. FilesInv(job[c]) => FilesInv(job[c])'
      BY <2>1 DEF World, diskVars, FilesInv, Merged, Contents
    <3> QED
      BY <2>1, <3>1, <3>2, <3>3, <3>4 DEF SyncInv, JobInv
  <2> QED
    BY <2>2, <2>3, <2>4 DEF SyncInv
<1> QED
    BY <1>2, <1>3, <1>4, EditKeeps, InsertKeeps, DeliverKeeps DEF Next

\* What has been disturbed stays so.
LEMMA DisturbedForGood == [Next]_vars /\ Undisturbed' => Undisturbed
<1> SUFFICES ASSUME [Next]_vars, Undisturbed' PROVE Undisturbed
    OBVIOUS
<1>1. ~ strayed
    BY StepIsLockStep, StrayedForGood DEF Undisturbed
<1>2. ASSUME NEW c \in Clients, Load(c) PROVE ~ setback
    BY <1>2, Zenon DEF Load, Undisturbed
<1>3. UNCHANGED timeVars => ~ setback
    BY Zenon DEF Undisturbed
<1>4. ASSUME NEW c \in Clients, Take(c) \/ (SyncStep(c) /\ ~ Load(c)) \/ Crash(c) PROVE UNCHANGED timeVars
    BY <1>4 DEF Take, Crash, SyncStep, KeepSinks, BeginL2, ListL2, WriteL2, SaveL2, BeginL3, WriteIntent,
       Send, Answer, Rejected, Recall, SaveL3, Close, Publish, Unpend, Unintend, DiskFails, Leave
<1>5. ASSUME NEW f \in Facts, Edit(f) PROVE UNCHANGED timeVars
    BY <1>5 DEF Edit
<1>6. ASSUME NEW d \in Deeds, Insert(d) \/ Deliver(d) PROVE UNCHANGED timeVars
    BY <1>6 DEF Insert, Deliver
<1>7. UNCHANGED vars => UNCHANGED timeVars
    BY DEF vars
<1>8. ~ setback
    BY <1>2, <1>3, <1>4, <1>5, <1>6, <1>7 DEF Next, SyncStep, Undisturbed
<1> QED
    BY <1>1, <1>8 DEF Undisturbed

LEMMA SyncInvCorrect == Spec => [](Undisturbed => SyncInv /\ LockInv)
<1>1. (Undisturbed => SyncInv) /\ (strayed \/ LockInv) /\ [Next]_vars => (Undisturbed => SyncInv)'
    BY SyncInvInductive, DisturbedForGood DEF Undisturbed
<1>2. (Undisturbed => SyncInv) /\ (strayed \/ LockInv) => (Undisturbed => SyncInv /\ LockInv)
    BY DEF Undisturbed
<1> QED
    BY <1>1, <1>2, SyncInvHolds, SyncLockInv, PTL DEF Spec

\* However often syncs die, answers are lost, requests arrive late and syncs are
\* retried, Honcho takes no version of a fact twice.
THEOREM HonchoTakesOnceCorrect == Spec => []HonchoTakesOnce
<1>1. (Undisturbed => SyncInv /\ LockInv) => HonchoTakesOnce
    BY DEF SyncInv, WorldInv, HonchoTakesOnce
<1> QED
    BY <1>1, SyncInvCorrect, PTL

\* A checkpoint on the disk names a version Honcho took, or that the operational
\* store took or has the words of.
THEOREM CheckpointsAreTrueCorrect == Spec => []CheckpointsAreTrue
<1>1. (Undisturbed => SyncInv /\ LockInv) => CheckpointsAreTrue
    BY DEF SyncInv, WorldInv, SoundLedger, TrueLedger, CheckpointsAreTrue
<1> QED
    BY <1>1, SyncInvCorrect, PTL

\* A request nobody has an answer to is covered by its intent file.
THEOREM IntentCoversCorrect == Spec => []IntentCovers
<1>1. ASSUME Undisturbed => SyncInv PROVE IntentCovers
  <2> SUFFICES ASSUME SyncInv, NEW d \in Deeds, d[2] = content[d[1]],
                      d \in net \/ (taken[d] > 0 /\ Merged[<<d[1], "l3">>].version < d[2])
               PROVE  intents[d] = "whole"
    BY <1>1 DEF IntentCovers
  <2>1. Covered(d, Merged) /\ Sent(d)
    BY <1>1 DEF SyncInv, WorldInv, Sent
  <2>2. d[1] \in Facts /\ d[2] \in 1..MaxVersion /\ d = <<d[1], d[2]>> /\ <<d[1], "l3">> \in Facts \X Sinks
    BY DEF Deeds, Sinks
  <2>3. CASE d \in net
    <3>1. taken[d] = 0
      BY <1>1, <2>3 DEF SyncInv, WorldInv
    <3>2. Merged[<<d[1], "l3">>].version = d[2] => taken[d] > 0
      <4>1. Merged[<<d[1], "l3">>] \in {Contents(primary)[<<d[1], "l3">>], Contents(pending)[<<d[1], "l3">>]}
        BY <2>2 DEF Merged, Newer
      <4>2. ASSUME NEW l, TrueLedger(l), l[<<d[1], "l3">>].version = d[2] PROVE taken[d] > 0
        <5> DEFINE f == d[1]
                   v == l[<<f, "l3">>].version
        <5>1. v # 0 => taken[<<f, v>>] > 0
          BY <2>2, <4>2 DEF TrueLedger
        <5>2. v = d[2] /\ d[2] # 0 /\ <<f, v>> = d
          BY <2>2, <4>2
        <5> QED
          BY <5>1, <5>2
      <4>3. TrueLedger(Contents(primary)) /\ TrueLedger(Contents(pending))
        BY <1>1 DEF SyncInv, WorldInv, SoundLedger
      <4> QED
        BY <4>1, <4>2, <4>3
    <3> QED
      BY <2>1, <3>1, <3>2 DEF Covered
  <2>4. CASE taken[d] > 0 /\ Merged[<<d[1], "l3">>].version < d[2]
    BY <2>1, <2>2, <2>4 DEF Covered
  <2> QED
    BY <2>3, <2>4
<1> QED
    BY <1>1, SyncInvCorrect, PTL

\* What a sync would load never goes back, but by a sync that found a fact gone.
THEOREM LedgerNeverRegressesCorrect == Spec => LedgerNeverRegresses
<1> DEFINE Step == \A e \in Facts \X Sinks :
                      \/ Merged'[e].version >= Merged[e].version
                      \/ \E c \in Holders : job[c].entries[e[1]] = 0
<1>1. ASSUME Undisturbed => SyncInv /\ LockInv, [Next]_vars PROVE [Undisturbed' => Step]_vars
  <2> SUFFICES ASSUME Undisturbed' PROVE [Step]_vars
    OBVIOUS
  <2> SyncInv /\ LockInv
    BY <1>1, DisturbedForGood
  <2>1. AtMostOne
    BY OneHolder
  <2>2. \A e \in Facts \X Sinks : Merged[e].version \in Nat
    BY <1>1, LedgerTypes DEF SyncInv, Ledger, Checkpoint
  <2>3. CASE UNCHANGED <<primary, pending>>
    <3>1. Merged' = Merged
      BY <2>3, MergedFrame
    <3> QED
      BY <2>2, <3>1
  <2>4. ASSUME NEW c \in Clients, SaveL2(c) \/ SaveL3(c) \/ Close(c) \/ Publish(c) \/ Unpend(c) PROVE Step
    <3>1. Forward(c)
      BY <1>1, <2>1, <2>4, SaveL2Keeps, SaveL3Keeps, CloseKeeps, PublishKeeps
    <3>2. c \in Holders
      BY <2>4 DEF SaveL2, SaveL3, Close, Publish, Unpend, AtStep, Holders
    <3>3. \A e \in Facts \X Sinks : Merged'[e].version \in Nat
      <4>1. TypeOK'
        BY <1>1, SyncInvInductive DEF SyncInv, Undisturbed
      <4>2. Contents(primary') \in Ledger /\ Contents(pending') \in Ledger
        BY <4>1, ContentsFacts, NeverIsCheckpoint DEF TypeOK, IsFile
      <4>3. Contents(primary)' = Contents(primary') /\ Contents(pending)' = Contents(pending')
        BY DEF Contents
      <4> QED
        BY <4>2, <4>3 DEF Merged, Newer, Ledger, Checkpoint
    <3>4. ASSUME NEW e \in Facts \X Sinks, job[c].entries[e[1]] # 0
          PROVE  Merged'[e].version >= Merged[e].version
      BY <2>2, <3>1, <3>3, <3>4 DEF Forward
    <3> QED
      BY <3>2, <3>4
  <2>5. ASSUME NEW c \in Clients,
               \/ Take(c) \/ Crash(c) \/ Load(c) \/ BeginL2(c) \/ ListL2(c) \/ WriteL2(c) \/ BeginL3(c)
               \/ WriteIntent(c) \/ Send(c) \/ Answer(c) \/ Rejected(c) \/ Recall(c) \/ Unintend(c)
               \/ DiskFails(c) \/ Leave(c)
        PROVE  UNCHANGED <<primary, pending>>
    BY <2>5 DEF Take, Crash, Load, BeginL2, ListL2, WriteL2, BeginL3, WriteIntent, Send, Answer, Rejected,
       Recall, Unintend, DiskFails, Leave, diskVars
  <2>6. ASSUME NEW f \in Facts, Edit(f) PROVE UNCHANGED <<primary, pending>>
    BY <2>6 DEF Edit, diskVars
  <2>7. ASSUME NEW d \in Deeds, Insert(d) \/ Deliver(d) PROVE UNCHANGED <<primary, pending>>
    BY <2>7 DEF Insert, Deliver, diskVars
  <2> QED
    BY <1>1, <2>3, <2>4, <2>5, <2>6, <2>7 DEF Next, SyncStep, vars
<1> QED
    BY <1>1, SyncInvCorrect, PTL DEF Spec, LedgerNeverRegresses
=============================================================================
