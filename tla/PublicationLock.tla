--------------------------- MODULE PublicationLock ---------------------------
(***************************************************************************)
(* The publication lock of src/src/memory/sync.ts: a file that is linked   *)
(* from a fully written owner file, so it never holds half an owner.  The  *)
(* file of an owner that died is never removed; its successor is taken at  *)
(* a path named after the dead owner's token.                              *)
(*                                                                         *)
(* A client is one process.  A token is drawn per attempt, but a process   *)
(* dies once and leaves one file, so a client stands for the token in it.  *)
(* Only a reader that strays asks for the successor of an older token: it  *)
(* looks for the file of that token in a place the model does not tell     *)
(* from this one, and every property ends there.  The 500 attempts of one  *)
(* request are any number.                                                 *)
(***************************************************************************)
EXTENDS FiniteSets

CONSTANTS
    Clients, \* the processes
    Base,    \* the lock file's own path
    NoOwner  \* no file at a path

ASSUME ClientsAssumption == IsFiniteSet(Clients)
ASSUME PathsAssumption == Base \notin Clients /\ NoOwner \notin Clients

Paths == Clients \cup {Base}

VARIABLES
    owner,  \* the owner a lock file names, or NoOwner for no file
    lk,     \* where a client is with the lock; "idle" is before an attempt, too
    at,     \* the path it looks at, will link, or holds
    seen,   \* the owner it read in the file there, or NoOwner before it read one
    stale,  \* history: whose read file its owner has released since
    strayed \* history: somebody went on from such a read to the owner's successor

lockVars == <<owner, lk, at, seen, stale, strayed>>

LockTypeOK ==
    /\ owner \in [Paths -> Clients \cup {NoOwner}]
    /\ lk \in [Clients -> {"idle", "walk", "link", "held", "dead"}]
    /\ at \in [Clients -> Paths]
    /\ seen \in [Clients -> Clients \cup {NoOwner}]
    /\ stale \subseteq Clients /\ strayed \in BOOLEAN

LockInit ==
    /\ owner = [p \in Paths |-> NoOwner]
    /\ lk = [c \in Clients |-> "idle"]
    /\ at = [c \in Clients |-> Base]
    /\ seen = [c \in Clients |-> NoOwner]
    /\ stale = {} /\ strayed = FALSE

\* publicationLockOwnerIsAlive(): the pid lives and started when it says.
IsAlive(c) == lk[c] /= "dead"

\* c looks at path p next, and has read nothing there yet.
LookAt(c, p) ==
    /\ at' = [at EXCEPT ![c] = p]
    /\ seen' = [seen EXCEPT ![c] = NoOwner]
    /\ stale' = stale \ {c}

\* An attempt failed: the next one begins at the base path, unless it was the
\* last one and the request times out.
TryAgain(c) ==
    /\ lk' = [lk EXCEPT ![c] = "idle"]
    /\ LookAt(c, Base)
    /\ UNCHANGED <<owner, strayed>>

\* acquirePublicationLock() is called, or goes on: availablePublicationLockPath()
\* reads one path.  No file: take this one.
FindFree(c) ==
    /\ lk[c] \in {"idle", "walk"} /\ seen[c] = NoOwner /\ owner[at[c]] = NoOwner
    /\ lk' = [lk EXCEPT ![c] = "link"]
    /\ UNCHANGED <<owner, at, seen, stale, strayed>>

\* A file: its bytes are read ...
Read(c) ==
    /\ lk[c] \in {"idle", "walk"} /\ seen[c] = NoOwner /\ owner[at[c]] /= NoOwner
    /\ lk' = [lk EXCEPT ![c] = "walk"]
    /\ seen' = [seen EXCEPT ![c] = owner[at[c]]]
    /\ UNCHANGED <<owner, at, stale, strayed>>

\* ... and only then its owner is looked up.  It is dead: on to its successor,
\* whether or not the file that was read is still there.
FollowDead(c) ==
    /\ lk[c] = "walk" /\ seen[c] /= NoOwner /\ ~ IsAlive(seen[c])
    /\ LookAt(c, seen[c])
    /\ strayed' = (strayed \/ c \in stale)
    /\ UNCHANGED <<owner, lk>>

\* A live owner, or a file that changed while it was read: wait.
FindBusy(c) ==
    /\ lk[c] = "walk" /\ seen[c] /= NoOwner
    /\ IsAlive(seen[c]) \/ c \in stale
    /\ TryAgain(c)

\* Mutant: the lock file is renamed into place, over one that appeared since.
MutantLink(c) ==
    /\ lk[c] = "link"
    /\ owner' = [owner EXCEPT ![at[c]] = c]
    /\ lk' = [lk EXCEPT ![c] = "held"]
    /\ UNCHANGED <<at, seen, stale, strayed>>

\* linkSync() of the owner file: it fails when the path exists by now.
Link(c) ==
    /\ lk[c] = "link"
    /\ IF owner[at[c]] = NoOwner
         THEN /\ owner' = [owner EXCEPT ![at[c]] = c]
              /\ lk' = [lk EXCEPT ![c] = "held"]
              /\ UNCHANGED <<at, seen, stale, strayed>>
         ELSE TryAgain(c)

Acquiring(c) == FindFree(c) \/ Read(c) \/ FollowDead(c) \/ FindBusy(c) \/ Link(c)

\* releasePublicationLock(): both files name this owner; the lock file goes.
\* A later file of this client holds another token, so who read this one is
\* stale for good.
Unlock(c) ==
    /\ lk[c] = "held"
    /\ owner' = [owner EXCEPT ![at[c]] = NoOwner]
    /\ lk' = [lk EXCEPT ![c] = "idle"]
    /\ at' = [at EXCEPT ![c] = Base]
    /\ stale' = stale \cup {d \in Clients : seen[d] = c}
    /\ UNCHANGED <<seen, strayed>>

\* The process dies, wherever it is; its lock file stays.
Perish(c) ==
    /\ lk[c] /= "dead"
    /\ lk' = [lk EXCEPT ![c] = "dead"]
    /\ LookAt(c, Base)
    /\ UNCHANGED <<owner, strayed>>

Holders == {c \in Clients : lk[c] = "held"}

LockNext == \E c \in Clients : Acquiring(c) \/ Unlock(c) \/ Perish(c)

LockSpec == LockInit /\ [][LockNext]_lockVars

-----------------------------------------------------------------------------
(* Properties.                                                             *)

Dead == {c \in Clients : lk[c] = "dead"}

\* Until somebody strays the lock is a mutex, whoever dies where: the files the
\* dead leave behind lead every newcomer to one and the same path.  Who strays
\* ends up beside that path, and then the code may have two holders: an owner
\* that releases and exits between the read of its file and the look at its
\* process sends the reader to a successor path while the base path is free.
M == INSTANCE Mutex WITH holder <- Holders, dead <- Dead
LockIsMutex == M!Init /\ [][strayed' \/ M!Next]_<<Holders, Dead>>

\* What makes it one.  A live owner holds the one file that names it; nobody is
\* named by two files; a path other than the base is looked at or linked only
\* when it is named after a dead owner whose own file is there; and what a
\* walker read is still there unless the owner released it.
LockInv ==
    /\ LockTypeOK
    /\ \A c \in Holders : owner[at[c]] = c
    /\ \A p \in Paths : owner[p] /= NoOwner /\ IsAlive(owner[p])
                          => lk[owner[p]] = "held" /\ at[owner[p]] = p
    /\ \A p, r \in Paths : owner[p] = owner[r] /\ owner[p] /= NoOwner => p = r
    /\ \A p \in Clients :
          (owner[p] /= NoOwner \/ \E c \in Clients : at[c] = p)
              => p \in Dead /\ \E r \in Paths : owner[r] = p
    /\ \A c \in Clients : seen[c] /= NoOwner /\ c \notin stale => owner[at[c]] = seen[c]
=============================================================================
