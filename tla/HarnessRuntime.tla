--------------------------- MODULE HarnessRuntime ---------------------------
(***************************************************************************)
(* The session table of src/src/runtime/session.ts (createHarnessRuntime): *)
(* startSession, resumeSession, closeSession and close, with the MCP       *)
(* attachment (src/src/mcp/attach.ts) each built session owns.             *)
(*                                                                         *)
(* A call waits for the store's load, for the build of its session (which  *)
(* connects the MCP clients), for the store's record, and for closeAll();  *)
(* any other call may run meanwhile.  Every start or resume call builds at *)
(* most one attachment, so an attachment bears the name of its call.       *)
(* closeAll() settles whatever its clients do and never rejects.           *)
(***************************************************************************)
EXTENDS FiniteSets

CONSTANTS
    Calls,     \* start and resume calls (each made at most once)
    SessionIds,\* session ids; a start draws a fresh one
    None       \* no attachment

ASSUME NoneAssumption == None \notin Calls

Stages == {"free", "loading", "building", "recording", "replacing",
           "discarding", "returned", "missing", "rejected"}

VARIABLES
    stage,     \* how far each call is
    resumes,   \* calls that are resumeSession() calls
    target,    \* the session id of a call
    sessions,  \* sessions: the attachment registered under an id
    opened,    \* attachments whose clients are connected
    closing,   \* attachments whose closeAll() is under way
    replaced,  \* previousSession of a resume call
    stored,    \* ids with a recorded session.started event
    drawn,     \* ids some start has drawn
    shutdown,  \* "open" (closed is false), "closing" (close() waits), "done"
    reaped     \* the attachments close() waits for

tableVars == <<sessions, closing, replaced>>
closeVars == <<shutdown, reaped>>
vars == <<stage, resumes, target, tableVars, opened, stored, drawn, closeVars>>

Registered == {sessions[s] : s \in SessionIds} \ {None}

Init ==
    /\ stage = [c \in Calls |-> "free"]
    /\ resumes = {}
    /\ target \in [Calls -> SessionIds]
    /\ sessions = [s \in SessionIds |-> None]
    /\ opened = {}
    /\ closing = {}
    /\ replaced = [c \in Calls |-> None]
    /\ stored \in SUBSET SessionIds
    /\ drawn = stored
    /\ shutdown = "open"
    /\ reaped = {}

Goto(c, st) == stage' = [stage EXCEPT ![c] = st]

-----------------------------------------------------------------------------
(* startSession and resumeSession.                                         *)

StartSession(c) ==
    /\ stage[c] = "free"
    /\ shutdown = "open"
    /\ target[c] \notin drawn
    /\ drawn' = drawn \cup {target[c]}
    /\ Goto(c, "building")
    /\ UNCHANGED <<resumes, target, tableVars, opened, stored, closeVars>>

ResumeSession(c) ==
    /\ stage[c] = "free"
    /\ shutdown = "open"
    /\ resumes' = resumes \cup {c}
    /\ Goto(c, "loading")
    /\ UNCHANGED <<target, tableVars, opened, stored, drawn, closeVars>>

\* loadSession(): the id is known, unknown, or the store fails.
Loaded(c) ==
    /\ stage[c] = "loading"
    /\ \/ target[c] \in stored /\ Goto(c, "building")
       \/ target[c] \notin stored /\ Goto(c, "missing")
       \/ Goto(c, "rejected")
    /\ UNCHANGED <<resumes, target, tableVars, opened, stored, drawn,
                   closeVars>>

\* The build throws, having closed the clients it had connected: what follows
\* the attachment only parses again what was validated before.
BuildFails(c) ==
    /\ stage[c] = "building"
    /\ Goto(c, "rejected")
    /\ UNCHANGED <<resumes, target, tableVars, opened, stored, drawn,
                   closeVars>>

\* The session is built; closed is looked at once more.
Built(c) ==
    /\ stage[c] = "building"
    /\ opened' = opened \cup {c}
    /\ IF shutdown = "open"
       THEN Goto(c, "recording") /\ UNCHANGED closing
       ELSE Goto(c, "discarding") /\ closing' = closing \cup {c}
    /\ UNCHANGED <<resumes, target, sessions, replaced, stored, drawn,
                   closeVars>>

\* Mutant: the catch does not close the attachment.
MutantRecordFails(c) ==
    /\ stage[c] = "recording"
    /\ Goto(c, "rejected")
    /\ UNCHANGED <<resumes, target, tableVars, opened, stored, drawn,
                   closeVars>>

\* The record, or the extension message after it, throws.
RecordFails(c) ==
    /\ stage[c] = "recording"
    /\ \/ UNCHANGED stored
       \/ c \notin resumes /\ stored' = stored \cup {target[c]}
    /\ closing' = closing \cup {c}
    /\ Goto(c, "discarding")
    /\ UNCHANGED <<resumes, target, sessions, replaced, opened, drawn,
                   closeVars>>

\* Mutant: what the entry held before is dropped without being closed.
MutantPrevious(c) == None
\* sessions.get() just before sessions.set(); a start does not look.
Previous(c) == IF c \in resumes THEN sessions[target[c]] ELSE None

\* The record is written: the session is registered.  closed is not looked at.
Recorded(c) ==
    /\ stage[c] = "recording"
    /\ sessions' = [sessions EXCEPT ![target[c]] = c]
    /\ replaced' = [replaced EXCEPT ![c] = Previous(c)]
    /\ closing' = closing \cup ({Previous(c)} \ {None})
    /\ stored' = stored \cup {target[c]}
    /\ Goto(c, IF Previous(c) = None THEN "returned" ELSE "replacing")
    /\ UNCHANGED <<resumes, target, opened, drawn, closeVars>>

Replaced(c) ==
    /\ stage[c] = "replacing"
    /\ replaced[c] \notin opened
    /\ Goto(c, "returned")
    /\ UNCHANGED <<resumes, target, tableVars, opened, stored, drawn,
                   closeVars>>

-----------------------------------------------------------------------------
(* Closing.                                                                *)

\* closeAll() of an attachment has settled.
AttachmentCloses(c) ==
    /\ c \in closing
    /\ closing' = closing \ {c}
    /\ opened' = opened \ {c}
    /\ stage' = [stage EXCEPT ![c] = IF @ = "discarding" THEN "rejected" ELSE @]
    /\ UNCHANGED <<resumes, target, sessions, replaced, stored, drawn,
                   closeVars>>

\* Mutant: the session is forgotten only once its clients are closed.
MutantForget(s) == sessions
\* sessions.delete() before the await.
Forget(s) == [sessions EXCEPT ![s] = None]

IsLive(s) == sessions[s] # None

CloseSession(s) ==
    /\ IsLive(s)
    /\ sessions' = Forget(s)
    /\ closing' = closing \cup {sessions[s]}
    /\ UNCHANGED <<stage, resumes, target, opened, replaced, stored, drawn,
                   closeVars>>

Close ==
    /\ shutdown = "open"
    /\ shutdown' = "closing"
    /\ sessions' = [s \in SessionIds |-> None]
    /\ closing' = closing \cup Registered
    /\ reaped' = Registered
    /\ UNCHANGED <<stage, resumes, target, opened, replaced, stored, drawn>>

CloseReturns ==
    /\ shutdown = "closing"
    /\ reaped \cap opened = {}
    /\ shutdown' = "done"
    /\ UNCHANGED <<stage, resumes, target, tableVars, opened, stored, drawn,
                   reaped>>

-----------------------------------------------------------------------------
CallStep(c) ==
    \/ Loaded(c) \/ BuildFails(c) \/ Built(c) \/ RecordFails(c) \/ Recorded(c)
    \/ Replaced(c)

Next ==
    \/ \E c \in Calls :
          StartSession(c) \/ ResumeSession(c) \/ CallStep(c) \/ AttachmentCloses(c)
    \/ \E s \in SessionIds : CloseSession(s)
    \/ Close
    \/ CloseReturns

Spec == Init /\ [][Next]_vars

\* Stores, builds and clients settle, and settled promises run on.
FairSpec ==
    /\ Spec
    /\ \A c \in Calls : WF_vars(CallStep(c)) /\ WF_vars(AttachmentCloses(c))
    /\ WF_vars(CloseReturns)

-----------------------------------------------------------------------------
(* Properties.                                                             *)

TypeOK ==
    /\ stage \in [Calls -> Stages]
    /\ resumes \subseteq Calls
    /\ target \in [Calls -> SessionIds]
    /\ sessions \in [SessionIds -> Calls \cup {None}]
    /\ opened \subseteq Calls
    /\ closing \subseteq Calls
    /\ replaced \in [Calls -> Calls \cup {None}]
    /\ stored \subseteq SessionIds
    /\ drawn \subseteq SessionIds
    /\ shutdown \in {"open", "closing", "done"}
    /\ reaped \subseteq Calls

\* No interleaving of starts, resumes (also of one id), failures and closes
\* orphans MCP clients: open clients belong to a registered session, to a call
\* that still records it, or are being closed.
NoOrphan ==
    \A c \in opened :
        c \in Registered \/ c \in closing \/ stage[c] = "recording"

\* A session that can be looked up has live clients that nobody is closing.
LiveSessionIsOpen == Registered \subseteq opened \ closing

\* Clients connected for a session that no lookup can reach (discarded, closed,
\* replaced, or not registered yet) are closed in the end, unless the session
\* gets registered.
NothingLeaks ==
    \A c \in Calls :
        (c \in opened /\ c \notin Registered)
            ~> (c \notin opened \/ c \in Registered)

\* close() promises to "Close every live session and make this runtime reject
\* future start/resume calls": when it has returned no session is live.
ClosedRuntimeHoldsNothing == shutdown = "done" => Registered = {}
=============================================================================
