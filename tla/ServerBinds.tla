----------------------------- MODULE ServerBinds -----------------------------
(***************************************************************************)
(* The column bind_status of one party that binds to us: a client, or a    *)
(* supplier in SERVER mode whose UNBOUND is held back for a grace time     *)
(* (smpp-server.ts handleBind, handleCleanup, updateClientBindStatus,      *)
(* updateSupplierBindStatus; sync-bind-status.ts).  Sessions of the party  *)
(* overlap: it may bind again before the server sees the old one close.    *)
(***************************************************************************)
EXTENDS BindSync, Integers

CONSTANTS
    Sessions,       \* the sessions the party opens, in this order: 1..N
    NoSession,      \* 0, below every session
    Kinds           \* subset of {"client", "server"}

VARIABLES
    kind,
    peer,           \* each session: where handleBind is with it, and its end
    unheard,        \* sessions that ended before anything listened
    slot,           \* activeSessions or activeSupplierSessions
    lastBind,       \* last_bind_time, told apart by the session that set it
    recent,         \* is it younger than SERVER_RECENT_BIND_MS?  (SERVER mode only)
    graceTimers,    \* grace timers that run
    graceTimer,     \* the one supplierUnbindTimers holds
    unbinds,        \* guarded UPDATEs to UNBOUND under way
    asked,          \* has the administrator asked for its end?  (bound: once)
    row,            \* last_bind_time as the job read it
    starting        \* the first two minutes after the start

bindVars == <<peer, unheard, slot, lastBind, recent, graceTimers, graceTimer, unbinds>>
vars == <<kind, bindVars, asked, row, starting, syncVars>>

\* The job's own NOW() in last_bind_time belongs to no session.
Init ==
    /\ kind \in Kinds
    /\ peer = [s \in Sessions |-> "new"]
    /\ unheard = {} /\ slot = NoSession /\ lastBind = NoSession /\ recent = FALSE
    /\ graceTimers = {} /\ graceTimer = NoSession /\ unbinds = {}
    /\ row = [bind |-> NoSession, recent |-> FALSE] /\ starting = TRUE
    /\ asked = FALSE
    /\ SyncInit

-----------------------------------------------------------------------------
(* Binds *)

\* handleBind has found the party: its UPDATE marks it BOUND.
MarkBound(s) ==
    /\ peer[s] = "new" /\ \A t \in Sessions : t < s => peer[t] # "new"
    /\ peer' = [peer EXCEPT ![s] = "marked"]
    /\ bindStatus' = "BOUND" /\ lastBind' = s /\ recent' = (kind = "server")
    /\ UNCHANGED <<kind, unheard, slot, graceTimers, graceTimer, unbinds, asked, row, starting, sync>>

\* The session is tracked; the timer of the last close is cancelled.
Track(s) ==
    /\ peer[s] = "marked"
    /\ peer' = [peer EXCEPT ![s] = "tracked"]
    /\ slot' = s
    /\ graceTimers' = graceTimers \ {graceTimer} /\ graceTimer' = NoSession
    /\ UNCHANGED <<kind, unheard, lastBind, recent, unbinds, asked, row, starting, syncVars>>

\* handleBind resolves after the audit row: from here on a close is handled.
Resolve(s) ==
    /\ peer[s] = "tracked"
    /\ peer' = [peer EXCEPT ![s] = "bound"]
    /\ UNCHANGED <<kind, unheard, slot, lastBind, recent, graceTimers, graceTimer, unbinds,
                   asked, row, starting, syncVars>>

-----------------------------------------------------------------------------
(* Closes *)

\* The session ends before handleBind has returned it: its close is not handled,
\* and it is tracked until another session takes its place.
CloseUnheard(s) ==
    /\ peer[s] \in {"marked", "tracked"} /\ s \notin unheard
    /\ unheard' = unheard \cup {s}
    /\ UNCHANGED <<kind, peer, slot, lastBind, recent, graceTimers, graceTimer, unbinds,
                   asked, row, starting, syncVars>>

\* handleCleanup: a session that has been replaced changes nothing.
Close(s) ==
    /\ peer[s] = "bound" /\ s \notin unheard
    /\ peer' = [peer EXCEPT ![s] = "closed"]
    /\ IF slot # s THEN UNCHANGED <<slot, graceTimers, graceTimer, unbinds>>
       ELSE /\ slot' = NoSession
            /\ IF kind = "client"
               THEN unbinds' = unbinds \cup {s} /\ UNCHANGED <<graceTimers, graceTimer>>
               ELSE /\ graceTimers' = graceTimers \cup {s} /\ graceTimer' = s
                    /\ UNCHANGED unbinds
    /\ UNCHANGED <<kind, unheard, lastBind, recent, asked, row, starting, syncVars>>

\* Sixty seconds after a close, and so no less after the bind.  The key is removed
\* whoever's timer it names.
GraceEnds(s) ==
    /\ s \in graceTimers /\ ~(recent /\ lastBind = s)
    /\ graceTimers' = graceTimers \ {s}
    /\ graceTimer' = NoSession
    /\ unbinds' = IF slot = NoSession THEN unbinds \cup {s} ELSE unbinds
    /\ UNCHANGED <<kind, peer, unheard, slot, lastBind, recent, asked, row, starting, syncVars>>

\* Mutant of Guarded: the UPDATE names the party only.
GuardedNever(s) == TRUE
Guarded(s) == lastBind = s

Unbind(s) ==
    /\ s \in unbinds
    /\ unbinds' = unbinds \ {s}
    /\ bindStatus' = IF Guarded(s) THEN "UNBOUND" ELSE bindStatus
    /\ UNCHANGED <<kind, peer, unheard, slot, lastBind, recent, graceTimers, graceTimer,
                   asked, row, starting, sync>>

\* REBIND or UNBIND: the sessions are asked to close, which comes as any close does,
\* and an UPDATE without the guard says so at once.
AdminUnbinds ==
    /\ ~asked /\ asked' = TRUE
    /\ bindStatus' = "UNBOUND"
    /\ UNCHANGED <<kind, bindVars, row, starting, sync>>

-----------------------------------------------------------------------------
(* The job *)

Ages ==
    /\ recent /\ recent' = FALSE
    /\ UNCHANGED <<kind, peer, unheard, slot, lastBind, graceTimers, graceTimer, unbinds,
                   asked, row, starting, syncVars>>

Started ==
    /\ kind = "server" /\ starting /\ starting' = FALSE
    /\ UNCHANGED <<kind, bindVars, asked, row, syncVars>>

\* recentlyBound, by the row the job has read: it may be older than the last bind.
RecentlyBound ==
    IF ~row.recent THEN {FALSE}
    ELSE IF row.bind = lastBind THEN {recent} ELSE BOOLEAN

\* hasSession: a SERVER-mode party that bound a moment ago counts as connected.
SessionSeen(fresh) == slot # NoSession \/ (kind = "server" /\ fresh)

\* SERVER-mode parties are left alone in the first two minutes.
SyncReads ==
    /\ kind = "client" \/ ~starting
    /\ SyncRead
    /\ row' = [bind |-> lastBind, recent |-> recent]
    /\ UNCHANGED <<kind, bindVars, asked, starting>>

SyncTests ==
    /\ \E fresh \in RecentlyBound : SyncTest(SessionSeen(fresh))
    /\ UNCHANGED <<kind, bindVars, asked, row, starting>>

\* A write of BOUND stamps last_bind_time with a time that is no session's.
SyncWrites ==
    /\ SyncWrite
    /\ IF bindStatus' = "BOUND" THEN lastBind' = NoSession /\ recent' = (kind = "server")
       ELSE UNCHANGED <<lastBind, recent>>
    /\ UNCHANGED <<kind, peer, unheard, slot, graceTimers, graceTimer, unbinds,
                   asked, row, starting>>

Sync == SyncReads \/ SyncTests \/ SyncWrites

-----------------------------------------------------------------------------
SessionStep(s) ==
    \/ MarkBound(s) \/ Track(s) \/ Resolve(s) \/ CloseUnheard(s)
    \/ Close(s) \/ GraceEnds(s) \/ Unbind(s)

Next == (\E s \in Sessions : SessionStep(s)) \/ AdminUnbinds \/ Ages \/ Started \/ Sync

Spec == Init /\ [][Next]_vars

\* Time passes, statements end and the job runs; the party binds and leaves at will.
Fairness ==
    /\ WF_vars(\E s \in Sessions : Track(s) \/ Resolve(s) \/ GraceEnds(s) \/ Unbind(s))
    /\ WF_vars(Ages) /\ WF_vars(Started) /\ WF_vars(Sync)

FairSpec == Spec /\ Fairness

-----------------------------------------------------------------------------
(* Properties *)

\* The state of the party's sessions, timers and column stays in range.
TypeOK ==
    /\ kind \in Kinds
    /\ peer \in [Sessions -> {"new", "marked", "tracked", "bound", "closed"}]
    /\ unheard \subseteq Sessions
    /\ slot \in Sessions \cup {NoSession} /\ lastBind \in Sessions \cup {NoSession}
    /\ graceTimers \subseteq Sessions /\ graceTimer \in graceTimers \cup {NoSession}
    /\ unbinds \subseteq Sessions
    /\ asked \in BOOLEAN /\ recent \in BOOLEAN /\ starting \in BOOLEAN
    /\ row \in [bind : Sessions \cup {NoSession}, recent : BOOLEAN]
    /\ SyncTypeOK

\* The end of an old session, told late by its close, its grace timer or its
\* UPDATE, never marks a party UNBOUND that is connected by a later one.  (Of two
\* binds at once the earlier may be tracked last; that one it does mark.)
NoFalseUnbind ==
    [][\A s \in Sessions : Unbind(s) /\ bindStatus' # bindStatus => slot <= s]_vars

\* Whatever the guarded updates, the timers and the job's own stale writes did, the
\* column is true in the end: of a party that stays connected, and of one that
\* stays away.
ColumnHeals ==
    /\ <>[](kind \in Kinds /\ slot # NoSession) => <>[](bindStatus = "BOUND")
    /\ <>[](kind \in Kinds /\ slot = NoSession) => <>[](bindStatus = "UNBOUND")

=============================================================================
