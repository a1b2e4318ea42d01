----------------------------- MODULE SupplierLink -----------------------------
(***************************************************************************)
(* The link to a supplier we connect to (connection_mode CLIENT): binds,   *)
(* drops, reconnect timers and the administrator's BIND, REBIND and UNBIND *)
(* (smpp-client.ts, bind-control), with the column bind_status.            *)
(*                                                                         *)
(* A link has one transceiver session ("trx") or, in TX_RX mode, a         *)
(* transmitter and a receiver.  Several calls may be connecting at once;   *)
(* a session that was closed reports it later, and its handler acts on     *)
(* whatever the map then holds.  Backoff is abstracted to "later" and the  *)
(* SMPP versions an attempt goes through to their common outcome.          *)
(***************************************************************************)
EXTENDS BindSync, Integers

CONSTANTS
    Sessions,       \* TCP sessions that get bound, in this order: 1..N
    Calls,          \* calls that may be connecting at once
    NoSession,
    Modes,          \* subset of {"trx", "dual"}
    MaxAdmin,       \* bound, by mode: requests of the administrator
    MaxFaults       \* bound, by mode: database errors of a reconnect

ASSUME LinkAssumption ==
    /\ Sessions \subseteq Nat /\ NoSession \notin Sessions
    /\ Modes \subseteq {"trx", "dual"}
    /\ MaxAdmin \in [Modes -> Nat] /\ MaxFaults \in [Modes -> Nat]

VARIABLES
    mode,
    conn,           \* supplierConnections, by leg
    session,        \* each session: its leg, its state, has it its handlers
    timer,          \* the armed reconnect timers
    call,           \* the calls of connectToSupplier and reconnect...Only
    writes,         \* UPDATEs of bind_status under way; equal ones count as one
    stopped,        \* history: why nobody owes an attempt, since the last connect
    admin, faults

linkVars == <<conn, session, timer, call, stopped>>
vars == <<mode, linkVars, writes, syncVars, admin, faults>>

Legs   == {"trx", "tx", "rx"}
Timers == {"full", "tx", "rx"}
Other(leg) == CHOOSE l \in {"tx", "rx"} \ {leg} : TRUE

NotOpen(st) == [leg |-> "trx", st |-> st, handlers |-> FALSE]

Tracked(leg) == conn[leg] # NoSession

\* isSupplierConnected
Connected == Tracked("trx") \/ Tracked("tx")

Idle == [pc |-> "idle", kind |-> "full", leg |-> "trx", rebind |-> FALSE]
FirstLeg == IF mode = "trx" THEN "trx" ELSE "tx"

\* A call of connectToSupplier that binds its first leg, as started by kind
Connecting(rebind) == [pc |-> "bind", kind |-> "full", leg |-> FirstLeg, rebind |-> rebind]

\* initSupplierConnections connects at start.
Init ==
    /\ mode \in Modes
    /\ conn = [l \in Legs |-> NoSession]
    /\ session = [s \in Sessions |-> NotOpen("free")]
    /\ timer = {}
    /\ \E c \in Calls :
          call = [d \in Calls |-> IF d = c THEN Connecting(FALSE) ELSE Idle]
    /\ writes = {} /\ stopped = "no"
    /\ admin = 0 /\ faults = 0
    /\ SyncInit

-----------------------------------------------------------------------------
(* Closing and connecting *)

\* session.close() for what is tracked: the close event comes later.
Closed(sess) ==
    [s \in Sessions |-> IF \E l \in Legs : conn[l] = s /\ sess[s].st = "bound"
                        THEN [sess[s] EXCEPT !.st = "closing"] ELSE sess[s]]

NoConn == [l \in Legs |-> NoSession]

\* connectToSupplier: what is tracked is closed and forgotten.
StartConnect(c, rebind) ==
    /\ call' = [call EXCEPT ![c] = Connecting(rebind)]
    /\ session' = Closed(session)
    /\ conn' = NoConn
    /\ stopped' = "no"

\* A reconnect timer fires.  The timer of one leg reconnects everything when the
\* other leg has dropped too.
TimerFires(c, t) ==
    /\ t \in timer
    /\ call[c].pc = "idle"
    /\ timer' = timer \ {t}
    /\ LET kind == IF t # "full" /\ Tracked(Other(t)) THEN t ELSE "full" IN
       call' = [call EXCEPT ![c] = [pc |-> "read", kind |-> kind,
                    leg |-> IF kind = "full" THEN FirstLeg ELSE kind, rebind |-> FALSE]]
    /\ UNCHANGED <<mode, conn, session, stopped, writes, syncVars, admin, faults>>

\* The supplier's row has been read.
Reconnect(c) ==
    /\ call[c].pc = "read"
    /\ IF call[c].kind = "full" THEN StartConnect(c, FALSE)
       ELSE /\ call' = [call EXCEPT ![c].pc = "bind"]
            /\ UNCHANGED <<conn, session, stopped>>
    /\ UNCHANGED <<mode, timer, writes, syncVars, admin, faults>>

\* No database connection to read it with: pool.connect() is outside the try, and
\* the timer that fired is gone.
ConnectFault(c) ==
    /\ call[c].pc = "read"
    /\ faults < MaxFaults[mode]
    /\ faults' = faults + 1
    /\ call' = [call EXCEPT ![c] = Idle]
    /\ stopped' = "forgotten"
    /\ UNCHANGED <<mode, conn, session, timer, writes, syncVars, admin>>

\* Reading it fails: the same reconnect is scheduled again.
ReadFault(c) ==
    /\ call[c].pc = "read"
    /\ faults < MaxFaults[mode]
    /\ faults' = faults + 1
    /\ timer' = timer \cup {call[c].kind}
    /\ call' = [call EXCEPT ![c] = Idle]
    /\ UNCHANGED <<mode, conn, session, stopped, writes, syncVars, admin>>

\* The SMSC accepts.  The new session is tracked whatever was; the transmitter of
\* a TX_RX link gets its handlers only once the receiver is bound.
BindOk(c, s) ==
    /\ call[c].pc = "bind"
    /\ session[s].st = "free" /\ \A t \in Sessions : t < s => session[t].st # "free"
    /\ LET leg  == call[c].leg
           last == ~(call[c].kind = "full" /\ leg = "tx")
           now  == [conn EXCEPT ![leg] = s]
           registered == IF ~last THEN {} ELSE
                         IF call[c].kind = "full" THEN {now[l] : l \in Legs} ELSE {s}
       IN /\ conn' = now
          /\ session' = [t \in Sessions |->
                 LET new == IF t = s THEN [leg |-> leg, st |-> "bound", handlers |-> FALSE]
                                     ELSE session[t]
                 IN [new EXCEPT !.handlers = @ \/ (t \in registered /\ new.st # "dead")]]
          /\ call' = [call EXCEPT ![c] =
                 IF last THEN Idle ELSE [call[c] EXCEPT !.leg = "rx"]]
    /\ writes' = writes \cup {"BOUND"}
    /\ UNCHANGED <<mode, timer, stopped, syncVars, admin, faults>>

\* disconnectSupplier
Disconnect ==
    /\ timer' = {}
    /\ session' = Closed(session)
    /\ conn' = NoConn
    /\ stopped' = "ended"

\* Mutant of Rescheduled: a failed attempt is not followed by another.
RescheduledNever(permanent) == {}
Rescheduled(permanent) == IF permanent THEN {} ELSE {"full"}

\* The attempt fails.  Bad credentials are final; a refused receiver takes its
\* transmitter, and the timer just set, down with it.
BindFails(c, permanent) ==
    /\ call[c].pc = "bind"
    /\ call' = [call EXCEPT ![c] = Idle]
    /\ writes' = writes \cup {"BIND_FAILED"}
                        \cup (IF call[c].rebind THEN {"UNBOUND"} ELSE {})
    /\ IF call[c].kind = "full" /\ call[c].leg = "rx" THEN Disconnect
       ELSE /\ timer' = timer \cup Rescheduled(permanent)
                              \cup ({call[c].kind} \ {"full"})
            /\ stopped' = IF permanent THEN "ended" ELSE stopped
            /\ UNCHANGED <<conn, session>>
    /\ UNCHANGED <<mode, syncVars, admin, faults>>

-----------------------------------------------------------------------------
(* Sessions end *)

\* What the handler of a session of this leg arms, given what is still tracked
\* Mutant of Armed: a leg whose sibling is alive is left alone.
ArmedAlone(leg, sibling) == IF sibling THEN {} ELSE {"full"}
Armed(leg, sibling) == IF sibling THEN {leg} ELSE {"full"}

\* Mutant of Untracked: the handler leaves the map to the next connect.
UntrackedNever(leg) == conn
Untracked(leg) == [conn EXCEPT ![leg] = NoSession]

\* The session's close event, after a drop or our own close().  The handler, if
\* there is one, removes what the map holds for the leg, be it another session.
CloseEvent(s) ==
    /\ session[s].st \in {"bound", "closing"}
    /\ session' = [session EXCEPT ![s] = NotOpen("dead")]
    /\ IF session[s].handlers
       THEN LET leg == session[s].leg
                sibling == mode = "dual" /\ Tracked(Other(leg))
            IN /\ conn' = Untracked(leg)
               /\ timer' = timer \cup Armed(leg, sibling)
               /\ writes' = IF sibling THEN writes ELSE writes \cup {"UNBOUND"}
       ELSE UNCHANGED <<conn, timer, writes>>
    /\ UNCHANGED <<mode, call, stopped, syncVars, admin, faults>>

\* The session's error event: it is untracked at once, and its close comes later.
ErrorEvent(s) ==
    /\ session[s].st = "bound" /\ session[s].handlers
    /\ session' = [session EXCEPT ![s].st = "closing"]
    /\ LET leg == session[s].leg IN
       /\ conn' = Untracked(leg)
       /\ writes' = IF mode = "dual" /\ Tracked(Other(leg)) THEN writes
                    ELSE writes \cup {"UNBOUND"}
    /\ UNCHANGED <<mode, timer, call, stopped, syncVars, admin, faults>>

-----------------------------------------------------------------------------
(* The administrator, and the column *)

Admin ==
    /\ admin < MaxAdmin[mode]
    /\ admin' = admin + 1
    /\ UNCHANGED <<mode, syncVars, faults>>

\* BIND: an unconnected link is connected.
AdminBind(c) ==
    /\ Admin
    /\ IF Connected
       THEN writes' = writes \cup {"BOUND"} /\ UNCHANGED linkVars
       ELSE /\ call[c].pc = "idle"
            /\ StartConnect(c, FALSE)
            /\ UNCHANGED <<timer, writes>>

\* REBIND: the link is taken down, and connected after 300 ms.
AdminRebind(c) ==
    /\ Admin
    /\ call[c].pc = "idle"
    /\ call' = [call EXCEPT ![c] = [Idle EXCEPT !.pc = "wait"]]
    /\ Disconnect
    /\ UNCHANGED writes

Rebind(c) ==
    /\ call[c].pc = "wait"
    /\ StartConnect(c, TRUE)
    /\ UNCHANGED <<mode, timer, writes, syncVars, admin, faults>>

AdminUnbind ==
    /\ Admin
    /\ Disconnect
    /\ writes' = writes \cup {"UNBOUND"}
    /\ UNCHANGED call

\* updateSupplierBindStatus is not awaited: updates land in any order.
WriteLands(value) ==
    /\ value \in writes
    /\ bindStatus' = value
    /\ writes' = writes \ {value}
    /\ UNCHANGED <<mode, linkVars, sync, admin, faults>>

Sync ==
    /\ SyncRead \/ SyncTest(Connected) \/ SyncWrite
    /\ UNCHANGED <<mode, linkVars, writes, admin, faults>>

-----------------------------------------------------------------------------
CallStep(c) ==
    \/ Reconnect(c) \/ ConnectFault(c) \/ ReadFault(c) \/ Rebind(c)
    \/ \E s \in Sessions : BindOk(c, s)
    \/ \E p \in BOOLEAN : BindFails(c, p)

Fire(t) == \E c \in Calls : TimerFires(c, t)

Next ==
    \/ \E c \in Calls : CallStep(c) \/ AdminBind(c) \/ AdminRebind(c)
    \/ \E t \in Timers : Fire(t)
    \/ \E s \in Sessions : CloseEvent(s) \/ ErrorEvent(s)
    \/ AdminUnbind
    \/ \E v \in BindStatuses : WriteLands(v)
    \/ Sync

Spec == Init /\ [][Next]_vars

\* Timers fire, an attempt ends (BIND_TIMEOUT), our own close() is answered by the
\* event, statements end and the job runs.  Nobody promises that an SMSC accepts.
Fairness ==
    /\ WF_vars(\E c \in Calls : CallStep(c))
    /\ WF_vars(\E t \in Timers : Fire(t))
    /\ WF_vars(\E s \in Sessions : session[s].st = "closing" /\ CloseEvent(s))
    /\ WF_vars(\E v \in BindStatuses : WriteLands(v))
    /\ WF_vars(Sync)

FairSpec == Spec /\ Fairness

-----------------------------------------------------------------------------
(* Properties *)

LinkTypes ==
    /\ mode \in Modes
    /\ conn \in [Legs -> Sessions \cup {NoSession}]
    /\ session \in [Sessions -> [leg : Legs, st : {"free", "bound", "closing", "dead"},
                                 handlers : BOOLEAN]]
    /\ timer \subseteq Timers
    /\ call \in [Calls -> [pc : {"idle", "read", "bind", "wait"}, kind : Timers,
                           leg : Legs, rebind : BOOLEAN]]
    /\ stopped \in {"no", "ended", "forgotten"}

ColumnTypes ==
    /\ writes \subseteq BindStatuses
    /\ admin \in 0..MaxAdmin[mode] /\ faults \in 0..MaxFaults[mode]
    /\ SyncTypeOK

\* The state of the link, its calls and the column stays in range.
TypeOK == LinkTypes /\ ColumnTypes

Busy == \E c \in Calls : call[c].pc # "idle"
CloseComing(leg) ==
    \E s \in Sessions : session[s].leg = leg /\ session[s].st \in {"bound", "closing"}
                        /\ session[s].handlers

\* A link that is down is pursued: an attempt is under way, a timer is armed, or a
\* session is about to report its end.  So is the lost leg of a TX_RX link.  The
\* exceptions are a link ended on purpose (bad credentials, the administrator, or a
\* receiver refused in TX_RX mode, which the code does not retry) and the one way a
\* link is forgotten, a reconnect for which pool.connect() fails.  Every path of
\* doVersionFallback, the close handlers, disconnectSupplier and the reconnects.
Pursued ==
    /\ (\A l \in Legs : ~Tracked(l)) /\ stopped = "no" =>
          Busy \/ timer # {} \/ \E l \in Legs : CloseComing(l)
    /\ \A l \in {"tx", "rx"} :
          mode = "dual" /\ stopped = "no" /\ Tracked(l) /\ ~Tracked(Other(l)) =>
              Busy \/ timer # {} \/ CloseComing(Other(l))

\* What the map holds for a transceiver is a live session: messages are never sent
\* into one that has reported its end.
TrackedAlive ==
    mode = "trx" /\ Tracked("trx") => session[conn["trx"]].st = "bound"

\* A transceiver link that is down is tried again, for ever if need be, unless it
\* was ended on purpose or forgotten (see Pursued): timers are never lost to the
\* overlap of calls, closes and requests.  Links of two legs are left out.
Retried ==
    []<>(\/ mode # "trx" \/ stopped # "no" \/ Connected
         \/ \E c \in Calls : call[c].pc = "bind")

\* The job makes the column true again, whatever order the updates landed in: for
\* a link that has settled down connected, and for one that stays down.
LinkHeals ==
    /\ <>[](mode \in Modes /\ Connected /\ ~Busy /\ timer = {}) => <>[](bindStatus = "BOUND")
    /\ <>[](mode \in Modes /\ ~Connected) => <>[](bindStatus # "BOUND")

=============================================================================
