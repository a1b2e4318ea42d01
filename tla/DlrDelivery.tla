----------------------------- MODULE DlrDelivery -----------------------------
(***************************************************************************)
(* How the receipts of one ESME client reach it: the live push of the DLR  *)
(* callback, the queue and its table (DlrStore), the SMPP sessions the     *)
(* client binds and loses, and the flush after a bind with its recovery of *)
(* DELIVERED rows (smpp-server.ts).                                        *)
(*                                                                         *)
(* Every session of the client has its bind key, "tenant:systemId"; a      *)
(* client has two, its user name and its API key.  The TTL cleanup of the  *)
(* queue is checked in DlrStore and left out here.                         *)
(***************************************************************************)
EXTENDS DlrStore

CONSTANTS
    Sessions,       \* connections the client makes
    Keys,           \* keys of activeSessions
    KeyOf,          \* KeyOf[s]: the key session s binds under
    Receivers,      \* sessions bound as transceiver or receiver
    RowOf,          \* RowOf[d]: the dlr_status the receipt d writes to its row
    NoSession       \* not a session

ASSUME DeliveryAssumption ==
    /\ NoSession \notin Sessions
    /\ KeyOf \in [Sessions -> Keys]
    /\ Receivers \subseteq Sessions
    /\ RowOf \in [Dlrs -> {"DELIVERED", "DELIVRD", "FAILED"}]

VARIABLES
    row,        \* messages.dlr_status, "SENT" until the receipt
    receipt,    \* where the handler of each receipt is
    bind,       \* where handleBind is with each session
    wire,       \* the connection of each session
    slot,       \* activeSessions
    lastBind,   \* history: the session bound last under each key
    recovered,  \* is the client in dlrRecoveredClients?
    flush,      \* flushPendingDlrs, by session and caller
    settled,    \* has the startup flush been started?
    got,        \* history: receipts that reached the client
    missed,     \* history: receipts written to a connection that was gone
    thrown      \* history: receipts whose live push threw

receiptVars == <<row, receipt>>
bindVars    == <<bind, wire, slot, lastBind>>
flushVars   == <<recovered, flush, settled>>
clientVars  == <<got, missed, thrown>>
vars == <<storeVars, receiptVars, bindVars, flushVars, clientVars>>

Flushes == Sessions \X {"bind", "start"}

NoFlush == [pc |-> "idle", found |-> <<>>, due |-> {}, own |-> FALSE,
            robbed |-> FALSE]

Init ==
    /\ StoreInit
    /\ row = [d \in Dlrs |-> "SENT"]
    /\ receipt = [d \in Dlrs |-> "due"]
    /\ bind = [s \in Sessions |-> "new"]
    /\ wire = [s \in Sessions |-> "open"]
    /\ slot = [k \in Keys |-> NoSession]
    /\ lastBind = [k \in Keys |-> NoSession]
    /\ recovered = FALSE
    /\ flush = [f \in Flushes |-> NoFlush]
    /\ settled = FALSE
    /\ got = {}
    /\ missed = {}
    /\ thrown = {}

Tracked == {slot[k] : k \in Keys} \ {NoSession}

-----------------------------------------------------------------------------
(* Sessions *)

\* activeSessions.set(`${t.id}:${systemId}`, es)
TrackedAs(s) == [slot EXCEPT ![KeyOf[s]] = s]

\* handleBind up to activeSessions.set; its INSERT into audit_log is still to
\* come, and the close handler does not know the session before.
Bind(s) ==
    /\ bind[s] = "new"
    /\ bind' = [bind EXCEPT ![s] = "binding"]
    /\ slot' = TrackedAs(s)
    /\ lastBind' = [lastBind EXCEPT ![KeyOf[s]] = s]
    /\ UNCHANGED <<storeVars, receiptVars, wire, flushVars, clientVars>>

\* flushPendingDlrs up to its first await: the recovery is claimed, or skipped.
\* A skipped recovery resumes in a microtask, here a step of its own.
StartFlush(fs) ==
    /\ flush' = [f \in Flushes |->
                    IF f \notin fs THEN flush[f]
                    ELSE [NoFlush EXCEPT
                             !.pc = IF recovered THEN "push" ELSE "select",
                             !.own = ~recovered]]
    /\ recovered' = (recovered \/ fs # {})

\* handleBind resolves; a receiver is flushed.
Resolve(s) ==
    /\ bind[s] = "binding"
    /\ bind' = [bind EXCEPT ![s] = "bound"]
    /\ StartFlush({<<s, "bind">>} \cap (Receivers \X {"bind"}))
    /\ UNCHANGED <<storeVars, receiptVars, wire, slot, lastBind, settled,
                   clientVars>>

\* The INSERT into audit_log fails: the bind is refused, the session stays in
\* activeSessions, and the close handler never learns of it.
BindFault(s) ==
    /\ bind[s] = "binding"
    /\ faults < MaxFaults
    /\ faults' = faults + 1
    /\ bind' = [bind EXCEPT ![s] = "refused"]
    /\ UNCHANGED <<arrived, old, queue, table, writes, load, cleaning, sent,
                   delayed, restarts, refused, receiptVars, wire, slot, lastBind,
                   flushVars, clientVars>>

\* The connection breaks, unnoticed.
Break(s) ==
    /\ bind[s] # "new" /\ wire[s] = "open"
    /\ wire' = [wire EXCEPT ![s] = "broken"]
    /\ UNCHANGED <<storeVars, receiptVars, bind, slot, lastBind, flushVars,
                   clientVars>>

\* Mutant of Removes: the key is deleted whoever holds it.
RemovesAny(s) == slot[KeyOf[s]] # NoSession

\* activeSessions.get(key) === sess
Removes(s) == slot[KeyOf[s]] = s

\* handleCleanup on close, error or unbind: nothing before the bind resolves,
\* else removeSession.
Close(s) ==
    /\ wire[s] = "broken"
    /\ wire' = [wire EXCEPT ![s] = "closed"]
    /\ IF bind[s] = "bound" /\ Removes(s)
         THEN /\ slot' = [slot EXCEPT ![KeyOf[s]] = NoSession]
              /\ recovered' = FALSE
         ELSE UNCHANGED <<slot, recovered>>
    /\ UNCHANGED <<storeVars, receiptVars, bind, lastBind, flush, settled,
                   clientVars>>

-----------------------------------------------------------------------------
(* Receipts *)

UpdateRow(d) ==
    /\ receipt[d] = "due"
    /\ receipt' = [receipt EXCEPT ![d] = "stored"]
    /\ row' = [row EXCEPT ![d] = RowOf[d]]
    /\ UNCHANGED <<storeVars, bindVars, flushVars, clientVars>>

\* What writing the receipts of ds to session s does for the client
Written(s, ds) ==
    /\ got' = IF wire[s] = "open" THEN got \cup Range(ds) ELSE got
    /\ missed' = IF wire[s] = "open" THEN missed ELSE missed \cup Range(ds)
    /\ UNCHANGED thrown

\* The live push throws.  handleIncomingDlr logs it and drops the callback.
PushThrows(d) ==
    /\ Tracked # {}
    /\ refused < MaxRefused
    /\ refused' = refused + 1
    /\ thrown' = thrown \cup {d}
    /\ UNCHANGED <<arrived, old, queue, table, writes, load, cleaning, sent,
                   delayed, restarts, faults, got, missed>>

\* The callback: push to the first tracked session, or queue.  A message of
\* before a restart has none, and its receipt is queued whoever is bound.
Callback(d) ==
    /\ receipt[d] = "stored"
    /\ receipt' = [receipt EXCEPT ![d] = "handled"]
    /\ \/ \E s \in Tracked : Written(s, <<d>>) /\ UNCHANGED storeVars
       \/ PushThrows(d)
       \/ /\ Tracked = {} \/ restarts > 0
          /\ EnqueueEach(<<d>>)
          /\ UNCHANGED clientVars
    /\ UNCHANGED <<row, bindVars, flushVars>>

-----------------------------------------------------------------------------
(* Flush *)

\* Mutant of Recoverable: no row.
RecoverableNone(d) == FALSE

\* dlr_status = 'DELIVERED' AND dlr_timestamp IS NOT NULL
Recoverable(d) == row[d] = "DELIVERED"

Delivered(d) == row[d] \in {"DELIVERED", "DELIVRD"}

\* recoverMissedDlrs: the SELECT ...
RecoverRead(f) ==
    /\ flush[f].pc = "select"
    /\ flush' = [flush EXCEPT ![f].pc = "enqueue",
                     ![f].found = SetToSeq({d \in Dlrs : Recoverable(d)}),
                     ![f].due = {d \in Dlrs : Delivered(d) /\ receipt[d] = "handled"}]
    /\ UNCHANGED <<storeVars, receiptVars, bindVars, recovered, settled,
                   clientVars>>

\* ... and the loop over its rows.
RecoverEnqueue(f) ==
    /\ flush[f].pc = "enqueue"
    /\ flush' = [flush EXCEPT ![f].pc = "push", ![f].found = <<>>]
    /\ EnqueueEach(flush[f].found)
    /\ UNCHANGED <<receiptVars, bindVars, recovered, settled, clientVars>>

Over     == [NoFlush EXCEPT !.pc = "over"]
Rejected == [NoFlush EXCEPT !.pc = "rejected"]

\* A failing SELECT recovers nothing and the flush goes on.  pool.connect before
\* the try and the SET of its finally reject the whole flush instead, the latter
\* with the rows enqueued.  The flag stays set in each case.
RecoverFault(f) ==
    /\ faults < MaxFaults
    /\ faults' = faults + 1
    /\ \/ /\ flush[f].pc = "select"
          /\ flush' = [flush EXCEPT ![f].pc = "push", ![f].own = FALSE]
       \/ /\ flush[f].pc = "select" \/ (flush[f].pc = "push" /\ flush[f].own)
          /\ flush' = [flush EXCEPT ![f] = Rejected]
    /\ UNCHANGED <<arrived, old, queue, table, writes, load, cleaning, sent,
                   delayed, restarts, refused, receiptVars, bindVars, recovered,
                   settled, clientVars>>

\* This flush is over; others under way have lost what it claimed.
Pushed(f) ==
    [g \in Flushes |->
        IF g = f THEN Over
        ELSE IF flush[g].pc \in {"select", "enqueue", "push"}
               THEN [flush[g] EXCEPT !.robbed = TRUE] ELSE flush[g]]

\* The rest of flushPendingDlrs, to the session it was started for.
Push(f, unsent) ==
    /\ flush[f].pc = "push"
    /\ IF queue = <<>>
         THEN flush' = [flush EXCEPT ![f] = Over]
              /\ UNCHANGED <<storeVars, clientVars>>
         ELSE /\ Flush(unsent)
              /\ Written(f[1], Without(queue, unsent))
              /\ flush' = Pushed(f)
    /\ UNCHANGED <<receiptVars, bindVars, recovered, settled>>

\* Five seconds after the start every tracked session is flushed: the first one
\* claims the recovery.
StartupFlush ==
    /\ ~settled
    /\ settled' = TRUE
    /\ \E first \in Tracked \cup {NoSession} :
          /\ first = NoSession => Tracked = {}
          /\ flush' = [f \in Flushes |->
                IF f[1] \notin Tracked \/ f[2] = "bind" THEN flush[f]
                ELSE LET own == ~recovered /\ f[1] = first IN
                     [NoFlush EXCEPT !.pc = IF own THEN "select" ELSE "push",
                                     !.own = own]]
    /\ recovered' = (recovered \/ Tracked # {})
    /\ UNCHANGED <<storeVars, receiptVars, bindVars, clientVars>>

-----------------------------------------------------------------------------
StoreStep ==
    /\ \/ Exec \/ LoadRead \/ LoadApply \/ LoadFault
       \/ \E w \in Statement : WriteFault(w)
    /\ UNCHANGED <<receiptVars, bindVars, flushVars, clientVars>>

\* Connections and what is in memory go.  A receipt being handled is lost with
\* its callback.
Restart ==
    /\ StoreRestart
    /\ receipt' = [d \in Dlrs |-> IF receipt[d] = "stored" THEN "handled"
                                  ELSE receipt[d]]
    /\ wire' = [s \in Sessions |-> IF bind[s] = "new" THEN wire[s] ELSE "closed"]
    /\ bind' = [s \in Sessions |-> IF bind[s] = "new" THEN "new" ELSE "bound"]
    /\ slot' = [k \in Keys |-> NoSession]
    /\ lastBind' = [k \in Keys |-> NoSession]
    /\ recovered' = FALSE
    /\ flush' = [f \in Flushes |-> NoFlush]
    /\ settled' = FALSE
    /\ UNCHANGED <<row, clientVars>>

FlushStep(f) ==
    \/ RecoverRead(f) \/ RecoverEnqueue(f) \/ RecoverFault(f)
    \/ \E unsent \in SUBSET Range(queue) : Push(f, unsent)

Next ==
    \/ \E s \in Sessions :
          Bind(s) \/ Resolve(s) \/ BindFault(s) \/ Break(s) \/ Close(s)
    \/ \E d \in Dlrs : UpdateRow(d) \/ Callback(d)
    \/ \E f \in Flushes : FlushStep(f)
    \/ StartupFlush
    \/ StoreStep
    \/ Restart

Spec == Init /\ [][Next]_vars

-----------------------------------------------------------------------------
\* "prevents a stale close event from deleting a newly reconnected session": the
\* latest session bound under a key is tracked until its own close, whatever the
\* older ones of that key do.
LatestBindTracked ==
    \A k \in Keys : LET s == lastBind[k] IN
        s # NoSession /\ wire[s] # "closed" => slot[k] = s

\* While the process runs no receipt disappears between callback, queue, flush
\* and requeue: it reached the client, waits, or went to a broken connection.  The
\* one exception is a live push that throws: nobody queues that receipt.
NothingVanishes ==
    restarts = 0 =>
        \A d \in Dlrs : receipt[d] = "handled" =>
            d \in got \/ d \in Range(queue) \/ d \in missed \/ d \in thrown

\* When the flush of a session that ran the recovery itself ends and its
\* connection stands, the client has every receipt that was dealt with and whose
\* row was delivered at the SELECT, one whose live push threw included, unless
\* another flush emptied the queue meanwhile or the send threw.
RecoveryReaches ==
    [][\A f \in Flushes :
         /\ flush[f].pc = "push" /\ flush'[f].pc = "over"
         /\ flush[f].own /\ ~flush[f].robbed /\ wire[f[1]] = "open"
         => \A d \in flush[f].due : d \in got' \/ d \in delayed']_vars

=============================================================================
