----------------------------- MODULE RestGateway -----------------------------
(***************************************************************************)
(* A phone that registers as a supplier over HTTPS and polls for messages: *)
(* its entry in the registry (gateway-rest-registry.ts) with the queue and *)
(* the claimed messages, the HTTP calls that use it                        *)
(* (public/gateway), and what they do to the rows of messages and to the   *)
(* DLR callback the submit handler registers.                              *)
(*                                                                         *)
(* The registry is synchronous; a result call awaits the UPDATE of the row *)
(* before it fires the callback, and the submit handler inserts the row    *)
(* and registers the callback only after the message is queued.  The phone *)
(* may answer late, twice or never.                                        *)
(***************************************************************************)
EXTENDS Integers, SequencesExt

CONSTANTS
    Msgs,           \* messages routed to the gateway
    Results,        \* result calls the phone may make
    MaxQueue,       \* MAX_QUEUE
    MaxAttempts,    \* MAX_ATTEMPTS
    NoMsg,          \* not a message
    MaxRestarts     \* bound: process restarts

ASSUME GatewayAssumption ==
    /\ IsFiniteSet(Msgs) /\ NoMsg \notin Msgs
    /\ MaxQueue \in Nat \ {0}
    /\ MaxAttempts \in Nat \ {0}
    /\ MaxRestarts \in Nat

VARIABLES
    entry,      \* the registry entry: absent, heartbeating, or silent for 90 s
    queue,      \* mtQueue
    inflight,   \* claimed by a poll, not reported
    attempts,   \* attempts of the item, by message
    aged,       \* INFLIGHT_TTL_MS since lastAttempt, or queuedAt if never tried
    submit,     \* where the submit handler is with each message
    row,        \* messages.status
    callback,   \* dlrCallbacks: is one registered?
    told,       \* history: receipts the client was sent, by message
    polls,      \* history: how often the phone was given each message
    result,     \* the result calls
    restarts

entryVars   == <<entry, queue, inflight, attempts, aged>>
messageVars == <<submit, row, callback>>
historyVars == <<told, polls>>
vars == <<entryVars, messageVars, historyVars, result, restarts>>

NoResult == [pc |-> "idle", msg |-> NoMsg, kind |-> "sent"]

Init ==
    /\ entry = "absent"
    /\ queue = <<>> /\ inflight = {}
    /\ attempts = [m \in Msgs |-> 0]
    /\ aged = {}
    /\ submit = [m \in Msgs |-> "new"]
    /\ row = [m \in Msgs |-> "none"]
    /\ callback = [m \in Msgs |-> FALSE]
    /\ told = [m \in Msgs |-> <<>>]
    /\ polls = [m \in Msgs |-> 0]
    /\ result = [r \in Results |-> NoResult]
    /\ restarts = 0

-----------------------------------------------------------------------------
(* Registration *)

\* register, or a heartbeat that finds no entry: an entry keeps its messages.
Heartbeat ==
    /\ entry # "fresh"
    /\ entry' = "fresh"
    /\ UNCHANGED <<queue, inflight, attempts, aged, messageVars,
                   historyVars, result, restarts>>

\* OFFLINE_AFTER_MS without a heartbeat; a poll does not count as one.
Silence ==
    /\ entry = "fresh"
    /\ entry' = "silent"
    /\ UNCHANGED <<queue, inflight, attempts, aged, messageVars,
                   historyVars, result, restarts>>

-----------------------------------------------------------------------------
(* The submit handler *)

\* enqueueRestMt
EnqueueRestMt(m) ==
    /\ submit[m] = "new"
    /\ entry = "fresh" /\ Len(queue) < MaxQueue
    /\ submit' = [submit EXCEPT ![m] = "queued"]
    /\ queue' = Append(queue, m)
    /\ UNCHANGED <<entry, inflight, attempts, aged, row, callback,
                   historyVars, result, restarts>>

\* Offline or full: the next route carries the message.
Refuse(m) ==
    /\ submit[m] = "new"
    /\ entry # "fresh" \/ Len(queue) >= MaxQueue
    /\ submit' = [submit EXCEPT ![m] = "refused"]
    /\ UNCHANGED <<entryVars, row, callback, historyVars, result, restarts>>

InsertRow(m) ==
    /\ submit[m] = "queued"
    /\ submit' = [submit EXCEPT ![m] = "inserted"]
    /\ row' = [row EXCEPT ![m] = "SENT"]
    /\ UNCHANGED <<entryVars, callback, historyVars, result, restarts>>

RegisterDlrCallback(m) ==
    /\ submit[m] = "inserted"
    /\ submit' = [submit EXCEPT ![m] = "done"]
    /\ callback' = [callback EXCEPT ![m] = TRUE]
    /\ UNCHANGED <<entryVars, row, historyVars, result, restarts>>

-----------------------------------------------------------------------------
(* Poll *)

\* dequeueRestMt: up to n messages from the front are claimed.
Poll(n) ==
    /\ entry # "absent"
    /\ n \in 1..Len(queue)
    /\ LET items == Range(SubSeq(queue, 1, n)) IN
       /\ inflight' = inflight \cup items
       /\ polls' = [m \in Msgs |-> IF m \in items THEN polls[m] + 1 ELSE polls[m]]
    /\ queue' = SubSeq(queue, n + 1, Len(queue))
    /\ UNCHANGED <<entry, attempts, aged, messageVars, told, result, restarts>>

-----------------------------------------------------------------------------
(* Result *)

\* Mutant of Exhausted: one attempt too many.
ExhaustedLate(m) == attempts[m] >= MaxAttempts

\* item.attempts += 1; ... item.attempts >= MAX_ATTEMPTS
Exhausted(m) == attempts[m] + 1 >= MaxAttempts

\* unshift, unless it was the last attempt
Failing(m) == IF Exhausted(m) THEN queue ELSE <<m>> \o queue

\* reportRestMtResult and what follows before the first await.  A success is
\* taken even if the message is not claimed (any more).
Report(r, m, success) ==
    /\ result[r].pc = "idle"
    /\ polls[m] > 0
    /\ IF entry # "absent" /\ m \in inflight
         THEN /\ inflight' = inflight \ {m}
              /\ IF success THEN UNCHANGED <<attempts, queue, aged>>
                 ELSE /\ attempts' = [attempts EXCEPT ![m] = @ + 1]
                      /\ queue' = Failing(m)
                      /\ aged' = aged \ {m}
         ELSE UNCHANGED <<inflight, attempts, queue, aged>>
    /\ result' = [result EXCEPT ![r] =
            [pc |-> IF success \/ (entry # "absent" /\ m \in inflight /\ Exhausted(m))
                      THEN "update" ELSE "over",
             msg |-> m, kind |-> IF success THEN "sent" ELSE "failed"]]
    /\ UNCHANGED <<entry, messageVars, told, polls, restarts>>

\* Mutant of Upgrades: no guard on the row's status.
UpgradesAny(m, kind) == row[m] # "none"

\* The WHERE of updateMessage
Upgrades(m, kind) ==
    row[m] # "none" /\ row[m] # (IF kind = "sent" THEN "FAILED" ELSE "DELIVERED")

UpdateMessage(r) ==
    LET m == result[r].msg IN
    /\ result[r].pc = "update"
    /\ row' = IF ~Upgrades(m, result[r].kind) THEN row
              ELSE [row EXCEPT ![m] = IF result[r].kind = "sent" THEN "DELIVERED"
                                      ELSE "FAILED"]
    /\ result' = [result EXCEPT ![r].pc = "callback"]
    /\ UNCHANGED <<entryVars, submit, callback, historyVars, restarts>>

\* Mutant of Consumed: the callback is not deleted.
ConsumedNever(m) == callback

Consumed(m) == [callback EXCEPT ![m] = FALSE]

\* triggerDlrCallback, whatever the UPDATE matched
TriggerDlrCallback(r) ==
    LET m == result[r].msg IN
    /\ result[r].pc = "callback"
    /\ IF callback[m]
         THEN /\ callback' = Consumed(m)
              /\ told' = [told EXCEPT ![m] =
                     Append(@, IF result[r].kind = "sent" THEN "DELIVRD" ELSE "FAILED")]
         ELSE UNCHANGED <<callback, told>>
    /\ result' = [result EXCEPT ![r].pc = "over"]
    /\ UNCHANGED <<entryVars, submit, row, polls, restarts>>

-----------------------------------------------------------------------------
(* Maintenance *)

\* INFLIGHT_TTL_MS pass since the item's last attempt, or since it was queued.
Age(m) ==
    /\ m \in (inflight \cup Range(queue)) \ aged
    /\ aged' = aged \cup {m}
    /\ UNCHANGED <<entry, queue, inflight, attempts, messageVars,
                   historyVars, result, restarts>>

\* Mutant of Expired: nothing claimed ever expires.
ExpiredNever == {}

Expired == inflight \cap aged

\* Mutant of Unclaimed: the requeued items stay claimed.
UnclaimedNever == inflight

Unclaimed == inflight \ Expired

Latest(q) == IF Len(q) > MaxQueue THEN SubSeq(q, Len(q) - MaxQueue + 1, Len(q))
             ELSE q

\* cleanup, for an entry that heartbeats: expired claims go back to the front
\* unless their attempts are used up, and an oversized queue loses its front.
CleanupFresh ==
    /\ entry = "fresh"
    /\ Expired # {} \/ Len(queue) > MaxQueue
    /\ inflight' = Unclaimed
    /\ attempts' = [m \in Msgs |-> IF m \in Expired THEN attempts[m] + 1
                                   ELSE attempts[m]]
    /\ \E back \in SetToSeqs({m \in Expired : ~Exhausted(m)}) :
          queue' = Latest(back \o queue)
    /\ UNCHANGED <<entry, aged, messageVars, historyVars, result, restarts>>

\* ... for a silent one: it goes, with its messages.
CleanupSilent ==
    /\ entry = "silent"
    /\ entry' = "absent"
    /\ queue' = <<>> /\ inflight' = {}
    /\ aged' = {}
    /\ UNCHANGED <<attempts, messageVars, historyVars, result, restarts>>

Restart ==
    /\ restarts < MaxRestarts
    /\ restarts' = restarts + 1
    /\ entry' = "absent"
    /\ queue' = <<>> /\ inflight' = {}
    /\ aged' = {}
    /\ callback' = [m \in Msgs |-> FALSE]
    /\ submit' = [m \in Msgs |-> IF submit[m] \in {"queued", "inserted"}
                                   THEN "aborted" ELSE submit[m]]
    /\ result' = [r \in Results |-> IF result[r].pc \in {"update", "callback"}
                                      THEN [result[r] EXCEPT !.pc = "over"]
                                      ELSE result[r]]
    /\ UNCHANGED <<attempts, row, historyVars>>

-----------------------------------------------------------------------------
SubmitStep(m) ==
    \/ EnqueueRestMt(m) \/ Refuse(m) \/ InsertRow(m) \/ RegisterDlrCallback(m)

Cleanup == CleanupFresh \/ CleanupSilent

Next ==
    \/ Heartbeat \/ Silence
    \/ \E m \in Msgs : SubmitStep(m) \/ Age(m)
    \/ \E n \in 1..Len(queue) : Poll(n)
    \/ \E r \in Results, m \in Msgs, success \in BOOLEAN : Report(r, m, success)
    \/ \E r \in Results : UpdateMessage(r) \/ TriggerDlrCallback(r)
    \/ Cleanup
    \/ Restart

Spec == Init /\ [][Next]_vars

\* The cleanup interval runs as long as the process does.
FairSpec == Spec /\ WF_vars(Cleanup)

-----------------------------------------------------------------------------
\* The registry, the rows and the result calls stay in range: an item's attempts
\* never pass MAX_ATTEMPTS, and a result under way names a message.
TypeOK ==
    /\ entry \in {"absent", "fresh", "silent"}
    /\ queue \in Seq(Msgs) /\ inflight \subseteq Msgs
    /\ attempts \in [Msgs -> 0..MaxAttempts]
    /\ aged \subseteq Msgs
    /\ submit \in [Msgs -> {"new", "queued", "inserted", "done", "refused",
                            "aborted"}]
    /\ row \in [Msgs -> {"none", "SENT", "DELIVERED", "FAILED"}]
    /\ callback \in [Msgs -> BOOLEAN]
    /\ told \in [Msgs -> Seq({"DELIVRD", "FAILED"})]
    /\ polls \in [Msgs -> Nat]
    /\ result \in [Results -> [pc : {"idle", "update", "callback", "over"},
                               msg : Msgs \cup {NoMsg}, kind : {"sent", "failed"}]]
    /\ \A r \in Results : result[r].pc # "idle" => result[r].msg \in Msgs
    /\ restarts \in 0..MaxRestarts

\* However polls, failures, expired claims and re-registrations interleave, a
\* message is in the queue once at most, and not while it is claimed.
ClaimedOnce ==
    /\ \A i, j \in DOMAIN queue : queue[i] = queue[j] => i = j
    /\ Range(queue) \cap inflight = {}

\* The phone is never given a message more often than MAX_ATTEMPTS, and one whose
\* row was marked FAILED is not given to it any more: however polls, expired claims
\* and repeated results follow each other.
TriesEnd ==
    \A m \in Msgs : /\ polls[m] <= MaxAttempts
                    /\ row[m] = "FAILED" => m \notin Range(queue) \cup inflight

\* The client gets one receipt a message at most, although results are repeated.
ToldOnce == \A m \in Msgs : Len(told[m]) <= 1

\* A final row stands: late, repeated and contradicting results leave it alone.
FinalRowStands ==
    [][\A m \in Msgs : row[m] \in {"DELIVERED", "FAILED"} => row'[m] = row[m]]_vars

\* A claim that was never reported does not last: the message returns to the
\* queue or is given up.
ClaimExpires == \A m \in Msgs : m \in inflight /\ m \in aged ~> m \notin inflight

=============================================================================
