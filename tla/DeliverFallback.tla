--------------------------- MODULE DeliverFallback ---------------------------
(***************************************************************************)
(* deliverSmsWithFallback (smpp-client.ts): a message is offered to the    *)
(* routes of its plan in order of priority, up to four times to each, over *)
(* whatever connection the supplier then has; what no route takes is       *)
(* queued for a phone or fails.  SmsLifecycle and HttpSubmit start from    *)
(* the outcome, AndroidGateway from the queue.                             *)
(*                                                                         *)
(* An attempt waits for an answer.  Only a phone's has a timeout: an SMSC  *)
(* or modem whose connection drops leaves the call waiting for ever.  The  *)
(* continuation of an awaited promise is a step of its own.                *)
(***************************************************************************)
EXTENDS Integers, SequencesExt

CONSTANTS
    Messages,
    Plans,          \* sequences of kinds of supplier, by priority
    MaxChanges      \* bound: connections that come and go

\* A supplier we connect to, one that binds to us, and an Android phone, which
\* binds to us or is registered over REST or both
Kinds == {"smsc", "modem", "phone"}
Links == [smsc |-> {"client"}, modem |-> {"smpp"}, phone |-> {"smpp", "rest"}]

ASSUME PlanAssumption == Plans \subseteq Seq(Kinds) /\ MaxChanges \in Nat

VARIABLES
    plan,           \* the routes; each has a supplier of its own
    link,           \* the connections of each route's supplier
    call,           \* each message's call of deliverSmsWithFallback
    pdus,           \* PDUs sent and not yet answered, and answers on their way
    tracked,        \* pendingDeliveries: who is expected to send a receipt
    mtQueue,        \* messages in the queue of server-mt-queue.ts
    taken,          \* history: how often the supplier of a route took a message
    spent,          \* history: attempts made on a route
    late,           \* history: attempts that were given up on
    changes

vars == <<plan, link, call, pdus, tracked, mtQueue, taken, spent, late, changes>>

MaxTries == 4       \* one, and RETRY_DELAYS_MS
Routes == DOMAIN plan
Results == {"none", "ok", "anonymous", "refused", "unbound"}

\* smpp and rest are hasSmpSession and hasRestSession, taken when the route's turn
\* comes and not looked at again.
NewCall == [pc |-> "new", route |-> 0, try |-> 0, smpp |-> FALSE, rest |-> FALSE,
            result |-> "none", outcome |-> "none"]

Init ==
    /\ plan \in Plans
    /\ link \in [Routes -> SUBSET {"client", "smpp", "rest"}]
    /\ \A i \in Routes : link[i] \subseteq Links[plan[i]]
    /\ call = [m \in Messages |-> NewCall]
    /\ pdus = {} /\ tracked = {} /\ mtQueue = {}
    /\ taken = [m \in Messages |-> [i \in Routes |-> 0]]
    /\ spent = [m \in Messages |-> [i \in Routes |-> 0]]
    /\ late = [m \in Messages |-> 0]
    /\ changes = 0

-----------------------------------------------------------------------------
(* Attempts *)

Pdu(m, c, op) == [msg |-> m, route |-> c.route, try |-> c.try, op |-> op,
                  via |-> IF c.smpp THEN "smpp" ELSE "client", answer |-> "none"]

FirstOp(i) == IF plan[i] = "phone" THEN "deliver" ELSE "submit"

\* attemptDelivery, c being the call with its new try: over REST the message is
\* enqueued unless that queue is full; else a PDU is sent, if there is a session.
Attempt(m, c) ==
    LET i    == c.route
        rest == c.rest /\ ~c.smpp
        via  == IF c.smpp THEN "smpp" ELSE "client"
    IN /\ spent' = [spent EXCEPT ![m][i] = @ + 1]
       /\ \/ /\ rest /\ "rest" \in link[i]
             /\ call' = [call EXCEPT ![m] = [c EXCEPT !.pc = "result", !.result = "ok"]]
             /\ taken' = [taken EXCEPT ![m][i] = @ + 1]
             /\ UNCHANGED pdus
          \/ /\ rest \/ via \notin link[i]
             /\ call' = [call EXCEPT ![m] = [c EXCEPT !.pc = "result", !.result = "unbound"]]
             /\ UNCHANGED <<taken, pdus>>
          \/ /\ ~rest /\ via \in link[i]
             /\ call' = [call EXCEPT ![m] = [c EXCEPT !.pc = "wait"]]
             /\ pdus' = pdus \cup {Pdu(m, c, FirstOp(i))}
             /\ UNCHANGED taken

\* The first route from i on whose supplier is connected, if any
Connected(i) == {j \in Routes : j >= i /\ link[j] # {}}
NextRoute(i) == CHOOSE j \in Connected(i) : \A k \in Connected(i) : j <= k

\* No route has taken it: it is queued for the first phone of the plan, unless
\* that queue is full.
GiveUp(m) ==
    /\ UNCHANGED <<pdus, taken, spent>>
    /\ \/ /\ "phone" \in Range(plan)
          /\ mtQueue' = mtQueue \cup {m}
          /\ call' = [call EXCEPT ![m] = [@ EXCEPT !.pc = "over", !.outcome = "queued"]]
       \/ /\ UNCHANGED mtQueue
          /\ call' = [call EXCEPT ![m] = [@ EXCEPT !.pc = "over", !.outcome = "failed"]]

\* tryNextRoute(i): routes of suppliers that are not connected are passed over.
TryFrom(m, i) ==
    IF Connected(i) = {} THEN GiveUp(m)
    ELSE LET j == NextRoute(i) IN
         /\ Attempt(m, [NewCall EXCEPT !.route = j, !.try = 1,
                            !.smpp = "smpp" \in link[j], !.rest = "rest" \in link[j]])
         /\ UNCHANGED mtQueue

Deliver(m) ==
    /\ call[m].pc = "new"
    /\ TryFrom(m, 1)
    /\ UNCHANGED <<plan, link, tracked, late, changes>>

Succeeded(result) == result \in {"ok", "anonymous"}

\* Mutants of TriesAgain: a success is retried too; a route has one try more.
TriesAgainAnyway(c) == c.try < MaxTries
TriesAgainOnce(c) == ~Succeeded(c.result) /\ c.try <= MaxTries

\* retryable is settled by the first try: only a supplier we connect to, and that
\* says it is not bound, is not tried again.
TriesAgain(c) ==
    /\ ~Succeeded(c.result)
    /\ c.try < MaxTries
    /\ c.try > 1 \/ c.smpp \/ c.rest \/ c.result # "unbound"

\* pendingDeliveries.set, if the answer had an id
Tracking(m, c) ==
    IF c.result = "ok" THEN tracked \cup {[msg |-> m, route |-> c.route]} ELSE tracked

\* The attempt is over.
Resume(m) ==
    LET c == call[m] IN
    /\ c.pc = "result"
    /\ CASE TriesAgain(c) ->
              /\ call' = [call EXCEPT ![m].pc = "pause"]
              /\ UNCHANGED <<pdus, tracked, mtQueue, taken, spent>>
         [] ~TriesAgain(c) /\ Succeeded(c.result) ->
              /\ call' = [call EXCEPT ![m].pc = "over", ![m].outcome = "sent"]
              /\ tracked' = Tracking(m, c)
              /\ UNCHANGED <<pdus, mtQueue, taken, spent>>
         [] OTHER ->
              /\ TryFrom(m, c.route + 1)
              /\ UNCHANGED tracked
    /\ UNCHANGED <<plan, link, late, changes>>

\* One, three or seven seconds later
BackoffEnds(m) ==
    /\ call[m].pc = "pause"
    /\ Attempt(m, [call[m] EXCEPT !.try = @ + 1])
    /\ UNCHANGED <<plan, link, tracked, mtQueue, late, changes>>

-----------------------------------------------------------------------------
(* Suppliers and their connections *)

\* The supplier takes the message and says so, an SMSC with or without an id.
Takes(p, result) ==
    /\ p \in pdus /\ p.answer = "none"
    /\ result = "anonymous" => plan[p.route] = "smsc"
    /\ pdus' = (pdus \ {p}) \cup {[p EXCEPT !.answer = result]}
    /\ taken' = [taken EXCEPT ![p.msg][p.route] = @ + 1]
    /\ UNCHANGED <<plan, link, call, tracked, mtQueue, spent, late, changes>>

\* ... or refuses it; "unbound" is command_status 14.
Refuses(p, result) ==
    /\ p \in pdus /\ p.answer = "none"
    /\ pdus' = (pdus \ {p}) \cup {[p EXCEPT !.answer = result]}
    /\ UNCHANGED <<plan, link, call, tracked, mtQueue, taken, spent, late, changes>>

\* The call that waits for the answer to p
Awaits(m, p) ==
    /\ p.msg = m /\ call[m].pc = "wait"
    /\ p.route = call[m].route /\ p.try = call[m].try

\* Mutant of FallsBack: the modem is sent a DELIVER_SM whatever it answered.
FallsBackAnyway(p) == p.via = "smpp" /\ p.op = "submit"

\* A modem that refuses a SUBMIT_SM is sent a DELIVER_SM.
FallsBack(p) == p.via = "smpp" /\ p.op = "submit" /\ ~Succeeded(p.answer)

\* The answer arrives; a late one finds its promise settled.
Answered(p) ==
    /\ p \in pdus /\ p.answer # "none"
    /\ IF ~Awaits(p.msg, p) THEN pdus' = pdus \ {p} /\ UNCHANGED call
       ELSE IF FallsBack(p)
       THEN /\ pdus' = (pdus \ {p}) \cup {[p EXCEPT !.op = "deliver", !.answer = "none"]}
            /\ UNCHANGED call
       ELSE /\ pdus' = pdus \ {p}
            /\ call' = [call EXCEPT ![p.msg].pc = "result", ![p.msg].result = p.answer]
    /\ UNCHANGED <<plan, link, tracked, mtQueue, taken, spent, late, changes>>

\* Mutant of TimesOut: no answer has a timeout.
TimesOutNever(i) == FALSE
TimesOut(i) == plan[i] = "phone"

\* Thirty seconds without an answer from a phone
TimeoutFires(m) ==
    /\ call[m].pc = "wait" /\ TimesOut(call[m].route)
    /\ call' = [call EXCEPT ![m].pc = "result", ![m].result = "refused"]
    /\ late' = [late EXCEPT ![m] = @ + 1]
    /\ UNCHANGED <<plan, link, pdus, tracked, mtQueue, taken, spent, changes>>

\* A connection is lost with what is on it: nothing tells the calls that wait.
Drop(i, l) ==
    /\ changes < MaxChanges
    /\ l \in link[i]
    /\ changes' = changes + 1
    /\ link' = [link EXCEPT ![i] = @ \ {l}]
    /\ pdus' = {p \in pdus : ~(p.route = i /\ p.via = l)}
    /\ UNCHANGED <<plan, call, tracked, mtQueue, taken, spent, late>>

Connect(i, l) ==
    /\ changes < MaxChanges
    /\ l \in Links[plan[i]] \ link[i]
    /\ changes' = changes + 1
    /\ link' = [link EXCEPT ![i] = @ \cup {l}]
    /\ UNCHANGED <<plan, call, pdus, tracked, mtQueue, taken, spent, late>>

-----------------------------------------------------------------------------
CallStep(m) == Resume(m) \/ BackoffEnds(m) \/ TimeoutFires(m)

Next ==
    \/ \E m \in Messages : Deliver(m) \/ CallStep(m)
    \/ \E p \in pdus :
          \/ \E r \in {"ok", "anonymous"} : Takes(p, r)
          \/ \E r \in {"refused", "unbound"} : Refuses(p, r)
          \/ Answered(p)
    \/ \E i \in Routes, l \in {"client", "smpp", "rest"} : Drop(i, l) \/ Connect(i, l)

Spec == Init /\ [][Next]_vars

\* Timers fire and promises continue; no supplier has to answer.
FairSpec == Spec /\ \A m \in Messages : WF_vars(CallStep(m))

-----------------------------------------------------------------------------
(* Properties *)

CallType == [pc : {"new", "wait", "result", "pause", "over"}, route : Routes \cup {0},
             try : 0..MaxTries, smpp : BOOLEAN, rest : BOOLEAN, result : Results,
             outcome : {"none", "sent", "queued", "failed"}]

PduType == [msg : Messages, route : Routes, try : 1..MaxTries,
            op : {"submit", "deliver"}, via : {"client", "smpp"}, answer : Results]

\* Calls, PDUs, connections and tracked deliveries stay in range.
TypeOK ==
    /\ plan \in Plans
    /\ link \in [Routes -> SUBSET {"client", "smpp", "rest"}]
    /\ \A i \in Routes : link[i] \subseteq Links[plan[i]]
    /\ call \in [Messages -> CallType]
    /\ pdus \subseteq PduType
    /\ tracked \subseteq [msg : Messages, route : Routes]
    /\ mtQueue \subseteq Messages
    /\ taken \in [Messages -> [Routes -> Nat]]
    /\ spent \in [Messages -> [Routes -> 0..MaxTries]]
    /\ late \in [Messages -> Nat]
    /\ changes \in 0..MaxChanges

Total(row) ==
    LET sum[i \in 0..Len(row)] == IF i = 0 THEN 0 ELSE sum[i - 1] + row[i]
    IN  sum[Len(row)]

\* How often the suppliers of the plan took the message
TotalTaken(m) == Total(taken[m])

\* No message is sent twice, over retries, fallback from SUBMIT_SM to DELIVER_SM and
\* from route to route, but for attempts a phone did not answer in time: each of
\* these it may have taken all the same.
TakenOnce == \A m \in Messages : TotalTaken(m) <= 1 + late[m]

\* What the call reports is true.  A message that failed, or is queued to be sent
\* again, was taken by nobody, but for those attempts; one that was sent was taken by
\* the supplier of the route it names, and that supplier's receipt will be
\* recognised, unless an SMSC gave no id.
OutcomeTrue ==
    \A m \in Messages :
        /\ call[m].outcome \in {"failed", "queued"} => TotalTaken(m) <= late[m]
        /\ call[m].outcome = "sent" =>
              /\ taken[m][call[m].route] > 0
              /\ call[m].result = "ok" => [msg |-> m, route |-> call[m].route] \in tracked

\* A lower route is used only when the higher ones had their four attempts, or were
\* not connected when their turn came; an SMSC may also end its turn at the first
\* by answering that it is not bound.
PriorityKept ==
    \A m \in Messages, i \in Routes :
        (i < call[m].route \/ call[m].outcome \in {"failed", "queued"}) =>
            spent[m][i] \in {0, MaxTries} \cup (IF plan[i] = "smsc" THEN {1} ELSE {})

\* Every call ends, or waits for an SMSC or a modem (which may be for ever).
Concludes ==
    \A m \in Messages :
        []<>(\/ call[m].pc \in {"new", "over"}
             \/ call[m].pc = "wait" /\ plan[call[m].route] # "phone")

=============================================================================
