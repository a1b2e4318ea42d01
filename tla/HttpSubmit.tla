------------------------------ MODULE HttpSubmit ------------------------------
(***************************************************************************)
(* A message submitted over HTTP (tenant/send-sms): the guard against      *)
(* repeated requests (sms-dedupe.ts), delivery, the row, the charge at     *)
(* submit and the forced outcomes; and for CUSTOM_API suppliers the        *)
(* poller that asks for the outcome (dlr-poller.ts).                       *)
(*                                                                         *)
(* The client repeats a request when it likes.  Poll passes start every    *)
(* five seconds whether or not the last one has ended: each works through  *)
(* the rows it selected and writes without testing them again.             *)
(***************************************************************************)
EXTENDS Integers

CONSTANTS
    Requests,       \* HTTP calls; each makes at most one row
    Keys,           \* contents a request may have, as the guard's hash tells them
    KeyOf,          \* the content of each request
    Passes,         \* poll passes that may be under way at once
    Routes,         \* connection types of the first route
    ClientModes, SupplierModes,
    NoRequest,      \* not a request
    Loads,          \* bound: the requests and passes that may happen together
    MaxWindows,     \* bound: dedupe windows that end
    MaxFaults       \* bound: statements that fail, and restarts

ForceModes  == {"force_dlr", "force_dlr_timeout"}
ChargeModes == {"on_submit", "on_dlr"} \cup ForceModes
RouteTypes  == {"smpp", "custom", "business", "voice"}
Answers     == {"PENDING", "DELIVERED", "FAILED", "UNKNOWN"}

ASSUME HttpAssumption ==
    /\ NoRequest \notin Requests
    /\ KeyOf \in [Requests -> Keys]
    /\ Routes \subseteq RouteTypes
    /\ ClientModes \subseteq ChargeModes /\ SupplierModes \subseteq ChargeModes
    /\ Loads \subseteq [requests : SUBSET Requests, passes : SUBSET Passes]
    /\ MaxWindows \in Nat /\ MaxFaults \in Nat

VARIABLES
    load,           \* one of Loads
    clientMode, supplierMode, route,
    connector,      \* is a connector configured, and has it a DLR URL?
    seen,           \* the markers of sms-dedupe.ts
    window,         \* how many windows of each content have ended
    request,        \* where each request is, its window and its outcome
    status, dlr,    \* columns status and dlr_status
    cost, supplierCost,           \* columns; rates are 1
    counted,        \* increments of tenants.sms_counter, by message they bill
    timer,          \* the force_dlr_timeout timer
    timedOut,       \* rows older than dlr_timeout_seconds
    recent,         \* rows polled less than dlr_poll_seconds ago
    aged,           \* rows made more than two hours ago
    behind,         \* rows that older ones, still SENT, keep out of the SELECT's LIMIT
    pass,           \* the calls of pollCustomApiDlrs
    faults

configVars == <<load, clientMode, supplierMode, route, connector>>
dedupeVars == <<seen, window>>
rowVars    == <<status, dlr, cost, supplierCost>>
clockVars  == <<timedOut, recent, aged, behind>>
vars == <<configVars, dedupeVars, request, rowVars, counted, timer, clockVars,
          pass, faults>>

NewRequest == [pc |-> "new", window |-> 0, outcome |-> "none"]
NoTimer    == [pc |-> "none", cost |-> 0, supplierCost |-> 0]
NoPass     == [pc |-> "idle", todo |-> {}, due |-> {}, msg |-> NoRequest,
               answer |-> "PENDING", deferred |-> FALSE, unpriced |-> FALSE]

IsDlrCharged(mode)    == mode = "on_dlr"
IsSubmitCharged(mode) == mode # "on_dlr"

Init ==
    /\ load \in Loads
    /\ clientMode \in ClientModes /\ supplierMode \in SupplierModes
    /\ route \in Routes
    /\ connector \in IF route = "custom" THEN {"none", "noUrl", "url"} ELSE {"none"}
    /\ seen = {} /\ window = [k \in Keys |-> 0]
    /\ request = [r \in Requests |-> NewRequest]
    /\ status = [r \in Requests |-> "none"]
    /\ dlr = [r \in Requests |-> "none"]
    /\ cost = [r \in Requests |-> 0]
    /\ supplierCost = [r \in Requests |-> 0]
    /\ counted = [r \in Requests |-> 0]
    /\ timer = [r \in Requests |-> NoTimer]
    /\ timedOut = {} /\ recent = {} /\ aged = {}
    /\ behind \in SUBSET (IF route = "custom" /\ load.passes # {} THEN load.requests ELSE {})
    /\ pass = [p \in Passes |-> NoPass]
    /\ faults = 0

-----------------------------------------------------------------------------
(* The guard against repeated requests *)

\* isDuplicateSmsSubmission for a request that passed validation: a repeat is
\* answered at once, the first is marked.  Both are one synchronous step.
Submit(r) ==
    /\ r \in load.requests
    /\ request[r].pc = "new"
    /\ LET k == KeyOf[r] IN
       /\ seen' = seen \cup {k}
       /\ request' = [request EXCEPT ![r] =
              [pc |-> IF k \in seen THEN "duplicate" ELSE "send",
               window |-> window[k], outcome |-> "none"]]
    /\ UNCHANGED <<configVars, window, rowVars, counted, timer, clockVars, pass,
                   faults>>

\* DEDUPE_WINDOW_MS have passed since the marker was set.
WindowEnds(k) ==
    /\ k \in seen
    /\ window[k] < MaxWindows
    /\ seen' = seen \ {k}
    /\ window' = [window EXCEPT ![k] = @ + 1]
    /\ UNCHANGED <<configVars, request, rowVars, counted, timer, clockVars, pass,
                   faults>>

-----------------------------------------------------------------------------
(* Delivery, row and charge *)

\* What delivery may report.  A CUSTOM_API supplier without a connector sends
\* nothing and leaves the message SENT.  "unread": the supplier has taken the
\* message, but reading its id from the answer throws.  "refused" is a Voice OTP
\* call that is answered with an error and leaves no row.
Outcomes ==
    CASE route = "smpp"     -> {"SENT", "FAILED", "QUEUED"}
      [] route = "custom"   -> IF connector = "none" THEN {"SENT"}
                               ELSE {"SENT", "FAILED", "unread"}
      [] route = "business" -> {"DELIVERED", "FAILED", "REJECTED"}
      [] route = "voice"    -> {"DELIVERED", "FAILED", "refused"}

\* finalSuccess.  customApiSuccess stands although the row is stored FAILED.
Succeeded(outcome) == outcome \in {"SENT", "DELIVERED", "unread"}

\* releaseSmsSubmission removes the marker of the content, whoever set it.
\* Mutants of Released: it is called for every send, the successful ones too;
\* a failed send keeps its marker.
ReleasedAlways(r, outcome) == seen \ {KeyOf[r]}
ReleasedNever(r, outcome) == seen
Released(r, outcome) == IF Succeeded(outcome) THEN seen ELSE seen \ {KeyOf[r]}

Deliver(r, outcome) ==
    /\ request[r].pc = "send"
    /\ request' = [request EXCEPT ![r].outcome = outcome,
                      ![r].pc = IF outcome = "refused" THEN "done" ELSE "insert"]
    /\ seen' = IF outcome = "refused" THEN Released(r, outcome) ELSE seen
    /\ UNCHANGED <<configVars, window, rowVars, counted, timer, clockVars, pass,
                   faults>>

\* A Business API send has no receipt and is charged at submit in every mode.
ChargedAtSubmit(outcome) ==
    \/ IsSubmitCharged(clientMode)
    \/ route = "business" /\ outcome = "DELIVERED"

\* finalCost and supplierCost of the INSERT
\* Mutant of InsertCost: a failed send is priced like the others.
InsertCostAnyway(outcome) == IF ChargedAtSubmit(outcome) THEN 1 ELSE 0
InsertCost(outcome) ==
    IF Succeeded(outcome) /\ ChargedAtSubmit(outcome) THEN 1 ELSE 0

\* status and dlr_status of the INSERT.  A rejected number is stored with
\* dlr_status FAILED, an answer that could not be read with both columns FAILED.
InsertStatus(outcome) == IF outcome = "unread" THEN "FAILED" ELSE outcome
InsertDlr(outcome) == IF outcome \in {"REJECTED", "unread"} THEN "FAILED" ELSE outcome

Forcing == {clientMode, supplierMode} \cap ForceModes # {}

\* Where the handler goes when the counter is done with
AfterCount(outcome) == IF outcome = "SENT" /\ Forcing THEN "force" ELSE "done"

\* The INSERT, and the release that follows it without another await
Insert(r) ==
    /\ request[r].pc = "insert"
    /\ LET o == request[r].outcome IN
       /\ status' = [status EXCEPT ![r] = InsertStatus(o)]
       /\ dlr' = [dlr EXCEPT ![r] = InsertDlr(o)]
       /\ cost' = [cost EXCEPT ![r] = InsertCost(o)]
       /\ supplierCost' = [supplierCost EXCEPT ![r] = InsertCost(o)]
       /\ seen' = Released(r, o)
       /\ request' = [request EXCEPT ![r].pc =
              IF ChargedAtSubmit(o) THEN "count" ELSE AfterCount(o)]
    /\ UNCHANGED <<configVars, window, counted, timer, clockVars, pass, faults>>

\* The counter is charged whether or not the send succeeded.
Count(r) ==
    /\ request[r].pc = "count"
    /\ counted' = [counted EXCEPT ![r] = @ + 1]
    /\ request' = [request EXCEPT ![r].pc = AfterCount(request[r].outcome)]
    /\ UNCHANGED <<configVars, dedupeVars, rowVars, timer, clockVars, pass, faults>>

-----------------------------------------------------------------------------
(* Forced outcomes *)

\* Mutant of ForcedCharge: the client pays in every mode.
ForcedChargeAny == TRUE
ForcedCharge == IsDlrCharged(clientMode)

PaysSupplier == supplierMode \in ForceModes

AfterForced == IF PaysSupplier THEN "forceCost" ELSE "done"

\* force_dlr writes the outcome at once; otherwise the timer is set.
ForceNow(r) ==
    /\ request[r].pc = "force"
    /\ IF "force_dlr" \in {clientMode, supplierMode}
       THEN /\ status' = [status EXCEPT ![r] = "DELIVERED"]
            /\ dlr' = [dlr EXCEPT ![r] = "DELIVERED"]
            /\ request' = [request EXCEPT ![r].pc =
                   IF ForcedCharge THEN "forceCount" ELSE AfterForced]
            /\ UNCHANGED timer
       ELSE /\ timer' = [timer EXCEPT ![r].pc = "set"]
            /\ request' = [request EXCEPT ![r].pc = "done"]
            /\ UNCHANGED <<status, dlr>>
    /\ UNCHANGED <<configVars, dedupeVars, cost, supplierCost, counted, clockVars,
                   pass, faults>>

ForceCount(r) ==
    /\ request[r].pc = "forceCount"
    /\ counted' = [counted EXCEPT ![r] = @ + 1]
    /\ request' = [request EXCEPT ![r].pc = AfterForced]
    /\ UNCHANGED <<configVars, dedupeVars, rowVars, timer, clockVars, pass, faults>>

ForceCost(r) ==
    /\ request[r].pc = "forceCost"
    /\ supplierCost' = [supplierCost EXCEPT ![r] = 1]
    /\ request' = [request EXCEPT ![r].pc = "done"]
    /\ UNCHANGED <<configVars, dedupeVars, status, dlr, cost, counted, timer,
                   clockVars, pass, faults>>

\* The timer fires, reads the row, and gives up unless the row still waits.
TimerRead(r) ==
    /\ timer[r].pc = "set"
    /\ timer' = [timer EXCEPT ![r] =
           IF dlr[r] # "SENT" THEN NoTimer
           ELSE [pc |-> IF ForcedCharge /\ cost[r] = 0 THEN "count" ELSE "write",
                 cost |-> IF ForcedCharge THEN 1 ELSE cost[r],
                 supplierCost |-> IF PaysSupplier THEN 1 ELSE supplierCost[r]]]
    /\ UNCHANGED <<configVars, dedupeVars, request, rowVars, counted, clockVars,
                   pass, faults>>

TimerCount(r) ==
    /\ timer[r].pc = "count"
    /\ counted' = [counted EXCEPT ![r] = @ + 1]
    /\ timer' = [timer EXCEPT ![r].pc = "write"]
    /\ UNCHANGED <<configVars, dedupeVars, request, rowVars, clockVars, pass, faults>>

\* The UPDATE names the message only: what happened since the read is overwritten.
TimerWrite(r) ==
    /\ timer[r].pc = "write"
    /\ status' = [status EXCEPT ![r] = "DELIVERED"]
    /\ dlr' = [dlr EXCEPT ![r] = "DELIVERED"]
    /\ cost' = [cost EXCEPT ![r] = timer[r].cost]
    /\ supplierCost' = [supplierCost EXCEPT ![r] = timer[r].supplierCost]
    /\ timer' = [timer EXCEPT ![r] = NoTimer]
    /\ UNCHANGED <<configVars, dedupeVars, request, counted, clockVars, pass, faults>>

-----------------------------------------------------------------------------
(* The poller *)

\* The rows that wait for the poller, and those its query returns: of the last
\* two hours, the hundred oldest.
Waiting == {r \in Requests : route = "custom" /\ dlr[r] = "SENT"}
Candidates == Waiting \ (aged \cup behind)

\* Time passes for a row that waits: it is too old, it is due again, it leaves
\* the two hours (after every older row has left them, and long after its request
\* has ended).  Only the poller reads
\* the clock: it stands still where no pass runs.
TimesOut(r) ==
    /\ load.passes # {}
    /\ r \in Waiting \ timedOut
    /\ timedOut' = timedOut \cup {r}
    /\ UNCHANGED <<configVars, dedupeVars, request, rowVars, counted, timer, recent,
                   aged, behind, pass, faults>>

Due(r) ==
    /\ r \in Waiting \cap recent
    /\ recent' = recent \ {r}
    /\ UNCHANGED <<configVars, dedupeVars, request, rowVars, counted, timer, timedOut,
                   aged, behind, pass, faults>>

Ages(r) ==
    /\ load.passes # {}
    /\ r \in Candidates /\ request[r].pc \in {"done", "errored"}
    /\ aged' = aged \cup {r}
    /\ UNCHANGED <<configVars, dedupeVars, request, rowVars, counted, timer, timedOut,
                   recent, behind, pass, faults>>

\* The older rows get an outcome or leave the two hours.
Advances(r) ==
    /\ r \in behind
    /\ behind' = behind \ {r}
    /\ UNCHANGED <<configVars, dedupeVars, request, rowVars, counted, timer, timedOut,
                   recent, aged, pass, faults>>

\* A pass selects its rows, with the time of their last poll.
PollSelect(p) ==
    /\ p \in load.passes
    /\ pass[p].pc = "idle"
    /\ Candidates # {}
    /\ pass' = [pass EXCEPT ![p].pc = "next", ![p].todo = Candidates,
                            ![p].due = Candidates \ recent]
    /\ UNCHANGED <<configVars, dedupeVars, request, rowVars, counted, timer, clockVars,
                   faults>>

\* The pass is done with r.
Finished(p, r) ==
    LET rest == pass[p].todo \ {r}
    IN IF rest = {} THEN NoPass
       ELSE [NoPass EXCEPT !.pc = "next", !.todo = rest, !.due = pass[p].due \ {r}]

\* No connector, or polled too recently when the pass selected the row
PollSkip(p, r) ==
    /\ pass[p].pc = "next" /\ r \in pass[p].todo
    /\ connector = "none" \/ r \notin pass[p].due
    /\ pass' = [pass EXCEPT ![p] = Finished(p, r)]
    /\ UNCHANGED <<configVars, dedupeVars, request, rowVars, counted, timer, clockVars,
                   faults>>

\* Mutant of Overdue: the age is never tested.
OverdueNever(r) == FALSE
Overdue(r) == r \in timedOut

\* The message is too old: it fails, whatever its row says by now.
PollTimeout(p, r) ==
    /\ pass[p].pc = "next" /\ r \in pass[p].todo
    /\ connector # "none" /\ Overdue(r)
    /\ dlr' = [dlr EXCEPT ![r] = "FAILED"]
    /\ recent' = recent \cup {r}
    /\ pass' = [pass EXCEPT ![p] = Finished(p, r)]
    /\ UNCHANGED <<configVars, dedupeVars, request, status, cost, supplierCost,
                   counted, timer, timedOut, aged, behind, faults>>

\* Without a DLR URL only the time of the poll is noted: the test that would
\* deliver the message is the one that has failed it just before.
PollNoUrl(p, r) ==
    /\ pass[p].pc = "next" /\ r \in pass[p].todo
    /\ connector = "noUrl" /\ ~Overdue(r)
    /\ recent' = recent \cup {r}
    /\ pass' = [pass EXCEPT ![p] = Finished(p, r)]
    /\ UNCHANGED <<configVars, dedupeVars, request, rowVars, counted, timer, timedOut,
                   aged, behind, faults>>

PollFetch(p, r) ==
    /\ pass[p].pc = "next" /\ r \in pass[p].todo
    /\ connector = "url" /\ ~Overdue(r)
    /\ pass' = [pass EXCEPT ![p].pc = "fetch", ![p].msg = r]
    /\ UNCHANGED <<configVars, dedupeVars, request, rowVars, counted, timer, clockVars,
                   faults>>

\* The supplier answers.
PollAnswer(p, a) ==
    /\ pass[p].pc = "fetch"
    /\ recent' = recent \cup {pass[p].msg}
    /\ pass' = [pass EXCEPT ![p] =
           IF a = "PENDING" THEN Finished(p, pass[p].msg)
           ELSE [pass[p] EXCEPT !.pc = "read", !.answer = a]]
    /\ UNCHANGED <<configVars, dedupeVars, request, rowVars, counted, timer, timedOut,
                   aged, behind, faults>>

\* The costs and the modes are read: is a side's cost left for the receipt?
PollRead(p) ==
    /\ pass[p].pc = "read"
    /\ LET r == pass[p].msg IN
       pass' = [pass EXCEPT ![p].pc = "write",
                    ![p].deferred = IsDlrCharged(clientMode) /\ cost[r] = 0,
                    ![p].unpriced = IsDlrCharged(supplierMode) /\ supplierCost[r] = 0]
    /\ UNCHANGED <<configVars, dedupeVars, request, rowVars, counted, timer, clockVars,
                   faults>>

\* Mutant of PolledStatus: a failure is written to the status too.
PolledStatusBoth(r, a) == a
PolledStatus(r, a) == IF a = "DELIVERED" THEN "DELIVERED" ELSE status[r]

\* A delivery that is to be priced is never written: the text of that UPDATE, and
\* of the one that replaces it, does not mention $2, and PostgreSQL refuses a
\* statement with a parameter whose type it cannot tell.
NeedsCostUpdate(p) ==
    pass[p].answer = "DELIVERED" /\ (pass[p].deferred \/ pass[p].unpriced)

PollWrite(p) ==
    /\ pass[p].pc = "write"
    /\ LET r == pass[p].msg
           a == pass[p].answer
       IN IF NeedsCostUpdate(p)
          THEN /\ pass' = [pass EXCEPT ![p] = Finished(p, r)]
               /\ UNCHANGED <<status, dlr>>
          ELSE /\ dlr' = [dlr EXCEPT ![r] = a]
               /\ status' = [status EXCEPT ![r] = PolledStatus(r, a)]
               /\ pass' = [pass EXCEPT ![p] =
                      IF pass[p].deferred THEN [pass[p] EXCEPT !.pc = "count"]
                      ELSE Finished(p, r)]
    /\ UNCHANGED <<configVars, dedupeVars, request, cost, supplierCost, counted, timer,
                   clockVars, faults>>

\* The client of a message whose cost was deferred is counted, whatever the
\* outcome.
PollCount(p) ==
    /\ pass[p].pc = "count"
    /\ counted' = [counted EXCEPT ![pass[p].msg] = @ + 1]
    /\ pass' = [pass EXCEPT ![p] = Finished(p, pass[p].msg)]
    /\ UNCHANGED <<configVars, dedupeVars, request, rowVars, timer, clockVars, faults>>

-----------------------------------------------------------------------------
(* Faults and restart *)

\* A statement of the handler fails: the request ends with an error and keeps
\* its marker.  The supplier's forced cost is best effort.
RequestFault(r) ==
    /\ request[r].pc \in {"insert", "count", "force", "forceCount", "forceCost"}
    /\ request' = [request EXCEPT ![r].pc =
           IF request[r].pc = "forceCost" THEN "done" ELSE "errored"]
    /\ UNCHANGED <<timer, pass>>

TimerFault(r) ==
    /\ timer[r].pc # "none"
    /\ timer' = [timer EXCEPT ![r] = NoTimer]
    /\ UNCHANGED <<request, pass>>

\* The fetch or a statement of a poll fails: the message is left to a later pass.
PollFault(p) ==
    /\ pass[p].pc \in {"fetch", "write", "count"}
    /\ pass' = [pass EXCEPT ![p] = Finished(p, pass[p].msg)]
    /\ UNCHANGED <<request, timer>>

\* The lookups that decide whether a side's cost is left fail, one or more of
\* them: the cost keeps its default 0, the mode its default, charged at submit.
PollMisread(p) ==
    /\ pass[p].pc = "read"
    /\ \E deferred \in {FALSE, IsDlrCharged(clientMode)},
          unpriced \in {FALSE, IsDlrCharged(supplierMode)} :
          pass' = [pass EXCEPT ![p].pc = "write", ![p].deferred = deferred,
                               ![p].unpriced = unpriced]
    /\ UNCHANGED <<request, timer>>

Fault ==
    /\ faults < MaxFaults
    /\ faults' = faults + 1
    /\ \/ \E r \in Requests : RequestFault(r) \/ TimerFault(r)
       \/ \E p \in Passes : PollFault(p) \/ PollMisread(p)
    /\ UNCHANGED <<configVars, dedupeVars, rowVars, counted, clockVars>>

\* Markers, timers, requests and passes are in memory.
Restart ==
    /\ faults < MaxFaults
    /\ faults' = faults + 1
    /\ seen' = {}
    /\ window' = [k \in Keys |-> window[k] + 1]
    /\ request' = [r \in Requests |->
           IF request[r].pc \in {"new", "duplicate", "done"} THEN request[r]
           ELSE [request[r] EXCEPT !.pc = "errored"]]
    /\ timer' = [r \in Requests |-> NoTimer]
    /\ pass' = [p \in Passes |-> NoPass]
    /\ UNCHANGED <<configVars, rowVars, counted, clockVars>>

-----------------------------------------------------------------------------
RequestStep(r) ==
    \/ \E o \in Outcomes : Deliver(r, o)
    \/ Insert(r) \/ Count(r) \/ ForceNow(r) \/ ForceCount(r) \/ ForceCost(r)

TimerStep(r) == TimerRead(r) \/ TimerCount(r) \/ TimerWrite(r)

ClockStep(r) == TimesOut(r) \/ Due(r) \/ Ages(r) \/ Advances(r)

PollMessage(p, r) ==
    PollSkip(p, r) \/ PollTimeout(p, r) \/ PollNoUrl(p, r) \/ PollFetch(p, r)

PollStep(p) ==
    \/ PollSelect(p)
    \/ \E r \in Requests : PollMessage(p, r)
    \/ \E a \in Answers : PollAnswer(p, a)
    \/ PollRead(p) \/ PollWrite(p) \/ PollCount(p)

Next ==
    \/ \E r \in Requests : Submit(r) \/ RequestStep(r) \/ TimerStep(r)
                           \/ ClockStep(r)
    \/ \E k \in Keys : WindowEnds(k)
    \/ \E p \in Passes : PollStep(p)
    \/ Fault \/ Restart

Spec == Init /\ [][Next]_vars

\* The poll interval runs as long as the process does, a pass goes on to its
\* next row (a fetch is aborted after 15 seconds), time passes, and the older rows
\* before one get an outcome or leave the two hours.  That a row leaves them itself
\* (Ages) is not fair.
FairSpec ==
    /\ Spec
    /\ \A r \in Requests : WF_vars(TimesOut(r)) /\ WF_vars(Due(r)) /\ WF_vars(Advances(r))
    /\ \A p \in Passes : WF_vars(PollStep(p))

-----------------------------------------------------------------------------
(* Properties *)

RequestPCs == {"new", "duplicate", "send", "insert", "count", "force",
               "forceCount", "forceCost", "done", "errored"}
Statuses   == {"SENT", "DELIVERED", "FAILED", "REJECTED", "QUEUED"}
DlrValues  == {"none", "SENT", "DELIVERED", "FAILED", "QUEUED", "UNKNOWN"}

ConfigTypes ==
    /\ load \in Loads
    /\ clientMode \in ClientModes /\ supplierMode \in SupplierModes
    /\ route \in Routes /\ connector \in {"none", "noUrl", "url"}

RequestTypes ==
    /\ seen \subseteq Keys /\ window \in [Keys -> Nat]
    /\ request \in [Requests -> [pc : RequestPCs, window : Nat,
                                 outcome : Statuses \cup {"none", "refused", "unread"}]]
    /\ \A r \in Requests : request[r].pc = "insert" =>
                               request[r].outcome \in Statuses \cup {"unread"}

RowTypes ==
    /\ status \in [Requests -> Statuses \cup {"none"}]
    /\ dlr \in [Requests -> DlrValues]
    /\ cost \in [Requests -> 0..1] /\ supplierCost \in [Requests -> 0..1]

TimerTypes ==
    timer \in [Requests -> [pc : {"none", "set", "count", "write"},
                            cost : 0..1, supplierCost : 0..1]]

PassTypes ==
    /\ pass \in [Passes ->
           [pc : {"idle", "next", "fetch", "read", "write", "count"},
            todo : SUBSET Requests, due : SUBSET Requests,
            msg : Requests \cup {NoRequest}, answer : Answers,
            deferred : BOOLEAN, unpriced : BOOLEAN]]
    /\ \A p \in Passes :
          /\ pass[p].pc \in {"fetch", "read", "write", "count"} => pass[p].msg \in Requests
          /\ pass[p].pc \in {"read", "write", "count"} => pass[p].answer # "PENDING"

\* The state of send-sms, of its timers and of the poller stays in range: a
\* request is inserted with an outcome, and a poll that writes has an answer.
TypeOK ==
    /\ ConfigTypes /\ RequestTypes /\ RowTypes /\ TimerTypes /\ PassTypes
    /\ counted \in [Requests -> Nat]
    /\ timedOut \subseteq Requests /\ recent \subseteq Requests
    /\ aged \subseteq Requests /\ behind \subseteq Requests
    /\ faults \in 0..MaxFaults

\* A request that entitles its content to a marker: admitted in the window that
\* runs, and still on its way to a row (or dead before it made one), or sent.
Entitled(r) ==
    /\ request[r].window = window[KeyOf[r]]
    /\ \/ request[r].pc \in {"send", "insert", "errored"} /\ status[r] = "none"
       \/ request[r].pc \notin {"new", "duplicate"} /\ Succeeded(request[r].outcome)

\* A legitimate retry is never answered as a duplicate: as long as a content is
\* marked, a request of the same window is on its way or has been sent (or died
\* before it made a row, which keeps the marker).  isDuplicateSmsSubmission and
\* every release after a failure.
MarkerJustified == \A k \in seen : \E r \in Requests : KeyOf[r] = k /\ Entitled(r)

\* A request of an earlier window that failed, and with its own marker gone
\* released the one of a later request.
ReleasedByAnother(r) ==
    \E s \in Requests :
        /\ KeyOf[s] = KeyOf[r]
        /\ request[s].window < request[r].window
        /\ request[s].pc \notin {"new", "duplicate", "send"}
        /\ ~Succeeded(request[s].outcome)

\* A message is not sent twice: a request that is on its way or has been sent
\* keeps its marker to the end of the window, so that every repeat is refused.
\* The exception is the stale release of a request of an earlier window.
RepeatRefused ==
    \A r \in Requests :
        Entitled(r) /\ ~ReleasedByAnother(r) => KeyOf[r] \in seen

\* A client charged at submit (for a Business API send: every client) is counted
\* at most once for a message, however the forced outcome, its timer and
\* overlapping polls go on with it.
CountedOnce ==
    IsSubmitCharged(clientMode) \/ route = "business" =>
        \A r \in Requests : counted[r] <= 1

\* A message that failed or was rejected at submit has cost neither side
\* anything, now or after any forced outcome or poll, with one exception: one a
\* CUSTOM_API supplier took in an answer that could not be read is stored FAILED
\* and costs.  And the row of a client charged on delivery shows a cost only if it
\* shows a delivery too: not the poller, the timeouts or the forced outcome of the
\* supplier charge it for anything else.  (Counting is not covered: see the
\* README.)
PricedForOutcome ==
    \A r \in Requests :
        /\ cost[r] = 1 \/ supplierCost[r] = 1 =>
              request[r].outcome \in {"SENT", "DELIVERED", "unread"}
        /\ IsDlrCharged(clientMode) /\ cost[r] = 1 => status[r] = "DELIVERED"

\* A message once shown as DELIVERED stays so: no timer, timeout or late answer
\* of an overlapping poll takes the status back (dlr_status may change).
StatusStands ==
    [][\A r \in Requests : status[r] = "DELIVERED" => status'[r] = "DELIVERED"]_vars

\* The poller ends the wait of a message while it is in the two hours the query
\* looks back: with a connector it gets an outcome, at the latest when it is too
\* old, whatever polls fail or overlap and whatever older rows were in its way.
\* One that leaves the two hours first is left SENT: nobody else looks for it.
PollResolves ==
    \A r \in Requests :
        r \in Waiting /\ connector # "none" /\ load.passes # {} ~>
            r \notin Waiting \/ r \in aged

=============================================================================
