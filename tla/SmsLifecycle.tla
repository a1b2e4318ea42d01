---------------------------- MODULE SmsLifecycle ----------------------------
(***************************************************************************)
(* The life of an SMS that an SMPP client (ESME) submits and a CLIENT-mode *)
(* SMPP supplier carries: the submit handler of smpp-server.ts, the        *)
(* receipt handler of smpp-client.ts, the forced outcomes (force_dlr,      *)
(* force_dlr_timeout), the stale-DLR sweeper and a process restart, all    *)
(* writing the same row of the tenant's messages table and the same        *)
(* tenants.sms_counter.                                                    *)
(*                                                                         *)
(* Node.js runs one handler at a time but every await yields, so one       *)
(* action here is what a handler does between two awaits, or one database  *)
(* statement.  Rates are the two constants; only whether a column holds 0  *)
(* or the rate matters.                                                    *)
(***************************************************************************)
EXTENDS Integers, FiniteSets

CONSTANTS
    Msgs,           \* messages the client submits
    Receipts,       \* delivery receipts the supplier may send, one handler each
    Stats,          \* receipt states the supplier reports
    Sweeps,         \* sweeper passes that may overlap
    NoMsg,          \* not a message
    Destination,    \* Destination[m]: the number m is sent to
    Addressings,    \* may a receipt carry its source_addr (TRUE), lack it (FALSE)?
    ClientModes,    \* charging modes the client may have
    SupplierModes,  \* charging modes the supplier may have
    ClientRate,     \* ratePerSms
    SupplierRate,   \* supplierCost
    SweepLimit,     \* rows the sweeper's SELECT returns, oldest first
    MaxBacklog,     \* bound: older rows of other clients that passes skip
    MaxRestarts,    \* bound: process restarts
    MaxFaults       \* bound: failing database statements

Mode == {"on_submit", "on_dlr", "force_dlr", "force_dlr_timeout"}

\* Receipt states a supplier reports.  UNDELIV stands for every state the code
\* maps to FAILED; the others it passes through unmapped, SENT and PENDING being
\* words it also reads as its own and ACCEPTD standing for the rest.
Stat == {"DELIVRD", "UNDELIV", "ACCEPTD", "PENDING", "SENT"}

ASSUME LifecycleAssumption ==
    /\ NoMsg \notin Msgs
    /\ DOMAIN Destination = Msgs
    /\ Stats \subseteq Stat
    /\ Addressings \subseteq BOOLEAN
    /\ IsFiniteSet(Sweeps)
    /\ ClientModes \subseteq Mode
    /\ SupplierModes \subseteq Mode
    /\ ClientRate \in Nat \ {0}
    /\ SupplierRate \in Nat \ {0}
    /\ SweepLimit \in Nat \ {0}
    /\ MaxBacklog \in Nat
    /\ MaxRestarts \in Nat
    /\ MaxFaults \in Nat
    /\ {"none", "submit", "hydrate"} \cap Receipts = {}

VARIABLES
    clientMode, supplierMode,             \* rows of clients and suppliers
    status, cost, supplierCost, profit,   \* columns of messages, by message
    counted,    \* increments of tenants.sms_counter, by message they bill
    submit,     \* where processSubmitSm is with a message
    pending,    \* pendingDeliveries: which registration holds the entry
    callback,   \* dlrCallbacks: is one registered?
    receipt,    \* the processSupplierDlr call of each receipt
    charge,     \* statements the callback's charge tasks still have to run
    force,      \* where the force_dlr / force_dlr_timeout job of a message is
    seen,       \* what that job read before its update
    sweep,      \* the row each sweeper pass is resolving
    swept,      \* history: forced receipts the sweeper pushed, by message
    reopened,   \* history: receipts that made a settled row wait again
    reported,   \* history: messages a DELIVRD receipt came for, by id or number
    misread,    \* history: on_dlr rows a pass delivered as on_submit ones
    backlog,    \* rows older than the client's that wait and that passes skip
    scan,       \* recoverPendingDeliveriesFromDb after a restart
    restarts, faults

rowVars     == <<status, cost, supplierCost, profit>>
modeVars    == <<clientMode, supplierMode>>
trackVars   == <<pending, callback>>
forceVars   == <<force, seen>>
historyVars == <<swept, reopened, reported, misread>>
sweepVars   == <<sweep, historyVars, backlog>>
processVars == <<scan, restarts>>
vars == <<modeVars, rowVars, counted, submit, trackVars, receipt, charge,
          forceVars, sweepVars, processVars, faults>>

-----------------------------------------------------------------------------
(* Charging modes *)

IsSubmitCharged(mode)   == mode # "on_dlr"
IsDlrCharged(mode)      == mode = "on_dlr"
IsForce(mode)           == mode \in {"force_dlr", "force_dlr_timeout"}

\* A job that is none of a message's: no reading yet.
Unread == [cost |-> 0, supplierCost |-> 0]

\* A receipt the supplier has not sent.
Idle == [pc |-> "unsent", of |-> NoMsg, stat |-> "DELIVRD", known |-> TRUE,
         addressed |-> TRUE, target |-> NoMsg, token |-> "none", rate |-> 0]

\* A pass between two rows, with the modes a row's lookups start from.
NoSweep == [pc |-> "idle", msg |-> NoMsg, cost |-> 0, supplierCost |-> 0,
            client |-> "on_submit", supplier |-> "none"]

NoCharge == [cost |-> 0, counter |-> 0, supplier |-> 0]

\* messages.dlr_status after a receipt
DlrStatusOf(s) == CASE s = "DELIVRD" -> "DELIVERED"
                    [] s = "UNDELIV" -> "FAILED"
                    [] OTHER -> s

\* dlr_status IN ('SENT', 'PENDING'): what the sweeper takes for a row that
\* still waits.  Recovery, the timer and the scan after a restart take SENT only.
Waiting == {"SENT", "PENDING"}

\* Supplier cost written at submit, and again by the on_dlr client's charge.
SubmitSupplierCost == IF IsDlrCharged(supplierMode) THEN 0 ELSE SupplierRate

SubmitClientCost == IF IsDlrCharged(clientMode) THEN 0 ELSE ClientRate

Init ==
    /\ clientMode \in ClientModes
    /\ supplierMode \in SupplierModes
    /\ status = [m \in Msgs |-> "none"]
    /\ cost = [m \in Msgs |-> 0]
    /\ supplierCost = [m \in Msgs |-> 0]
    /\ profit = [m \in Msgs |-> 0]
    /\ counted = [m \in Msgs |-> 0]
    /\ submit = [m \in Msgs |-> "new"]
    /\ pending = [m \in Msgs |-> "none"]
    /\ callback = [m \in Msgs |-> FALSE]
    /\ receipt = [r \in Receipts |-> Idle]
    /\ charge = [m \in Msgs |-> NoCharge]
    /\ force = [m \in Msgs |-> "none"]
    /\ seen = [m \in Msgs |-> Unread]
    /\ sweep = [s \in Sweeps |-> NoSweep]
    /\ swept = [m \in Msgs |-> 0]
    /\ reopened = [m \in Msgs |-> 0]
    /\ reported = {}
    /\ misread = {}
    /\ backlog \in 0..MaxBacklog
    /\ scan = [pc |-> "idle", msgs |-> {}]
    /\ restarts = 0
    /\ faults = 0

-----------------------------------------------------------------------------
(* processSubmitSm, default path *)

\* The supplier's submit_sm_resp is in; deliverSmsWithFallback has not resumed.
Accept(m) ==
    /\ submit[m] = "new"
    /\ submit' = [submit EXCEPT ![m] = "accepted"]
    /\ UNCHANGED <<modeVars, rowVars, counted, trackVars, receipt, charge,
                   forceVars, sweepVars, processVars, faults>>

\* Every route failed: the row is inserted as FAILED, with the client's rate in
\* its cost column and zero profit, and nothing is counted.
Reject(m) ==
    /\ submit[m] = "new"
    /\ submit' = [submit EXCEPT ![m] = "failed"]
    /\ status' = [status EXCEPT ![m] = "FAILED"]
    /\ cost' = [cost EXCEPT ![m] = ClientRate]
    /\ UNCHANGED <<modeVars, supplierCost, profit, counted, trackVars, receipt,
                   charge, forceVars, sweepVars, processVars, faults>>

\* pendingDeliveries.set: receipts can be matched from here on, although the
\* row is not there yet.
Track(m) ==
    /\ submit[m] = "accepted"
    /\ submit' = [submit EXCEPT ![m] = "tracked"]
    /\ pending' = [pending EXCEPT ![m] = "submit"]
    /\ UNCHANGED <<modeVars, rowVars, counted, callback, receipt, charge,
                   forceVars, sweepVars, processVars, faults>>

Insert(m) ==
    /\ submit[m] = "tracked"
    /\ submit' = [submit EXCEPT ![m] = IF IsSubmitCharged(clientMode)
                                         THEN "inserted" ELSE "counted"]
    /\ status' = [status EXCEPT ![m] = "SENT"]
    /\ cost' = [cost EXCEPT ![m] = SubmitClientCost]
    /\ supplierCost' = [supplierCost EXCEPT ![m] = SubmitSupplierCost]
    /\ profit' = [profit EXCEPT ![m] = SubmitClientCost - SubmitSupplierCost]
    /\ UNCHANGED <<modeVars, counted, trackVars, receipt, charge, forceVars,
                   sweepVars, processVars, faults>>

CountSubmit(m) ==
    /\ submit[m] = "inserted"
    /\ submit' = [submit EXCEPT ![m] = "counted"]
    /\ counted' = [counted EXCEPT ![m] = @ + 1]
    /\ UNCHANGED <<modeVars, rowVars, trackVars, receipt, charge, forceVars,
                   sweepVars, processVars, faults>>

\* The INSERT or the counter update throws: the outer catch answers with an
\* error although the supplier has the message.
SubmitFault(m) ==
    /\ submit[m] \in {"tracked", "inserted"}
    /\ faults < MaxFaults
    /\ faults' = faults + 1
    /\ submit' = [submit EXCEPT ![m] = "errored"]
    /\ UNCHANGED <<modeVars, rowVars, counted, trackVars, receipt, charge,
                   forceVars, sweepVars, processVars>>

ForceJob == IF "force_dlr" \in {clientMode, supplierMode} THEN "mark"
            ELSE IF "force_dlr_timeout" \in {clientMode, supplierMode} THEN "timer"
            ELSE "none"

\* registerDlrCallback, then the forced outcome is started or scheduled.
Register(m) ==
    /\ submit[m] = "counted"
    /\ submit' = [submit EXCEPT ![m] = "done"]
    /\ callback' = [callback EXCEPT ![m] = TRUE]
    /\ force' = [force EXCEPT ![m] = ForceJob]
    /\ UNCHANGED <<modeVars, rowVars, counted, pending, receipt, charge, seen,
                   sweepVars, processVars, faults>>

-----------------------------------------------------------------------------
(* processSupplierDlr *)

\* The messages a receipt for m may be taken for: m itself, those that have its
\* number, and any if the receipt bears no number.
Named(m, addressed) ==
    {n \in Msgs : n = m \/ ~addressed \/ Destination[n] = Destination[m]}

\* The supplier has the message: it may report on it.
Carried(m) == submit[m] \notin {"new", "failed"}

\* Mutant of Candidates: the fallback forgets to compare destinations.
AnyCandidates(m, known, addressed) ==
    IF known /\ pending[m] # "none" THEN {m} ELSE {n \in Msgs : pending[n] # "none"}

\* matchDelivery: the entry under the receipt's own id, else any entry of this
\* supplier with the number the receipt carries, or with any number at all if
\* it carries none.
Candidates(m, known, addressed) ==
    IF known /\ pending[m] # "none"
      THEN {m}
      ELSE {n \in Msgs : /\ pending[n] # "none"
                         /\ addressed => Destination[n] = Destination[m]}

\* A receipt of state s that was matched: its entry is n's, held by token.
Taken(pc, s, n, token) ==
    [Idle EXCEPT !.pc = pc, !.stat = s, !.target = n, !.token = token]

\* A receipt for m arrives; known says whether it carries the id we were given
\* at submit (a relaying SMSC may assign its own), addressed whether it carries
\* the number as its source_addr.
Arrive(r, m, s, known, addressed) ==
    /\ receipt[r].pc = "unsent"
    /\ Carried(m)
    /\ \/ /\ Candidates(m, known, addressed) = {}
          /\ receipt' = [receipt EXCEPT ![r] = [Idle EXCEPT !.pc = "waiting",
                             !.of = m, !.stat = s, !.known = known,
                             !.addressed = addressed]]
       \/ \E n \in Candidates(m, known, addressed) :
             receipt' = [receipt EXCEPT ![r] = Taken("update", s, n, pending[n])]
    /\ reported' = IF s = "DELIVRD" THEN reported \cup Named(m, addressed)
                   ELSE reported
    /\ UNCHANGED <<modeVars, rowVars, counted, submit, trackVars, charge,
                   forceVars, sweep, swept, reopened, misread, backlog,
                   processVars, faults>>

\* The grace loop finds an entry registered late.
LateMatch(r) ==
    /\ receipt[r].pc = "waiting"
    /\ \E n \in Candidates(receipt[r].of, receipt[r].known, receipt[r].addressed) :
          receipt' = [receipt EXCEPT ![r] =
                         Taken("update", receipt[r].stat, n, pending[n])]
    /\ UNCHANGED <<modeVars, rowVars, counted, submit, trackVars, charge,
                   forceVars, sweepVars, processVars, faults>>

Recoverable(r) == receipt[r].known /\ status[receipt[r].of] = "SENT"

\* recoverDeliveryFromDb: the SELECT, and the resumption that registers what it
\* returned.
RecoverRead(r) ==
    /\ receipt[r].pc = "waiting"
    /\ Recoverable(r)
    /\ receipt' = [receipt EXCEPT ![r] =
                       Taken("recovered", receipt[r].stat, receipt[r].of, r)]
    /\ UNCHANGED <<modeVars, rowVars, counted, submit, trackVars, charge,
                   forceVars, sweepVars, processVars, faults>>

RecoverResume(r) ==
    /\ receipt[r].pc = "recovered"
    /\ pending' = [pending EXCEPT ![receipt[r].target] = r]
    /\ receipt' = [receipt EXCEPT ![r].pc = "update"]
    /\ UNCHANGED <<modeVars, rowVars, counted, submit, callback, charge,
                   forceVars, sweepVars, processVars, faults>>

\* A receipt that was dealt with
Closed == [Idle EXCEPT !.pc = "closed"]

\* The last SELECT finds nothing and the deadline passes: the receipt is dropped
\* as unknown, even if an entry was registered after the last look at the map.
GiveUp(r) ==
    /\ receipt[r].pc = "waiting"
    /\ ~Recoverable(r)
    /\ receipt' = [receipt EXCEPT ![r] = Closed]
    /\ UNCHANGED <<modeVars, rowVars, counted, submit, trackVars, charge,
                   forceVars, sweepVars, processVars, faults>>

\* UPDATE messages SET dlr_status ... WHERE message_id: unguarded, and a no-op
\* when the row is not inserted yet.
UpdateStatus(r) ==
    LET t == receipt[r].target
        new == DlrStatusOf(receipt[r].stat) IN
    /\ receipt[r].pc = "update"
    /\ status' = IF status[t] = "none" THEN status
                 ELSE [status EXCEPT ![t] = new]
    /\ reopened' = IF new \in Waiting /\ status[t] \notin Waiting \cup {"none"}
                     THEN [reopened EXCEPT ![t] = @ + 1] ELSE reopened
    /\ receipt' = [receipt EXCEPT ![r].pc = IF new = "DELIVERED" THEN "read"
                                            ELSE "callback"]
    /\ UNCHANGED <<modeVars, cost, supplierCost, profit, counted, submit,
                   trackVars, charge, forceVars, sweep, swept, reported, misread,
                   backlog, processVars, faults>>

\* SELECT m.cost as client_rate
ReadCost(r) ==
    /\ receipt[r].pc = "read"
    /\ LET t == receipt[r].target IN
       receipt' = [receipt EXCEPT ![r] = IF status[t] = "none"
                       THEN [@ EXCEPT !.pc = "callback"]
                       ELSE [@ EXCEPT !.pc = "stamp", !.rate = cost[t]]]
    /\ UNCHANGED <<modeVars, rowVars, counted, submit, trackVars, charge,
                   forceVars, sweepVars, processVars, faults>>

\* Mutant of StampedProfit: subtracts the supplier cost the row had before.
ProfitOnOldCost(r) == receipt[r].rate - supplierCost[receipt[r].target]

\* The profit a delivery records, from the client rate read before.
StampedProfit(r) == receipt[r].rate - SupplierRate

Stamp(r) ==
    LET t == receipt[r].target IN
    /\ receipt[r].pc = "stamp"
    /\ supplierCost' = [supplierCost EXCEPT ![t] = SupplierRate]
    /\ profit' = [profit EXCEPT ![t] = StampedProfit(r)]
    /\ receipt' = [receipt EXCEPT ![r] = [@ EXCEPT !.pc = "callback",
                                                   !.rate = 0]]
    /\ UNCHANGED <<modeVars, status, cost, counted, submit, trackVars, charge,
                   forceVars, sweepVars, processVars, faults>>

\* A statement throws: the catch logs and the handler goes on to the callback.
\* Without a connection to run it on the handler rejects and the receipt is lost.
ReceiptFault(r) ==
    /\ faults < MaxFaults
    /\ faults' = faults + 1
    /\ \/ /\ receipt[r].pc \in {"update", "read", "stamp"}
          /\ receipt' = [receipt EXCEPT ![r] = [@ EXCEPT !.pc = "callback",
                                                         !.rate = 0]]
       \/ /\ receipt[r].pc \in {"waiting", "update"}
          /\ receipt' = [receipt EXCEPT ![r] = Closed]
    /\ UNCHANGED <<modeVars, rowVars, counted, submit, trackVars, charge,
                   forceVars, sweepVars, processVars>>

\* Mutant of ConsumedCallback: the callback stays registered.
KeptCallback(m) == callback

\* dlrCallbacks.delete after the call
ConsumedCallback(m) == [callback EXCEPT ![m] = FALSE]

\* Mutant of ChargesClient: the client's mode is not tested.
ChargesAnyMode(s) == s = "DELIVRD"

ChargesClient(s) == s = "DELIVRD" /\ IsDlrCharged(clientMode)

ChargesSupplier(s) == s = "DELIVRD" /\ IsDlrCharged(supplierMode)

\* The charge tasks one callback starts
WithTasks(c, s) ==
    [c EXCEPT !.cost = IF ChargesClient(s) THEN @ + 1 ELSE @,
              !.supplier = IF ChargesSupplier(s) THEN @ + 1 ELSE @]

\* for (...) if (d === delivery) pendingDeliveries.delete(key)
Released(t, token) ==
    IF pending[t] = token THEN [pending EXCEPT ![t] = "none"] ELSE pending

\* The callback starts the charge tasks (before it looks for a session to push
\* to).  Without a callback the receipt is queued for the client and nothing is
\* charged.
FireCallback(r) ==
    LET t == receipt[r].target
        s == receipt[r].stat IN
    /\ receipt[r].pc = "callback"
    /\ callback' = ConsumedCallback(t)
    /\ charge' = IF callback[t] THEN [charge EXCEPT ![t] = WithTasks(@, s)]
                 ELSE charge
    /\ pending' = Released(t, receipt[r].token)
    /\ receipt' = [receipt EXCEPT ![r] = Closed]
    /\ UNCHANGED <<modeVars, rowVars, counted, submit, forceVars, sweepVars,
                   processVars, faults>>

RowPriced(c) == [c EXCEPT !.cost = @ - 1, !.counter = @ + 1]

\* The client charge task: the row first, then the counter.
ChargeCost(m) ==
    /\ charge[m].cost > 0
    /\ charge' = [charge EXCEPT ![m] = RowPriced(@)]
    /\ cost' = [cost EXCEPT ![m] = ClientRate]
    /\ supplierCost' = [supplierCost EXCEPT ![m] = SubmitSupplierCost]
    /\ profit' = [profit EXCEPT ![m] = ClientRate - SubmitSupplierCost]
    /\ UNCHANGED <<modeVars, status, counted, submit, trackVars, receipt,
                   forceVars, sweepVars, processVars, faults>>

ChargeCounter(m) ==
    /\ charge[m].counter > 0
    /\ charge' = [charge EXCEPT ![m].counter = @ - 1]
    /\ counted' = [counted EXCEPT ![m] = @ + 1]
    /\ UNCHANGED <<modeVars, rowVars, submit, trackVars, receipt, forceVars,
                   sweepVars, processVars, faults>>

\* The supplier charge task, on a connection of its own.
ChargeSupplier(m) ==
    /\ charge[m].supplier > 0
    /\ charge' = [charge EXCEPT ![m].supplier = @ - 1]
    /\ supplierCost' = [supplierCost EXCEPT ![m] = SupplierRate]
    /\ profit' = [profit EXCEPT ![m] = cost[m] - SupplierRate]
    /\ UNCHANGED <<modeVars, status, cost, counted, submit, trackVars, receipt,
                   forceVars, sweepVars, processVars, faults>>

ChargeFault(m) ==
    /\ faults < MaxFaults
    /\ faults' = faults + 1
    /\ \E task \in {"cost", "counter", "supplier"} :
          /\ charge[m][task] > 0
          /\ charge' = [charge EXCEPT ![m][task] = @ - 1]
    /\ UNCHANGED <<modeVars, rowVars, counted, submit, trackVars, receipt,
                   forceVars, sweepVars, processVars>>

\* The five-minute timer drops tracking older than ten minutes.
ForgetStale(m) ==
    /\ pending[m] # "none"
    /\ pending' = [pending EXCEPT ![m] = "none"]
    /\ callback' = [callback EXCEPT ![m] = FALSE]
    /\ UNCHANGED <<modeVars, rowVars, counted, submit, receipt, charge,
                   forceVars, sweepVars, processVars, faults>>

-----------------------------------------------------------------------------
(* force_dlr: an outcome is forced right after the submit *)

\* UPDATE messages SET dlr_status = 'DELIVERED' ..., dlr_source = 'FORCE'
ForceMark(m) ==
    /\ force[m] = "mark"
    /\ status' = [status EXCEPT ![m] = "DELIVERED"]
    /\ cost' = [cost EXCEPT ![m] = ClientRate]
    /\ supplierCost' = [supplierCost EXCEPT ![m] = SubmitSupplierCost]
    /\ profit' = [profit EXCEPT ![m] = ClientRate - SubmitSupplierCost]
    /\ force' = [force EXCEPT ![m] =
                    IF IsDlrCharged(clientMode) THEN "count"
                    ELSE IF IsForce(supplierMode) THEN "pay" ELSE "none"]
    /\ UNCHANGED <<modeVars, counted, submit, trackVars, receipt, charge, seen,
                   sweepVars, processVars, faults>>

ForceCount(m) ==
    /\ force[m] = "count"
    /\ counted' = [counted EXCEPT ![m] = @ + 1]
    /\ force' = [force EXCEPT ![m] = IF IsForce(supplierMode) THEN "pay"
                                     ELSE "none"]
    /\ UNCHANGED <<modeVars, rowVars, submit, trackVars, receipt, charge, seen,
                   sweepVars, processVars, faults>>

\* Only a supplier that forces the outcome itself is paid for it.
ForcePay(m) ==
    /\ force[m] = "pay"
    /\ supplierCost' = [supplierCost EXCEPT ![m] = SupplierRate]
    /\ profit' = [profit EXCEPT ![m] = cost[m] - SupplierRate]
    /\ force' = [force EXCEPT ![m] = "none"]
    /\ UNCHANGED <<modeVars, status, cost, counted, submit, trackVars, receipt,
                   charge, seen, sweepVars, processVars, faults>>

(* force_dlr_timeout: the timer of one message *)

\* SELECT dlr_status, cost, supplier_cost
TimerRead(m) ==
    /\ force[m] = "timer"
    /\ IF status[m] = "SENT"
         THEN /\ force' = [force EXCEPT ![m] = "tmark"]
              /\ seen' = [seen EXCEPT ![m] = [cost |-> cost[m],
                                             supplierCost |-> supplierCost[m]]]
         ELSE /\ force' = [force EXCEPT ![m] = "none"]
              /\ UNCHANGED seen
    /\ UNCHANGED <<modeVars, rowVars, counted, submit, trackVars, receipt,
                   charge, sweepVars, processVars, faults>>

\* Mutants of TimeoutCost and TimeoutSupplierCost: an on_dlr client is not
\* charged; every supplier is paid.
UnchargedTimeoutCost(client, read) == read.cost
UnisolatedSupplierCost(supplier, read) ==
    IF read.supplierCost = 0 THEN SupplierRate ELSE read.supplierCost

\* What a forced timeout writes, from the modes and the costs it read: an on_dlr
\* client is charged now, a supplier only if it forces outcomes itself.
TimeoutCost(client, read) ==
    IF IsDlrCharged(client) /\ read.cost = 0 THEN ClientRate ELSE read.cost

TimeoutSupplierCost(supplier, read) ==
    IF IsForce(supplier) /\ read.supplierCost = 0
      THEN SupplierRate ELSE read.supplierCost

\* UPDATE messages ... WHERE message_id: the status is not tested again.
TimerMark(m) ==
    /\ force[m] = "tmark"
    /\ status' = [status EXCEPT ![m] = "DELIVERED"]
    /\ cost' = [cost EXCEPT ![m] = TimeoutCost(clientMode, seen[m])]
    /\ supplierCost' = [supplierCost EXCEPT ![m] =
                           TimeoutSupplierCost(supplierMode, seen[m])]
    /\ profit' = [profit EXCEPT ![m] =
                     TimeoutCost(clientMode, seen[m])
                       - TimeoutSupplierCost(supplierMode, seen[m])]
    /\ force' = [force EXCEPT ![m] =
                    IF IsDlrCharged(clientMode) /\ seen[m].cost = 0
                      THEN "tcount" ELSE "none"]
    /\ seen' = [seen EXCEPT ![m] = Unread]
    /\ UNCHANGED <<modeVars, counted, submit, trackVars, receipt, charge,
                   sweepVars, processVars, faults>>

TimerCount(m) ==
    /\ force[m] = "tcount"
    /\ counted' = [counted EXCEPT ![m] = @ + 1]
    /\ force' = [force EXCEPT ![m] = "none"]
    /\ UNCHANGED <<modeVars, rowVars, submit, trackVars, receipt, charge, seen,
                   sweepVars, processVars, faults>>

\* A statement of either job throws: the rest of the job is skipped.
ForceFault(m) ==
    /\ force[m] \in {"mark", "count", "pay", "timer", "tmark", "tcount"}
    /\ faults < MaxFaults
    /\ faults' = faults + 1
    /\ force' = [force EXCEPT ![m] = "none"]
    /\ UNCHANGED <<modeVars, rowVars, counted, submit, trackVars, receipt,
                   charge, seen, sweepVars, processVars>>

-----------------------------------------------------------------------------
(* sweepTenantStaleDlrs.  A pass starts every minute whether or not the one   *)
(* before has ended, so passes overlap.                                      *)

\* Mutant of SweepAction: an on_dlr client's stale message is left alone.
ForcedOnlyAction(client, supplier) ==
    IF "force_dlr_timeout" \in {client, supplier} THEN "deliver" ELSE "skip"

\* resolveStaleDlrAction
SweepAction(client, supplier) ==
    IF "force_dlr_timeout" \in {client, supplier} THEN "deliver"
    ELSE IF IsDlrCharged(client) THEN "fail"
    ELSE "skip"

\* The pass has m among the SweepLimit oldest rows its SELECT returned, with its
\* costs, and takes its client and its supplier to have these modes.  Rows of
\* Msgs that are older than m do not keep it out: a pass resolves them.
SweepTakes(s, m, client, supplier) ==
    /\ sweep[s].pc = "idle"
    /\ status[m] \in Waiting
    /\ backlog < SweepLimit
    /\ SweepAction(client, supplier) # "skip"
    /\ sweep' = [sweep EXCEPT ![s] = [pc |-> "resolve", msg |-> m,
                     cost |-> cost[m], supplierCost |-> supplierCost[m],
                     client |-> client, supplier |-> supplier]]
    /\ UNCHANGED <<modeVars, rowVars, counted, submit, trackVars, receipt,
                   charge, forceVars, historyVars, backlog, processVars>>

SweepRead(s, m) == SweepTakes(s, m, clientMode, supplierMode) /\ UNCHANGED faults

\* A failing lookup of a mode is swallowed and leaves the pass its default.
SweepMisread(s, m) ==
    /\ faults < MaxFaults
    /\ faults' = faults + 1
    /\ \/ SweepTakes(s, m, "on_submit", supplierMode)
       \/ SweepTakes(s, m, clientMode, "none")
       \/ SweepTakes(s, m, "on_submit", "none")

\* A row of another client that is older and that passes skip gets its receipt,
\* or a receipt of state PENDING reopens one.
OlderRow ==
    /\ backlog' \in {backlog - 1, backlog + 1} \cap 0..MaxBacklog
    /\ UNCHANGED <<modeVars, rowVars, counted, submit, trackVars, receipt,
                   charge, forceVars, sweep, historyVars, processVars, faults>>

\* Mutant of StillPending: the UPDATE loses its status guard.
RowExists(m) == status[m] # "none"

\* AND dlr_status IN ('SENT', 'PENDING')
StillPending(m) == status[m] \in Waiting

SweepSkip(s) ==
    /\ sweep[s].pc = "resolve"
    /\ ~StillPending(sweep[s].msg)
    /\ sweep' = [sweep EXCEPT ![s] = NoSweep]
    /\ UNCHANGED <<modeVars, rowVars, counted, submit, trackVars, receipt,
                   charge, forceVars, historyVars, backlog, processVars, faults>>

\* What a pass keeps of a row it has resolved
Settled(s, pc) == [NoSweep EXCEPT !.pc = pc, !.msg = sweep[s].msg]

SweepFail(s) ==
    /\ sweep[s].pc = "resolve"
    /\ SweepAction(sweep[s].client, sweep[s].supplier) = "fail"
    /\ StillPending(sweep[s].msg)
    /\ status' = [status EXCEPT ![sweep[s].msg] = "FAILED"]
    /\ sweep' = [sweep EXCEPT ![s] = Settled(s, "push")]
    /\ UNCHANGED <<modeVars, cost, supplierCost, profit, counted, submit,
                   trackVars, receipt, charge, forceVars, historyVars, backlog,
                   processVars, faults>>

SweepDeliver(s) ==
    LET m == sweep[s].msg
        read == [cost |-> sweep[s].cost, supplierCost |-> sweep[s].supplierCost]
        newCost == TimeoutCost(sweep[s].client, read)
        newSupplierCost == TimeoutSupplierCost(sweep[s].supplier, read)
    IN
    /\ sweep[s].pc = "resolve"
    /\ SweepAction(sweep[s].client, sweep[s].supplier) = "deliver"
    /\ StillPending(m)
    /\ status' = [status EXCEPT ![m] = "DELIVERED"]
    /\ cost' = [cost EXCEPT ![m] = newCost]
    /\ supplierCost' = [supplierCost EXCEPT ![m] = newSupplierCost]
    /\ profit' = [profit EXCEPT ![m] = newCost - newSupplierCost]
    /\ misread' = IF IsDlrCharged(clientMode) /\ ~IsDlrCharged(sweep[s].client)
                    THEN misread \cup {m} ELSE misread
    /\ sweep' = [sweep EXCEPT ![s] =
                    Settled(s, IF IsDlrCharged(sweep[s].client) THEN "count"
                                ELSE "push")]
    /\ UNCHANGED <<modeVars, counted, submit, trackVars, receipt, charge,
                   forceVars, swept, reopened, reported, backlog, processVars, faults>>

SweepCount(s) ==
    /\ sweep[s].pc = "count"
    /\ counted' = [counted EXCEPT ![sweep[s].msg] = @ + 1]
    /\ sweep' = [sweep EXCEPT ![s].pc = "push"]
    /\ UNCHANGED <<modeVars, rowVars, submit, trackVars, receipt, charge,
                   forceVars, historyVars, backlog, processVars, faults>>

\* pushForcedDlr queues the forced receipt for the client.
SweepPush(s) ==
    /\ sweep[s].pc = "push"
    /\ swept' = [swept EXCEPT ![sweep[s].msg] = @ + 1]
    /\ sweep' = [sweep EXCEPT ![s] = NoSweep]
    /\ UNCHANGED <<modeVars, rowVars, counted, submit, trackVars, receipt,
                   charge, forceVars, reopened, reported, misread, backlog, processVars,
                   faults>>

\* A failing resolution ends the pass; a failing count is swallowed.
SweepFault(s) ==
    /\ sweep[s].pc \in {"resolve", "count"}
    /\ faults < MaxFaults
    /\ faults' = faults + 1
    /\ sweep' = [sweep EXCEPT ![s] = IF @.pc = "resolve" THEN NoSweep
                                     ELSE [@ EXCEPT !.pc = "push"]]
    /\ UNCHANGED <<modeVars, rowVars, counted, submit, trackVars, receipt,
                   charge, forceVars, historyVars, backlog, processVars>>

-----------------------------------------------------------------------------
(* Restart: everything in memory is lost, the tables stay. *)

Restart ==
    /\ restarts < MaxRestarts
    /\ restarts' = restarts + 1
    /\ pending' = [m \in Msgs |-> "none"]
    /\ callback' = [m \in Msgs |-> FALSE]
    /\ submit' = [m \in Msgs |->
                     IF submit[m] \in {"accepted", "tracked", "inserted", "counted"}
                       THEN "aborted" ELSE submit[m]]
    /\ receipt' = [r \in Receipts |->
                      IF receipt[r].pc = "unsent" THEN receipt[r] ELSE Closed]
    /\ charge' = [m \in Msgs |-> NoCharge]
    /\ force' = [m \in Msgs |-> "none"]
    /\ sweep' = [s \in Sweeps |-> NoSweep]
    /\ scan' = [pc |-> "due", msgs |-> {}]
    /\ seen' = [m \in Msgs |-> Unread]
    /\ UNCHANGED <<modeVars, rowVars, counted, historyVars, backlog, faults>>

\* recoverPendingDeliveriesFromDb: the SELECT, and the loop over its rows.
HydrateRead ==
    /\ scan.pc = "due"
    /\ scan' = [pc |-> "read", msgs |-> {m \in Msgs : status[m] = "SENT"}]
    /\ UNCHANGED <<modeVars, rowVars, counted, submit, trackVars, receipt,
                   charge, forceVars, sweepVars, restarts, faults>>

HydrateApply ==
    /\ scan.pc = "read"
    /\ pending' = [m \in Msgs |-> IF m \in scan.msgs /\ pending[m] = "none"
                                    THEN "hydrate" ELSE pending[m]]
    /\ scan' = [pc |-> "idle", msgs |-> {}]
    /\ UNCHANGED <<modeVars, rowVars, counted, submit, callback, receipt,
                   charge, forceVars, sweepVars, restarts, faults>>

-----------------------------------------------------------------------------
SubmitStep(m) ==
    \/ Accept(m) \/ Reject(m) \/ Track(m) \/ Insert(m) \/ CountSubmit(m)
    \/ Register(m)

ReceiptStep(r) ==
    \/ LateMatch(r) \/ RecoverRead(r) \/ RecoverResume(r) \/ GiveUp(r)
    \/ UpdateStatus(r) \/ ReadCost(r) \/ Stamp(r) \/ FireCallback(r)

ChargeStep(m) == ChargeCost(m) \/ ChargeCounter(m) \/ ChargeSupplier(m)

ForceStep(m) ==
    \/ ForceMark(m) \/ ForceCount(m) \/ ForcePay(m)
    \/ TimerRead(m) \/ TimerMark(m) \/ TimerCount(m)

SweepStep(s) ==
    \/ SweepSkip(s) \/ SweepFail(s) \/ SweepDeliver(s) \/ SweepCount(s)
    \/ SweepPush(s)

HydrateStep == HydrateRead \/ HydrateApply

Fault ==
    \/ \E m \in Msgs : SubmitFault(m) \/ ChargeFault(m) \/ ForceFault(m)
    \/ \E r \in Receipts : ReceiptFault(r)
    \/ \E s \in Sweeps : SweepFault(s) \/ \E m \in Msgs : SweepMisread(s, m)

Next ==
    \/ \E m \in Msgs : SubmitStep(m) \/ ChargeStep(m) \/ ForceStep(m)
                       \/ ForgetStale(m)
    \/ \E r \in Receipts, m \in Msgs, s \in Stats, known \in BOOLEAN,
          addressed \in Addressings : Arrive(r, m, s, known, addressed)
    \/ \E r \in Receipts : ReceiptStep(r)
    \/ \E s \in Sweeps, m \in Msgs : SweepRead(s, m)
    \/ \E s \in Sweeps : SweepStep(s)
    \/ OlderRow
    \/ HydrateStep
    \/ Fault
    \/ Restart

Spec == Init /\ [][Next]_vars

\* The sweeper's interval runs for as long as the process does, and a pass
\* visits every row its SELECT returned and finishes; a stale row is picked up
\* by a later pass if one pass fails.  Which rows the SELECT returns is not fair:
\* SweepTakes waits for a place among the oldest.  Nothing else is fair either: a
\* receipt may never come, and older rows may stay.
FairSpec ==
    /\ Spec
    /\ \A m \in Msgs : WF_vars(\E s \in Sweeps : SweepRead(s, m))
    /\ \A s \in Sweeps : WF_vars(SweepStep(s))

-----------------------------------------------------------------------------
Token == {"none", "submit", "hydrate"} \cup Receipts

\* Stages of a receipt that has a target
Matched == {"recovered", "update", "read", "stamp", "callback"}

ReceiptType ==
    [pc : {"unsent", "waiting", "recovered", "update", "read", "stamp",
           "callback", "closed"},
     of : Msgs \cup {NoMsg}, stat : Stat, known : BOOLEAN, addressed : BOOLEAN,
     target : Msgs \cup {NoMsg}, token : Token, rate : {0, ClientRate}]

SweepType ==
    [pc : {"idle", "resolve", "count", "push"}, msg : Msgs \cup {NoMsg},
     cost : {0, ClientRate}, supplierCost : {0, SupplierRate},
     client : Mode, supplier : Mode \cup {"none"}]

RowTypes ==
    /\ status \in [Msgs -> {"none", "SENT", "PENDING", "DELIVERED", "FAILED",
                          "ACCEPTD"}]
    /\ cost \in [Msgs -> {0, ClientRate}]
    /\ supplierCost \in [Msgs -> {0, SupplierRate}]
    /\ profit \in [Msgs -> Int]
    /\ counted \in [Msgs -> Nat]

SubmitTypes ==
    /\ submit \in [Msgs -> {"new", "accepted", "tracked", "inserted", "counted",
                            "done", "failed", "errored", "aborted"}]
    /\ pending \in [Msgs -> Token]
    /\ callback \in [Msgs -> BOOLEAN]

ReceiptTypes ==
    /\ receipt \in [Receipts -> ReceiptType]
    /\ \A r \in Receipts :
          /\ receipt[r].pc = "waiting" => receipt[r].of \in Msgs
          /\ receipt[r].pc \in Matched => receipt[r].target \in Msgs

Tasks == [cost : Nat, counter : Nat, supplier : Nat]

ChargeTypes == charge \in [Msgs -> Tasks]

ForceTypes ==
    /\ force \in [Msgs -> {"none", "mark", "count", "pay", "timer", "tmark",
                           "tcount"}]
    /\ seen \in [Msgs -> [cost : {0, ClientRate},
                          supplierCost : {0, SupplierRate}]]

SweepTypes ==
    /\ sweep \in [Sweeps -> SweepType]
    /\ \A s \in Sweeps : sweep[s].pc # "idle" =>
          /\ sweep[s].msg \in Msgs
          /\ sweep[s].client \in {clientMode, "on_submit"}
          /\ sweep[s].supplier \in {supplierMode, "none"}
    /\ swept \in [Msgs -> Nat]
    /\ reopened \in [Msgs -> Nat]
    /\ reported \subseteq Msgs
    /\ misread \subseteq Msgs
    /\ backlog \in 0..MaxBacklog

ProcessTypes ==
    /\ clientMode \in ClientModes /\ supplierMode \in SupplierModes
    /\ scan \in [pc : {"idle", "due", "read"}, msgs : SUBSET Msgs]
    /\ restarts \in 0..MaxRestarts
    /\ faults \in 0..MaxFaults

\* Every variable has its type; in particular a cost column of processSubmitSm's
\* row only ever holds 0 or the rate of its side, and a handler past the match
\* has a message.
TypeOK ==
    /\ RowTypes /\ SubmitTypes /\ ReceiptTypes /\ ChargeTypes /\ ForceTypes
    /\ SweepTypes /\ ProcessTypes

-----------------------------------------------------------------------------
(* Billing *)

\* A client charged at submit is counted by processSubmitSm and by nothing
\* else: not by a receipt's callback, a forced outcome, the sweeper or what
\* runs after a restart; and a submit that ran to its end was counted.
SubmitChargedOnce ==
    IsSubmitCharged(clientMode) =>
        \A m \in Msgs : /\ counted[m] <= 1
                        /\ submit[m] = "done" => counted[m] = 1

\* An on_dlr client is counted at most once for a message however many receipts
\* reach its one-shot callback, provided the supplier forces no outcome.
DlrChargedOnce ==
    IsDlrCharged(clientMode) /\ ~IsForce(supplierMode) =>
        \A m \in Msgs : counted[m] <= 1

\* Why: the inductive forms of the two.  Nothing but processSubmitSm holds a
\* count for a submit-charged client ...
SubmitBilling ==
    IsSubmitCharged(clientMode) =>
        /\ \A m \in Msgs :
              /\ submit[m] \in {"new", "accepted", "tracked", "inserted", "failed"}
                    => counted[m] = 0
              /\ submit[m] \in {"counted", "done"} => counted[m] = 1
              /\ counted[m] <= 1
              /\ charge[m].cost = 0 /\ charge[m].counter = 0
              /\ force[m] \notin {"count", "tcount"}
        /\ \A s \in Sweeps : sweep[s].pc # "count"

Unregistered == {"new", "accepted", "tracked", "counted"}

\* ... and for an on_dlr client the unused callback, the charge task it started
\* and the count are one token.
ReceiptBilling ==
    IsDlrCharged(clientMode) /\ ~IsForce(supplierMode) =>
        /\ \A m \in Msgs :
              /\ submit[m] # "inserted"
              /\ submit[m] \in Unregistered => ~callback[m]
              /\ submit[m] \in Unregistered \/ callback[m] =>
                    charge[m].cost + charge[m].counter + counted[m] = 0
              /\ charge[m].cost + charge[m].counter + counted[m] <= 1
              /\ force[m] = "none"
        /\ \A s \in Sweeps : sweep[s].pc # "count"

\* An on_dlr client is counted for a message only after a DELIVRD receipt that is
\* the message's, or bears its number, or bears none, unless the supplier's mode
\* forces the outcome: neither the sweeper, nor a failed or intermediate receipt,
\* nor a receipt that bears another number charges.
NoChargeWithoutDelivery ==
    IsDlrCharged(clientMode) /\ ~IsForce(supplierMode) =>
        \A m \in Msgs : counted[m] > 0 => m \in reported

\* Margin isolation: an on_dlr supplier's cost is recorded only after such a
\* DELIVRD receipt, whatever the client's mode forces (force_dlr job, timer,
\* sweeper).
MarginIsolation ==
    IsDlrCharged(supplierMode) =>
        \A m \in Msgs : supplierCost[m] > 0 => m \in reported

\* For a client charged at submit the profit column is the difference of the
\* two cost columns after every statement, whichever handlers interleave.
ProfitConsistent ==
    IsSubmitCharged(clientMode) =>
        \A m \in Msgs : submit[m] # "failed" =>
            profit[m] = cost[m] - supplierCost[m]

\* A message the tenant's counter was charged for shows the client's rate in
\* its row: no later receipt, timer or sweep writes the charge away, unless a pass
\* delivered the row with the default mode a failing lookup left it.
BilledRowPriced ==
    \A m \in Msgs : counted[m] > 0 /\ m \notin misread => cost[m] = ClientRate

\* Overlapping sweeper passes push one forced receipt for a message at most, and
\* one more for every receipt that made its settled row wait again.
SweptOnce == \A m \in Msgs : swept[m] <= 1 + reopened[m]

(* Delivery *)

\* The row of an on_dlr client, or of a message either side of which asks for a
\* forced timeout, does not wait for ever, whatever receipts, faults and restarts
\* do, as long as fewer than SweepLimit older rows are ones that passes skip.
StaleResolved ==
    IsDlrCharged(clientMode) \/ "force_dlr_timeout" \in {clientMode, supplierMode} =>
        \A m \in Msgs : status[m] \in Waiting ~>
                           status[m] \notin Waiting \/ backlog >= SweepLimit

=============================================================================
