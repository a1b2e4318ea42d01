--------------------------- MODULE AndroidGateway ---------------------------
(***************************************************************************)
(* A gateway phone that binds to smpp-server.ts as a SERVER-mode supplier: *)
(* messages sent to it while it is bound, the in-memory queue of those     *)
(* submitted while it is not (server-mt-queue.ts), the flush each bind     *)
(* starts, the TTL sweep of the queue, and the deliver_sm handler for the  *)
(* receipts the phone returns.                                             *)
(*                                                                         *)
(* A message comes either from the ANDROID_SMS path of processSubmitSm or, *)
(* when another route was tried first, from the queueing at the end of     *)
(* deliverSmsWithFallback.  One action is what a handler does between two  *)
(* awaits, or one database statement.                                      *)
(***************************************************************************)
EXTENDS FiniteSets, Queues

CONSTANTS
    Msgs,           \* messages routed to the phone
    NoMsg,          \* not a message
    Entry,          \* Entry[m]: "android" or "fallback", the path m takes
    Flushes,        \* flushes that may overlap
    Receipts,       \* receipts the phone may return
    Stats,          \* states the receipts report
    ClientModes,    \* charging modes the client may have
    SupplierModes,  \* charging modes the supplier may have
    MaxQueue,       \* MAX_QUEUE_PER_SUPPLIER
    MaxRestarts,    \* bound: process restarts
    MaxFaults       \* bound: failing database statements

ASSUME AndroidAssumption ==
    /\ NoMsg \notin Msgs
    /\ Entry \in [Msgs -> {"android", "fallback"}]
    /\ Stats \subseteq {"DELIVRD", "UNDELIV"}
    /\ ClientModes \subseteq {"on_submit", "on_dlr"}
    /\ SupplierModes \subseteq {"on_submit", "on_dlr"}
    /\ MaxQueue \in Nat \ {0}
    /\ MaxRestarts \in Nat /\ MaxFaults \in Nat

VARIABLES
    clientMode, supplierMode,
    bound,          \* does activeSupplierSessions hold a session of the phone?
    queue,          \* the queue of server-mt-queue.ts
    old,            \* entries queued QUEUE_TTL_MS ago
    expiring,       \* expired entries whose UPDATE is not executed yet
    flush,          \* flushServerMtQueue calls
    submit,         \* where processSubmitSm is with each message
    status, cost, supplierCost,   \* columns of messages; costs are 0 or 1 (the rate)
    counted,        \* increments of tenants.sms_counter, by message they bill
    callback,       \* dlrCallbacks: is one registered?
    billing,        \* what the lookups for the item a flush is at have read
    known,          \* what the lookups before the last registration had read
    blind,          \* history: messages a flush sent with neither mode read
    charge,         \* statements of the callback's charge tasks still to run
    receipt,        \* the deliver_sm handler, for each receipt
    taken,          \* messages the phone took
    restarts, faults

modeVars == <<clientMode, supplierMode>>
lookVars == <<billing, known, blind>>
heldVars == <<queue, old, expiring, flush>>
rowVars  == <<status, cost, supplierCost>>
billVars == <<counted, charge>>
endVars  == <<restarts, faults>>
vars == <<modeVars, lookVars, bound, heldVars, submit, rowVars, billVars, callback,
          receipt, taken, endVars>>

\* Both modes and the rates, the client's mode alone, or nothing
Lookups == {"both", "client", "none"}

NoFlush   == [pc |-> "idle", items |-> <<>>]
NoReceipt == [pc |-> "idle", msg |-> NoMsg, stat |-> "DELIVRD",
              cost |-> 0, supplierCost |-> 0]
NoCharge  == [cost |-> 0, blank |-> 0, counter |-> 0, supplier |-> 0]

IsDlrCharged(mode) == mode = "on_dlr"

\* The modes as a flush knows them; what it has not read stays "on_submit".
ReadClient(b)   == IF b = "none" THEN "on_submit" ELSE clientMode
ReadSupplier(b) == IF b = "both" THEN supplierMode ELSE "on_submit"

\* What a side costs when the message is sent; the receipt costs it the rest.
AtSend(mode) == IF IsDlrCharged(mode) THEN 0 ELSE 1

Init ==
    /\ clientMode \in ClientModes /\ supplierMode \in SupplierModes
    /\ bound \in BOOLEAN
    /\ queue = <<>> /\ old = {} /\ expiring = {}
    /\ flush = [f \in Flushes |-> NoFlush]
    /\ submit = [m \in Msgs |-> "new"]
    /\ status = [m \in Msgs |-> "none"]
    /\ cost = [m \in Msgs |-> 0]
    /\ supplierCost = [m \in Msgs |-> 0]
    /\ counted = [m \in Msgs |-> 0]
    /\ callback = [m \in Msgs |-> FALSE]
    /\ billing = [f \in Flushes |-> "both"]
    /\ known = [m \in Msgs |-> "both"]
    /\ blind = {}
    /\ charge = [m \in Msgs |-> NoCharge]
    /\ receipt = [r \in Receipts |-> NoReceipt]
    /\ taken = {}
    /\ restarts = 0 /\ faults = 0

-----------------------------------------------------------------------------
(* Submission *)

\* deliver_sm to the bound phone: nobody waits for its answer, so the phone may
\* or may not take the message.  A send that throws leaves a failed message.
SendDirect(m) ==
    /\ submit[m] = "new" /\ Entry[m] = "android"
    /\ bound
    /\ \/ /\ submit' = [submit EXCEPT ![m] = "direct"]
          /\ taken' \in {taken, taken \cup {m}}
       \/ /\ submit' = [submit EXCEPT ![m] = "refused"]
          /\ UNCHANGED taken
    /\ UNCHANGED <<modeVars, lookVars, bound, heldVars, rowVars, billVars,
                   callback, receipt, endVars>>

\* enqueueServerMt takes the message: no session (android), or every route
\* failed, this one after its retries (fallback).
Enqueue(m) ==
    /\ submit[m] = "new"
    /\ Entry[m] = "android" => ~bound
    /\ m \notin Range(queue)
    /\ Len(queue) < MaxQueue
    /\ queue' = Append(queue, m)
    /\ submit' = [submit EXCEPT ![m] = "queued"]
    /\ UNCHANGED <<modeVars, lookVars, bound, old, expiring, flush, rowVars,
                   billVars, callback, receipt, taken, endVars>>

\* ... or the queue is full.
Refuse(m) ==
    /\ submit[m] = "new"
    /\ Entry[m] = "android" => ~bound
    /\ Len(queue) >= MaxQueue
    /\ submit' = [submit EXCEPT ![m] = "refused"]
    /\ UNCHANGED <<modeVars, lookVars, bound, heldVars, rowVars, billVars,
                   callback, receipt, taken, endVars>>

\* The row of a message the caller takes for sent
Sent(m) == submit[m] = "direct" \/ (submit[m] = "queued" /\ Entry[m] = "fallback")

InsertedStatus(m) == IF Sent(m) THEN "SENT"
                     ELSE IF submit[m] = "queued" THEN "QUEUED" ELSE "FAILED"

\* The ANDROID_SMS path counts nothing and registers a callback only for a sent
\* message; the default path, told "success" of a queued one, counts it.  It
\* writes the client's rate in the cost column of a failed row.
Insert(m) ==
    /\ submit[m] \in {"direct", "queued", "refused"}
    /\ status' = [status EXCEPT ![m] = InsertedStatus(m)]
    /\ cost' = [cost EXCEPT ![m] =
          IF Sent(m) THEN AtSend(clientMode)
          ELSE IF submit[m] = "refused" /\ Entry[m] = "fallback" THEN 1 ELSE 0]
    /\ supplierCost' = [supplierCost EXCEPT ![m] =
          IF Sent(m) THEN AtSend(supplierMode) ELSE 0]
    /\ submit' = [submit EXCEPT ![m] =
          IF ~Sent(m) THEN "done"
          ELSE IF Entry[m] = "fallback" /\ ~IsDlrCharged(clientMode) THEN "count"
          ELSE "register"]
    /\ UNCHANGED <<modeVars, lookVars, bound, heldVars, billVars, callback,
                   receipt, taken, endVars>>

CountSubmit(m) ==
    /\ submit[m] = "count"
    /\ counted' = [counted EXCEPT ![m] = @ + 1]
    /\ submit' = [submit EXCEPT ![m] = "register"]
    /\ UNCHANGED <<modeVars, lookVars, bound, heldVars, rowVars, charge,
                   callback, receipt, taken, endVars>>

Register(m) ==
    /\ submit[m] = "register"
    /\ callback' = [callback EXCEPT ![m] = TRUE]
    /\ known' = [known EXCEPT ![m] = "both"]
    /\ submit' = [submit EXCEPT ![m] = "done"]
    /\ UNCHANGED <<modeVars, billing, blind, bound, heldVars, rowVars, billVars,
                   receipt, taken, endVars>>

\* The INSERT or the count throws: the client is answered with an error, and a
\* queued message stays queued.
SubmitFault(m) ==
    /\ submit[m] \in {"direct", "queued", "refused", "count"}
    /\ faults < MaxFaults
    /\ faults' = faults + 1
    /\ submit' = [submit EXCEPT ![m] = "errored"]
    /\ UNCHANGED <<modeVars, lookVars, bound, heldVars, rowVars, billVars,
                   callback, receipt, taken, restarts>>

-----------------------------------------------------------------------------
(* The phone's session and the flush its bind starts *)

\* Mutant of Undrained: the queue is read and not cleared.
DrainedKept == queue

\* What drainServerMtQueue leaves behind
Undrained == <<>>

\* requeueServerMt gives every drained entry a new enqueuedAt.
Refreshed == {}

\* handleBind, then flushServerMtQueue up to its first session check; a phone
\* that is bound may bind again.
Bind(f) ==
    /\ flush[f].pc = "idle"
    /\ bound' = TRUE
    /\ flush' = IF queue = <<>> THEN flush
                ELSE [flush EXCEPT ![f] = [pc |-> "lookup", items |-> queue]]
    /\ queue' = Undrained
    /\ old' = Refreshed
    /\ UNCHANGED <<modeVars, lookVars, expiring, submit, rowVars, billVars,
                   callback, receipt, taken, endVars>>

Unbind ==
    /\ bound
    /\ bound' = FALSE
    /\ UNCHANGED <<modeVars, lookVars, heldVars, submit, rowVars, billVars,
                   callback, receipt, taken, endVars>>

Current(f) == Head(flush[f].items)

\* requeueServerMt: at the front, as if it were new, and whatever the length
Requeued(m) == <<m>> \o queue

\* The flush goes on to its next item: it checks that the phone is still bound
\* and, when it is not, requeues that one item and returns.
NextItem(f, q) ==
    LET rest == Tail(flush[f].items) IN
    IF rest = <<>>
      THEN flush' = [flush EXCEPT ![f] = NoFlush] /\ queue' = q
    ELSE IF ~bound
      THEN flush' = [flush EXCEPT ![f] = NoFlush] /\ queue' = <<Head(rest)>> \o q
    ELSE flush' = [flush EXCEPT ![f] = [pc |-> "lookup", items |-> rest]] /\ queue' = q

\* After the billing lookups: deliver_sm through the session there is by now.
Sending(f, b) ==
    /\ flush[f].pc = "lookup"
    /\ bound
    /\ flush' = [flush EXCEPT ![f].pc = "wait"]
    /\ billing' = [billing EXCEPT ![f] = b]
    /\ UNCHANGED <<modeVars, known, bound, queue, old, expiring, submit, rowVars,
                   billVars, callback, receipt, taken>>

FlushSend(f) == Sending(f, "both") /\ UNCHANGED <<blind, endVars>>

\* A lookup of the modes throws: it is logged, what it was to read keeps its
\* default, the rates stay 0, and the message is sent all the same.
FlushBlind(f) ==
    /\ faults < MaxFaults
    /\ faults' = faults + 1
    /\ \/ Sending(f, "client") /\ UNCHANGED blind
       \/ Sending(f, "none") /\ blind' = blind \cup {Current(f)}
    /\ UNCHANGED restarts

\* No session, or the phone refuses the message, or it does not answer in
\* RESPONSE_TIMEOUT_MS, having taken the message or not.
FlushFail(f) ==
    /\ \/ flush[f].pc = "lookup" /\ ~bound /\ UNCHANGED taken
       \/ flush[f].pc = "wait" /\ taken' \in {taken, taken \cup {Current(f)}}
    /\ NextItem(f, Requeued(Current(f)))
    /\ UNCHANGED <<modeVars, lookVars, bound, old, expiring, submit, rowVars,
                   billVars, callback, receipt, endVars>>

\* The phone takes the message.
FlushTaken(f) ==
    /\ flush[f].pc = "wait"
    /\ taken' = taken \cup {Current(f)}
    /\ flush' = [flush EXCEPT ![f].pc = "update"]
    /\ UNCHANGED <<modeVars, lookVars, bound, queue, old, expiring, submit,
                   rowVars, billVars, callback, receipt, endVars>>

\* What a flush that has read b writes for a side
Priced(b, mode) == IF b = "both" THEN AtSend(mode) ELSE 0

\* UPDATE ... SENT, with the costs, WHERE dlr_status = 'QUEUED'; the count does
\* not depend on it.
FlushUpdate(f) ==
    LET m == Current(f)
        b == billing[f]
        hit == status[m] = "QUEUED" IN
    /\ flush[f].pc = "update"
    /\ status' = IF hit THEN [status EXCEPT ![m] = "SENT"] ELSE status
    /\ cost' = IF hit THEN [cost EXCEPT ![m] = Priced(b, clientMode)] ELSE cost
    /\ supplierCost' = IF hit
                         THEN [supplierCost EXCEPT ![m] = Priced(b, supplierMode)]
                         ELSE supplierCost
    /\ flush' = [flush EXCEPT ![f].pc = IF IsDlrCharged(ReadClient(b))
                                          THEN "register" ELSE "count"]
    /\ UNCHANGED <<modeVars, lookVars, bound, queue, old, expiring, submit,
                   billVars, callback, receipt, taken, endVars>>

FlushCount(f) ==
    /\ flush[f].pc = "count"
    /\ counted' = [counted EXCEPT ![Current(f)] = @ + 1]
    /\ flush' = [flush EXCEPT ![f].pc = "register"]
    /\ UNCHANGED <<modeVars, lookVars, bound, queue, old, expiring, submit,
                   rowVars, charge, callback, receipt, taken, endVars>>

\* The UPDATE or the count throws.
FlushFault(f) ==
    /\ flush[f].pc \in {"update", "count"}
    /\ faults < MaxFaults
    /\ faults' = faults + 1
    /\ flush' = [flush EXCEPT ![f].pc = "register"]
    /\ UNCHANGED <<modeVars, lookVars, bound, queue, old, expiring, submit,
                   rowVars, billVars, callback, receipt, taken, restarts>>

\* pool.connect throws, before the lookups or before the UPDATE, outside of any
\* try: the flush is over, and what it had drained is gone.
FlushLost(f) ==
    /\ flush[f].pc \in {"lookup", "update"}
    /\ faults < MaxFaults
    /\ faults' = faults + 1
    /\ flush' = [flush EXCEPT ![f] = NoFlush]
    /\ UNCHANGED <<modeVars, lookVars, bound, queue, old, expiring, submit,
                   rowVars, billVars, callback, receipt, taken, restarts>>

\* Mutant of AfterRegister: the item is requeued as well.
RequeuedAnyway(f) == Requeued(Current(f))

\* The queue after an item is through
AfterRegister(f) == queue

FlushRegister(f) ==
    /\ flush[f].pc = "register"
    /\ callback' = [callback EXCEPT ![Current(f)] = TRUE]
    /\ known' = [known EXCEPT ![Current(f)] = billing[f]]
    /\ NextItem(f, AfterRegister(f))
    /\ UNCHANGED <<modeVars, billing, blind, bound, old, expiring, submit, rowVars,
                   billVars, receipt, taken, endVars>>

-----------------------------------------------------------------------------
(* The TTL sweep *)

\* Half an hour in the queue: the submit handler has long returned.
Age(m) ==
    /\ m \in Range(queue) \ old
    /\ submit[m] \in {"done", "errored"}
    /\ old' = old \cup {m}
    /\ UNCHANGED <<modeVars, lookVars, bound, queue, expiring, flush, submit,
                   rowVars, billVars, callback, receipt, taken, endVars>>

\* Mutant of Overdue: the age test is inverted.
Recent == Range(queue) \ old

\* now - q.enqueuedAt >= QUEUE_TTL_MS
Overdue == old

Expire ==
    /\ Overdue # {}
    /\ queue' = Without(queue, Overdue)
    /\ old' = old \ Overdue
    /\ expiring' = expiring \cup Overdue
    /\ UNCHANGED <<modeVars, lookVars, bound, flush, submit, rowVars, billVars,
                   callback, receipt, taken, endVars>>

\* UPDATE ... FAILED WHERE dlr_status = 'QUEUED'
ExpireWrite(m) ==
    /\ m \in expiring
    /\ status' = IF status[m] = "QUEUED" THEN [status EXCEPT ![m] = "FAILED"]
                 ELSE status
    /\ expiring' = expiring \ {m}
    /\ UNCHANGED <<modeVars, lookVars, bound, queue, old, flush, submit, cost,
                   supplierCost, billVars, callback, receipt, taken, endVars>>

ExpireFault(m) ==
    /\ m \in expiring
    /\ faults < MaxFaults
    /\ faults' = faults + 1
    /\ expiring' = expiring \ {m}
    /\ UNCHANGED <<modeVars, lookVars, bound, queue, old, flush, submit,
                   rowVars, billVars, callback, receipt, taken, restarts>>

-----------------------------------------------------------------------------
(* Receipts *)

\* What a delivery still costs, as the callback knows the modes; without the rates
\* it prices the client at 0.
TasksDue(b) ==
    LET client == 1 - AtSend(ReadClient(b)) IN
    [cost     |-> IF b = "both" THEN client ELSE 0,
     blank    |-> IF b = "both" THEN 0 ELSE client,
     counter  |-> 0,
     supplier |-> 1 - AtSend(ReadSupplier(b))]

\* Mutant of Tasks: the receipt's state is not tested.
TasksAnyStat(b, s) == TasksDue(b)

\* The charge tasks of a callback run with a DELIVRD receipt
Tasks(b, s) == IF s = "DELIVRD" THEN TasksDue(b) ELSE NoCharge

\* One more set of tasks for m, beside those that still run
Started(c, t) == [cost |-> c.cost + t.cost, blank |-> c.blank + t.blank,
                  counter |-> c.counter, supplier |-> c.supplier + t.supplier]

\* callback(...), then the handler's own update starts and the callback goes.
Fire(r, m, s) ==
    /\ callback[m]
    /\ callback' = [callback EXCEPT ![m] = FALSE]
    /\ charge' = [charge EXCEPT ![m] = Started(@, Tasks(known[m], s))]
    /\ receipt' = [receipt EXCEPT ![r] =
                      [NoReceipt EXCEPT !.pc = "select", !.msg = m, !.stat = s]]

\* A receipt that carries our id, for a message the phone took.  Under another id
\* findMatch goes on to pendingDeliveries by destination; no message of these two
\* paths has an entry there.
Arrive(r, m, s) ==
    /\ receipt[r].pc = "idle"
    /\ bound /\ m \in taken
    /\ \/ Fire(r, m, s)
       \/ /\ ~callback[m]
          /\ receipt' = [receipt EXCEPT ![r] =
                            [NoReceipt EXCEPT !.pc = "grace", !.msg = m, !.stat = s]]
          /\ UNCHANGED <<callback, charge>>
    /\ UNCHANGED <<modeVars, lookVars, bound, heldVars, submit, rowVars,
                   counted, taken, endVars>>

\* Registered within the grace window
LateMatch(r) ==
    /\ receipt[r].pc = "grace"
    /\ Fire(r, receipt[r].msg, receipt[r].stat)
    /\ UNCHANGED <<modeVars, lookVars, bound, heldVars, submit, rowVars,
                   counted, taken, endVars>>

Closed(r) == [receipt EXCEPT ![r] = [@ EXCEPT !.pc = "done", !.cost = 0,
                                              !.supplierCost = 0]]

\* recoverServerDlrFromDb: the SELECT of a SENT row, or the receipt is lost.
RecoverRead(r) ==
    /\ receipt[r].pc = "grace"
    /\ receipt' = IF status[receipt[r].msg] = "SENT"
                    THEN [receipt EXCEPT ![r].pc = "recover"] ELSE Closed(r)
    /\ UNCHANGED <<modeVars, lookVars, bound, heldVars, submit, rowVars,
                   billVars, callback, taken, endVars>>

Outcome(r) == IF receipt[r].stat = "DELIVRD" THEN "DELIVERED" ELSE "FAILED"

\* ... its guarded UPDATE, which charges nothing,
RecoverWrite(r) ==
    LET m == receipt[r].msg IN
    /\ receipt[r].pc = "recover"
    /\ status' = IF status[m] = "SENT" THEN [status EXCEPT ![m] = Outcome(r)]
                 ELSE status
    /\ receipt' = [receipt EXCEPT ![r].pc = "forget"]
    /\ UNCHANGED <<modeVars, lookVars, bound, heldVars, submit, cost,
                   supplierCost, billVars, callback, taken, endVars>>

\* ... and the callback that may have been registered since is removed.
RecoverEnd(r) ==
    /\ receipt[r].pc = "forget"
    /\ callback' = [callback EXCEPT ![receipt[r].msg] = FALSE]
    /\ receipt' = Closed(r)
    /\ UNCHANGED <<modeVars, lookVars, bound, heldVars, submit, rowVars,
                   billVars, taken, endVars>>

\* SELECT ... cost, supplier_cost
JobRead(r) ==
    LET m == receipt[r].msg
        charged == receipt[r].stat = "DELIVRD" /\ status[m] # "none" IN
    /\ receipt[r].pc = "select"
    /\ receipt' = [receipt EXCEPT ![r] = [@ EXCEPT
          !.pc = IF charged /\ cost[m] = 0 /\ IsDlrCharged(clientMode)
                   THEN "count" ELSE "write",
          !.cost = cost[m],
          !.supplierCost = IF charged /\ IsDlrCharged(supplierMode) THEN 1
                           ELSE supplierCost[m]]]
    /\ UNCHANGED <<modeVars, lookVars, bound, heldVars, submit, rowVars,
                   billVars, callback, taken, endVars>>

\* The handler charges an on_dlr client whose row has no cost yet.
JobCount(r) ==
    /\ receipt[r].pc = "count"
    /\ counted' = [counted EXCEPT ![receipt[r].msg] = @ + 1]
    /\ receipt' = [receipt EXCEPT ![r] = [@ EXCEPT !.pc = "write", !.cost = 1]]
    /\ UNCHANGED <<modeVars, lookVars, bound, heldVars, submit, rowVars,
                   charge, callback, taken, endVars>>

JobWrite(r) ==
    LET m == receipt[r].msg IN
    /\ receipt[r].pc = "write"
    /\ IF status[m] = "none" THEN UNCHANGED rowVars
       ELSE /\ status' = [status EXCEPT ![m] = Outcome(r)]
            /\ cost' = [cost EXCEPT ![m] = receipt[r].cost]
            /\ supplierCost' = [supplierCost EXCEPT ![m] = receipt[r].supplierCost]
    /\ receipt' = Closed(r)
    /\ UNCHANGED <<modeVars, lookVars, bound, heldVars, submit, billVars,
                   callback, taken, endVars>>

\* A statement of the recovery or of the job throws, and it ends; a recovery that
\* throws after its UPDATE leaves the callback.  A failing rate lookup is swallowed
\* and charges nothing; a failing count leaves the connection on the public schema,
\* where the UPDATE then changes no row of the tenant.
JobFault(r) ==
    /\ receipt[r].pc \notin {"idle", "done"}
    /\ faults < MaxFaults
    /\ faults' = faults + 1
    /\ \/ receipt' = Closed(r)
       \/ receipt[r].pc = "count" /\ receipt' = [receipt EXCEPT ![r].pc = "write"]
    /\ UNCHANGED <<modeVars, lookVars, bound, heldVars, submit, rowVars, billVars,
                   callback, taken, restarts>>

\* The callback's tasks: the client's price, then the counter; the supplier's.
ChargeCost(m) ==
    /\ charge[m].cost > 0
    /\ charge' = [charge EXCEPT ![m].cost = @ - 1, ![m].counter = @ + 1]
    /\ IF status[m] = "none" THEN UNCHANGED <<cost, supplierCost>>
       ELSE /\ cost' = [cost EXCEPT ![m] = 1]
            /\ supplierCost' = [supplierCost EXCEPT ![m] = AtSend(supplierMode)]
    /\ UNCHANGED <<modeVars, lookVars, bound, heldVars, submit, status,
                   counted, callback, receipt, taken, endVars>>

\* ... the price of a flush that could not read the rates.
ChargeBlank(m) ==
    /\ charge[m].blank > 0
    /\ charge' = [charge EXCEPT ![m].blank = @ - 1, ![m].counter = @ + 1]
    /\ IF status[m] = "none" THEN UNCHANGED <<cost, supplierCost>>
       ELSE /\ cost' = [cost EXCEPT ![m] = 0]
            /\ supplierCost' = [supplierCost EXCEPT ![m] = 0]
    /\ UNCHANGED <<modeVars, lookVars, bound, heldVars, submit, status, counted,
                   callback, receipt, taken, endVars>>

ChargeCounter(m) ==
    /\ charge[m].counter > 0
    /\ charge' = [charge EXCEPT ![m].counter = @ - 1]
    /\ counted' = [counted EXCEPT ![m] = @ + 1]
    /\ UNCHANGED <<modeVars, lookVars, bound, heldVars, submit, rowVars,
                   callback, receipt, taken, endVars>>

ChargeSupplier(m) ==
    /\ charge[m].supplier > 0
    /\ charge' = [charge EXCEPT ![m].supplier = @ - 1]
    /\ supplierCost' = IF status[m] = "none" THEN supplierCost
                       ELSE [supplierCost EXCEPT ![m] = 1]
    /\ UNCHANGED <<modeVars, lookVars, bound, heldVars, submit, status, cost,
                   counted, callback, receipt, taken, endVars>>

ChargeFault(m) ==
    /\ faults < MaxFaults
    /\ faults' = faults + 1
    /\ \E task \in {"cost", "blank", "counter", "supplier"} :
          /\ charge[m][task] > 0
          /\ charge' = [charge EXCEPT ![m][task] = @ - 1]
    /\ UNCHANGED <<modeVars, lookVars, bound, heldVars, submit, rowVars,
                   counted, callback, receipt, taken, restarts>>

-----------------------------------------------------------------------------
\* The process restarts: what is in memory is lost.
Restart ==
    /\ restarts < MaxRestarts
    /\ restarts' = restarts + 1
    /\ bound' = FALSE
    /\ queue' = <<>> /\ old' = {} /\ expiring' = {}
    /\ flush' = [f \in Flushes |-> NoFlush]
    /\ submit' = [m \in Msgs |-> IF submit[m] \in {"new", "done", "errored"}
                                   THEN submit[m] ELSE "errored"]
    /\ callback' = [m \in Msgs |-> FALSE]
    /\ billing' = [f \in Flushes |-> "both"]
    /\ known' = [m \in Msgs |-> "both"]
    /\ charge' = [m \in Msgs |-> NoCharge]
    /\ receipt' = [r \in Receipts |->
                      IF receipt[r].pc = "idle" THEN receipt[r]
                      ELSE [receipt[r] EXCEPT !.pc = "done", !.cost = 0,
                                              !.supplierCost = 0]]
    /\ UNCHANGED <<modeVars, blind, rowVars, counted, taken, faults>>

SubmitStep(m) ==
    \/ SendDirect(m) \/ Enqueue(m) \/ Refuse(m) \/ Insert(m) \/ CountSubmit(m)
    \/ Register(m)

FlushStep(f) ==
    \/ FlushSend(f) \/ FlushFail(f) \/ FlushTaken(f) \/ FlushUpdate(f)
    \/ FlushCount(f) \/ FlushRegister(f)

ReceiptStep(r) ==
    \/ LateMatch(r) \/ RecoverRead(r) \/ RecoverWrite(r) \/ RecoverEnd(r)
    \/ JobRead(r) \/ JobCount(r) \/ JobWrite(r)

ChargeStep(m) ==
    ChargeCost(m) \/ ChargeBlank(m) \/ ChargeCounter(m) \/ ChargeSupplier(m)

Fault ==
    \/ \E m \in Msgs : SubmitFault(m) \/ ExpireFault(m) \/ ChargeFault(m)
    \/ \E f \in Flushes : FlushFault(f) \/ FlushBlind(f) \/ FlushLost(f)
    \/ \E r \in Receipts : JobFault(r)

Next ==
    \/ \E m \in Msgs : SubmitStep(m) \/ Age(m) \/ ExpireWrite(m) \/ ChargeStep(m)
    \/ \E f \in Flushes : Bind(f) \/ FlushStep(f)
    \/ \E r \in Receipts, m \in Msgs, s \in Stats : Arrive(r, m, s)
    \/ \E r \in Receipts : ReceiptStep(r)
    \/ Unbind \/ Expire \/ Fault \/ Restart

Spec == Init /\ [][Next]_vars

\* Handlers and flushes that started run on (a flush waits for the phone at most
\* RESPONSE_TIMEOUT_MS), time passes, and the sweep's interval runs for as long
\* as the process does.  The phone need not bind again, nor return a receipt.
FairSpec ==
    /\ Spec
    /\ \A m \in Msgs : /\ WF_vars(SubmitStep(m) /\ submit[m] # "new")
                       /\ WF_vars(Age(m)) /\ WF_vars(ExpireWrite(m))
    /\ \A f \in Flushes : WF_vars(FlushStep(f))
    /\ WF_vars(Expire)

-----------------------------------------------------------------------------
(* The queue *)

InQueue(m) == m \in Range(queue)
InFlush(m, f) == m \in Range(flush[f].items)
Places(m) == {f \in Flushes : InFlush(m, f)}
              \cup (IF InQueue(m) THEN {"queue"} ELSE {})
              \cup (IF m \in expiring THEN {"expiring"} ELSE {})

NoRepeats(q) == \A i, j \in 1..Len(q) : q[i] = q[j] => i = j

\* A queued message is in one place: the queue, one flush or the sweep.  Two
\* flushes of a phone that binds twice never hold the same message, and the
\* sweep never fails a message a flush is delivering.
HeldOnce ==
    /\ NoRepeats(queue)
    /\ \A f \in Flushes : NoRepeats(flush[f].items)
    /\ \A m \in Msgs : Cardinality(Places(m)) <= 1

FailedUnreported(m) ==
    status[m] = "FAILED" /\ \A r \in Receipts : receipt[r].msg # m

\* On the ANDROID_SMS path a submit-charged client pays for a message once at
\* most, however often the flush that delivers it is repeated; and one that failed
\* without a receipt (the queue was full, or its entry expired) has cost neither
\* side anything.
QueuedChargedOnce ==
    \A m \in Msgs : Entry[m] = "android" =>
        /\ ~IsDlrCharged(clientMode) => counted[m] <= 1
        /\ FailedUnreported(m) => counted[m] = 0 /\ cost[m] = 0 /\ supplierCost[m] = 0

DeliveryReported(m) ==
    \E r \in Receipts : receipt[r].msg = m /\ receipt[r].stat = "DELIVRD"

\* An on_dlr side pays for a message only after a DELIVRD receipt for it: not
\* for a flush, an expiry or a failure receipt.  The exception is the client of a
\* message a flush sends when it could read no mode: it counts at once.
PaidOnDelivery ==
    \A m \in Msgs : ~DeliveryReported(m) =>
        /\ IsDlrCharged(clientMode) /\ m \notin blind => counted[m] = 0
        /\ IsDlrCharged(supplierMode) => supplierCost[m] = 0

\* While the phone stays away, a message in the queue does not stay QUEUED: the
\* sweep drops its entry and writes its failure.
OfflineExpires ==
    \A m \in Msgs :
        InQueue(m) /\ status[m] = "QUEUED" ~> bound \/ status[m] # "QUEUED"

=============================================================================
