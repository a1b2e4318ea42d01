------------------------------- MODULE DlrStore -------------------------------
(***************************************************************************)
(* The delivery receipts waiting for one disconnected ESME client: the     *)
(* in-memory queue (dlr-queue.ts) and its copy in the tenant's             *)
(* pending_dlrs table (dlr-queue-persist.ts).                              *)
(*                                                                         *)
(* The memory side of an operation is synchronous.  Its database side is a *)
(* statement nobody waits for, on a pooled connection of its own: here a   *)
(* bag of writes in flight, which the database executes in any order and a *)
(* process restart loses.                                                  *)
(***************************************************************************)
EXTENDS Queues, Bags

CONSTANTS
    Dlrs,           \* receipts, by the message they are for
    Cap,            \* MAX_DLR_QUEUE_PER_CLIENT
    DateOf,         \* DateOf[d]: how the cleanup reads the submit date of d
    MaxRestarts,    \* bound: process restarts
    MaxFaults,      \* bound: failing database statements
    MaxRefused,     \* bound: flushes and live pushes in which a send throws
    MaxOld          \* bound: receipts that outlive the TTL while we watch

\* A submit date is either the epoch seconds the cleanup expects, or a date it
\* reads as long past ("2024-05-01 ...", or none) or far ahead ("2405011200").
Dates == {"epoch", "past", "ahead"}

ASSUME StoreAssumption ==
    /\ IsFiniteSet(Dlrs)
    /\ Cap \in Nat \ {0}
    /\ DateOf \in [Dlrs -> Dates]
    /\ MaxRestarts \in Nat
    /\ MaxFaults \in Nat
    /\ MaxRefused \in Nat
    /\ MaxOld \in Nat

VARIABLES
    arrived,    \* receipts that were enqueued, in order
    old,        \* receipts older than DLR_QUEUE_TTL_MS
    queue,      \* pendingDlrQueue, for this client
    table,      \* rows of pending_dlrs, by created_at
    writes,     \* statements in flight
    load,       \* loadAllDlrsFromDb, once per process
    cleaning,   \* is the database half of a cleanup outstanding?
    sent,       \* history: receipts pushed to the client, in order
    delayed,    \* history: receipts whose send threw, or read back by the load
    restarts, faults, refused

boundVars == <<restarts, faults, refused>>
storeVars == <<arrived, old, queue, table, writes, load, cleaning, sent, delayed,
               boundVars>>

-----------------------------------------------------------------------------
(* dlr-queue.ts *)

\* Mutant of Enqueued: the limit is tested one too late.
EnqueuedLate(q, d) == IF Len(q) > Cap THEN Append(Tail(q), d) ELSE Append(q, d)

\* Mutant of Enqueued: unshift for push.
EnqueuedFront(q, d) == IF Len(q) >= Cap THEN <<d>> \o Tail(q) ELSE <<d>> \o q

\* A full queue loses its oldest receipt.
Enqueued(q, d) == IF Len(q) >= Cap THEN Append(Tail(q), d) ELSE Append(q, d)

\* The loop that enqueues ds, one after the other
EnqueuedAll(q, ds) ==
    LET after[n \in 0..Len(ds)] ==
            IF n = 0 THEN q ELSE Enqueued(after[n - 1], ds[n])
    IN  after[Len(ds)]

\* Mutant of Requeued: the unsent receipts are forgotten.
RequeuedNone(q, ds) == q

\* What requeueDlrs does (its comment says it prepends).
Requeued(q, ds) == q \o ds

\* Mutant of Stale: the comparison with the cutoff is the wrong way round.
StaleReversed(d) == DateOf[d] = "past" \/ (DateOf[d] = "epoch" /\ d \notin old)

\* Is d past its time, as the cleanup reads its date?
Stale(d) == DateOf[d] = "past" \/ (DateOf[d] = "epoch" /\ d \in old)

\* The receipts cleanupStaleDlrs filters out
StaleDlrs == {d \in Dlrs : Stale(d)}

-----------------------------------------------------------------------------
(* Statements of dlr-queue-persist.ts *)

InsertOf(d, trims) == [op |-> "insert", dlrs |-> {d}, trims |-> trims]
TrimWrite          == [op |-> "trim", dlrs |-> {}, trims |-> FALSE]
DeleteOf(S)        == [op |-> "delete", dlrs |-> S, trims |-> FALSE]

InFlight(w) == BagIn(w, writes)

Settled(w) == writes (-) SetToBag({w})

Statement == {InsertOf(d, b) : d \in Dlrs, b \in BOOLEAN} \cup {TrimWrite}
             \cup {DeleteOf(S) : S \in SUBSET Dlrs}

StoreInit ==
    /\ arrived = <<>> /\ old = {}
    /\ queue = <<>> /\ table = <<>>
    /\ writes = EmptyBag
    /\ load = [pc |-> "due", rows |-> <<>>]
    /\ cleaning = FALSE
    /\ sent = <<>> /\ delayed = {}
    /\ restarts = 0 /\ faults = 0 /\ refused = 0

\* enqueueDlrPersist for each of ds, distinct receipts: with a full queue the
\* row's INSERT is followed by a trim.
EnqueueEach(ds) ==
    /\ arrived' = arrived \o Without(ds, Range(arrived))
    /\ queue' = EnqueuedAll(queue, ds)
    /\ writes' = writes (+) SetToBag({InsertOf(ds[i], Len(queue) + i > Cap) :
                                         i \in DOMAIN ds})
    /\ UNCHANGED <<old, table, load, cleaning, sent, delayed, boundVars>>

Enqueue(d) == d \notin Range(arrived) /\ EnqueueEach(<<d>>)

Copies(q, d) == Cardinality({i \in DOMAIN q : q[i] = d})

\* The statements of a flush: the DELETE for all it claimed, then one INSERT for
\* each receipt it puts back.
FlushWrites(claimed, unsent) ==
    SetToBag({DeleteOf(Range(claimed))})
        (+) [w \in {InsertOf(d, FALSE) : d \in unsent} |->
                Copies(claimed, CHOOSE d \in w.dlrs : TRUE)]

\* flushPendingDlrs from the dequeue on, which does not await: the receipts in
\* unsent throw and are put back into the queue the dequeue has just emptied.
Flush(unsent) ==
    /\ queue # <<>>
    /\ unsent # {} => refused < MaxRefused
    /\ refused' = IF unsent # {} THEN refused + 1 ELSE refused
    /\ sent' = sent \o Without(queue, unsent)
    /\ delayed' = delayed \cup unsent
    /\ queue' = Requeued(<<>>, Kept(queue, unsent))
    /\ writes' = writes (+) FlushWrites(queue, unsent)
    /\ UNCHANGED <<arrived, old, table, load, cleaning, restarts, faults>>

\* persistToDb is an INSERT and, if the queue was full, a second statement.
ExecInsert(d, trims) ==
    /\ InFlight(InsertOf(d, trims))
    /\ table' = Append(table, d)
    /\ writes' = IF trims THEN Settled(InsertOf(d, trims)) (+) SetToBag({TrimWrite})
                 ELSE Settled(InsertOf(d, trims))
    /\ UNCHANGED <<arrived, old, queue, load, cleaning, sent, delayed, boundVars>>

\* Keep the Cap latest rows.
ExecTrim ==
    /\ InFlight(TrimWrite)
    /\ table' = Newest(table, Cap)
    /\ writes' = Settled(TrimWrite)
    /\ UNCHANGED <<arrived, old, queue, load, cleaning, sent, delayed, boundVars>>

\* Mutant of Deleted: the whole client's rows go.
DeletedAll(S) == <<>>

\* DELETE ... message_id = ANY(...): every row of these messages
Deleted(S) == Without(table, S)

ExecDelete(S) ==
    /\ InFlight(DeleteOf(S))
    /\ table' = Deleted(S)
    /\ writes' = Settled(DeleteOf(S))
    /\ UNCHANGED <<arrived, old, queue, load, cleaning, sent, delayed, boundVars>>

\* A statement fails; its rejection is logged.
WriteFault(w) ==
    /\ InFlight(w)
    /\ faults < MaxFaults
    /\ faults' = faults + 1
    /\ writes' = Settled(w)
    /\ UNCHANGED <<arrived, old, queue, table, load, cleaning, sent, delayed,
                   restarts, refused>>

-----------------------------------------------------------------------------
(* Startup and cleanup *)

LoadRead ==
    /\ load.pc = "due"
    /\ load' = [pc |-> "read", rows |-> table]
    /\ UNCHANGED <<arrived, old, queue, table, writes, cleaning, sent, delayed,
                   boundVars>>

\* Mutant of Loaded: only fills an empty queue.
LoadedIfEmpty(q, rows) == IF q = <<>> THEN EnqueuedAll(q, rows) ELSE q

\* memQueue.enqueueDlr for each row, behind what has arrived since the start
Loaded(q, rows) == EnqueuedAll(q, rows)

LoadApply ==
    /\ load.pc = "read"
    /\ queue' = Loaded(queue, load.rows)
    /\ delayed' = delayed \cup Range(load.rows)
    /\ load' = [pc |-> "done", rows |-> <<>>]
    /\ UNCHANGED <<arrived, old, table, writes, cleaning, sent, boundVars>>

\* The SELECT throws: nothing is loaded until the next start.
LoadFault ==
    /\ load.pc = "due"
    /\ faults < MaxFaults
    /\ faults' = faults + 1
    /\ load' = [pc |-> "failed", rows |-> <<>>]
    /\ UNCHANGED <<arrived, old, queue, table, writes, cleaning, sent, delayed,
                   restarts, refused>>

\* Ten minutes pass since d.
Age(d) ==
    /\ d \in Range(arrived) \ old
    /\ Cardinality(old) < MaxOld
    /\ old' = old \cup {d}
    /\ UNCHANGED <<arrived, queue, table, writes, load, cleaning, sent, delayed,
                   boundVars>>

\* cleanupStaleDlrsPersist: the queue at once ...
CleanupMemory ==
    /\ ~cleaning
    /\ cleaning' = TRUE
    /\ queue' = Without(queue, StaleDlrs)
    /\ UNCHANGED <<arrived, old, table, writes, load, sent, delayed, boundVars>>

\* ... then the rows by created_at, which is no earlier than the receipt: a row
\* is past its time only if the receipt is, but may be younger.
CleanupDb ==
    /\ cleaning
    /\ cleaning' = FALSE
    /\ \E S \in SUBSET old : table' = Without(table, S)
    /\ UNCHANGED <<arrived, old, queue, writes, load, sent, delayed, boundVars>>

\* What is in memory goes; so do the statements that did not execute.
StoreRestart ==
    /\ restarts < MaxRestarts
    /\ restarts' = restarts + 1
    /\ queue' = <<>>
    /\ writes' = EmptyBag
    /\ load' = [pc |-> "due", rows |-> <<>>]
    /\ cleaning' = FALSE
    /\ UNCHANGED <<arrived, old, table, sent, delayed, faults, refused>>

Exec ==
    \/ \E d \in Dlrs, trims \in BOOLEAN : ExecInsert(d, trims)
    \/ ExecTrim
    \/ \E S \in SUBSET Dlrs : ExecDelete(S)

StoreNext ==
    \/ \E d \in Dlrs : Enqueue(d) \/ Age(d)
    \/ \E unsent \in SUBSET Range(queue) : Flush(unsent)
    \/ Exec
    \/ \E w \in Statement : WriteFault(w)
    \/ LoadRead \/ LoadApply \/ LoadFault
    \/ CleanupMemory \/ CleanupDb
    \/ StoreRestart

StoreSpec == StoreInit /\ [][StoreNext]_storeVars

\* The cleanup's interval runs as long as the process does, and its queries are
\* answered or fail.
StoreFairSpec == StoreSpec /\ WF_storeVars(CleanupMemory) /\ WF_storeVars(CleanupDb)

-----------------------------------------------------------------------------
Unsent == Range(arrived) \ Range(sent)

\* No statement outstanding and the startup load over
Quiet == writes = EmptyBag /\ load.pc = "done" /\ ~cleaning

\* Durability: as long as no send was refused and no statement failed, once the
\* statements in flight have executed every queued receipt the client has not
\* seen and that is within its TTL has its row, so a restart would bring it back.
\* (After a refused send the DELETE of the flush may take the new row with it.)
QueuedIsStored ==
    Quiet /\ refused = 0 /\ faults = 0 =>
        \A d \in Unsent \ old : d \in Range(queue) => d \in Range(table)

\* ... and no receipt the client has not seen is left behind in the table: as
\* long as it is within its TTL it is in the queue the next flush claims.
StoredIsQueued ==
    load.pc = "done" =>
        \A d \in Unsent \ old : d \in Range(table) => d \in Range(queue)

ArrivedBefore(d, e) ==
    \E i, j \in 1..Len(arrived) : i < j /\ arrived[i] = d /\ arrived[j] = e

\* A receipt overtakes an earlier one only if the earlier one's send threw or it
\* was read back from the table at startup.
SentInOrder ==
    \A i, j \in 1..Len(sent) :
        i < j /\ ArrivedBefore(sent[j], sent[i]) => sent[j] \in delayed

\* A receipt that is past its TTL, and whose date the cleanup can tell, leaves
\* the queue, and does not stay there however often the load brings it back.
Expires ==
    \A d \in Dlrs :
        DateOf[d] = "epoch" /\ d \in old /\ d \in Range(queue)
            ~> d \notin Range(queue)

\* The load of this start may still bring rows back.
MayLoad == load.pc \in {"due", "read"}

Box == INSTANCE Mailbox WITH
           pending <- queue, expired <- StaleDlrs, refillable <- MayLoad

\* To its client the queue is a Mailbox: no statement in flight, in whatever order
\* it executes, shows in it, but for what the load of a start brings back.
IsMailbox == Box!Spec

=============================================================================
