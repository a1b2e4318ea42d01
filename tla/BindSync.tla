------------------------------- MODULE BindSync -------------------------------
(***************************************************************************)
(* The column bind_status of one client or supplier and the job that       *)
(* repairs it (sync-bind-status.ts).  Every 30 seconds the job reads the   *)
(* column, compares it with the session maps and writes what it found,     *)
(* without testing the row again.                                          *)
(***************************************************************************)

VARIABLES
    bindStatus,     \* the column; the writers that ignore it are in other modules
    sync            \* syncAllBindStatus: where it is, what it read or will write

syncVars == <<bindStatus, sync>>

BindStatuses == {"BOUND", "UNBOUND", "BIND_FAILED"}

SyncIdle == [pc |-> "idle", value |-> "UNBOUND"]

SyncInit ==
    /\ bindStatus \in BindStatuses \ {"BIND_FAILED"}    \* as the last process left it
    /\ sync = SyncIdle

SyncRead ==
    /\ sync.pc = "idle"
    /\ sync' = [pc |-> "read", value |-> bindStatus]
    /\ UNCHANGED bindStatus

\* Mutant of Verdict: only sessions that are gone are noticed.
VerdictGone(connected, value) == IF connected THEN value ELSE "UNBOUND"
Verdict(connected, value) ==
    CASE connected                     -> "BOUND"
      [] ~connected /\ value = "BOUND" -> "UNBOUND"
      [] OTHER                         -> value

\* The maps are looked at when the row's turn comes.
SyncTest(connected) ==
    /\ sync.pc = "read"
    /\ sync' = LET v == Verdict(connected, sync.value) IN
               IF v = sync.value THEN SyncIdle ELSE [pc |-> "write", value |-> v]
    /\ UNCHANGED bindStatus

SyncWrite ==
    /\ sync.pc = "write"
    /\ bindStatus' = sync.value
    /\ sync' = SyncIdle

SyncTypeOK ==
    /\ bindStatus \in BindStatuses
    /\ sync \in [pc : {"idle", "read", "write"}, value : BindStatuses]
=============================================================================
