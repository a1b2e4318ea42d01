---------------------------- MODULE MCDlrDelivery ----------------------------
(* DlrDelivery with the keys, bind types and receipts the runs choose. *)
EXTENDS DlrDelivery

EpochDates == [d \in Dlrs |-> "epoch"]

CONSTANT User

\* Every session under the user name
OneKey == [s \in Sessions |-> User]

\* Every receipt reports a delivery.
SmppRows == [d \in Dlrs |-> "DELIVERED"]

\* Bound: a restart, a failing statement or a refused send, one of them.
OneTrouble == restarts + faults + refused <= 1

\* States are told apart by what can still matter: not by the histories of the
\* store, which no action reads and none of the properties checked with this
\* view mentions, and not by the table once the load of the last start is over
\* and nothing will read it.
LiveView ==
    <<IF load.pc = "done" /\ restarts = MaxRestarts THEN <<>>
      ELSE <<table, writes>>,
      queue, load, delayed, restarts, faults, refused, receiptVars, bindVars,
      flushVars, clientVars>>

==============================================================================
