-------------------------- MODULE MCSmsLifecycle --------------------------
(* Small instances of SmsLifecycle for TLC. *)
EXTENDS SmsLifecycle, TLC

\* Every message goes to the same number, so that the fallback is ambiguous.
SameDestination == [m \in Msgs |-> "d"]

\* Every message goes to a number of its own.
OwnDestination == [m \in Msgs |-> m]

\* With OwnDestination the messages are interchangeable too.
PairSymmetry == Permutations(Receipts) \cup Permutations(Msgs)

HandlerSymmetry == Permutations(Receipts) \cup Permutations(Sweeps)

=============================================================================
