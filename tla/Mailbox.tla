-------------------------------- MODULE Mailbox --------------------------------
(***************************************************************************)
(* What DlrStore promises of the receipts of one client, without its       *)
(* database: a bounded queue in order of arrival.  A full one loses its    *)
(* oldest receipt, receipts may expire, a crash loses all of them, and     *)
(* once after each start some that arrived earlier may be brought back,    *)
(* behind what has arrived since.                                          *)
(***************************************************************************)
EXTENDS Queues

CONSTANTS Dlrs, Cap

VARIABLES
    arrived,        \* receipts that arrived, in order
    pending,        \* the queue
    expired,        \* receipts that may be given up
    sent,           \* receipts handed to the client, in order
    refillable      \* has the process not refilled the queue yet?

vars == <<arrived, pending, expired, sent, refillable>>

Init ==
    /\ arrived = <<>> /\ pending = <<>> /\ sent = <<>>
    /\ expired \subseteq Dlrs
    /\ refillable = TRUE

Accept(d) ==
    /\ d \notin Range(arrived)
    /\ arrived' = Append(arrived, d)
    /\ pending' = Newest(Append(pending, d), Cap)
    /\ UNCHANGED <<expired, sent, refillable>>

\* All are handed over but those in kept, which wait on in their order.
HandOver(kept) ==
    /\ pending # <<>>
    /\ sent' = sent \o Without(pending, kept)
    /\ pending' = Kept(pending, kept)
    /\ UNCHANGED <<arrived, expired, refillable>>

GiveUp(gone) ==
    /\ gone \subseteq expired
    /\ pending' = Without(pending, gone)
    /\ UNCHANGED <<arrived, expired, sent, refillable>>

Expire ==
    /\ expired \subseteq expired' /\ expired' \subseteq Dlrs
    /\ UNCHANGED <<arrived, pending, sent, refillable>>

\* The oldest lost of them make room only in a full queue.
Refill(lost) ==
    /\ refillable
    /\ IsPrefix(SubSeq(pending, lost + 1, Len(pending)), pending')
    /\ Range(pending') \subseteq Range(arrived)
    /\ Len(pending') <= Cap /\ (lost > 0 => Len(pending') = Cap)
    /\ refillable' = FALSE
    /\ UNCHANGED <<arrived, expired, sent>>

Crash ==
    /\ pending' = <<>> /\ refillable' = TRUE
    /\ UNCHANGED <<arrived, expired, sent>>

Next ==
    \/ \E d \in Dlrs : Accept(d)
    \/ \E kept \in SUBSET Range(pending) : HandOver(kept)
    \/ \E gone \in SUBSET Range(pending) : GiveUp(gone)
    \/ \E lost \in 0..Len(pending) : Refill(lost)
    \/ Expire \/ Crash

Spec == Init /\ [][Next]_vars
=============================================================================
