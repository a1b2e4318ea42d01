-------------------------------- MODULE Queues --------------------------------
(***************************************************************************)
(* The queues of the program are JavaScript arrays that are filtered and   *)
(* cut to a limit (dlr-queue.ts, dlr-queue-persist.ts, smpp-server.ts).    *)
(* Both are written as functions, which the provers can expand.            *)
(***************************************************************************)
EXTENDS Integers, SequencesExt

\* The entries of q that are in S, in their order (Array.filter)
Kept(q, S) ==
    LET kept[n \in 0..Len(q)] ==
            IF n = 0 THEN <<>>
            ELSE IF q[n] \in S THEN Append(kept[n - 1], q[n]) ELSE kept[n - 1]
    IN  kept[Len(q)]

\* The others
Without(q, S) == Kept(q, Range(q) \ S)

\* The newest n entries of q
Newest(q, n) == IF Len(q) > n THEN SubSeq(q, Len(q) - n + 1, Len(q)) ELSE q
===============================================================================
