-------------------------- MODULE MCAndroidGateway --------------------------
(* Instances of AndroidGateway for TLC. *)
EXTENDS AndroidGateway, TLC

AndroidEntries == [m \in Msgs |-> "android"]

\* One message of each path
MixedEntries ==
    LET first == CHOOSE m \in Msgs : TRUE
    IN [m \in Msgs |-> IF m = first THEN "android" ELSE "fallback"]

FlushSymmetry == Permutations(Flushes)

=============================================================================
