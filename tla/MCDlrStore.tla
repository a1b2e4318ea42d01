------------------------------ MODULE MCDlrStore ------------------------------
(* DlrStore with the submit dates the runs give the receipts. *)
EXTENDS DlrStore

EpochDates == [d \in Dlrs |-> "epoch"]

\* One receipt of a date the cleanup can tell, the others dated ahead
MixedDates ==
    LET first == CHOOSE d \in Dlrs : TRUE
    IN [d \in Dlrs |-> IF d = first THEN "epoch" ELSE "ahead"]

DlrSymmetry == Permutations(Dlrs)

===============================================================================
