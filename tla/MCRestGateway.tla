---------------------------- MODULE MCRestGateway ----------------------------
(* RestGateway for TLC: the run gives every constant its value. *)
EXTENDS RestGateway

==============================================================================
