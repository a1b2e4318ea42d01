-------------------------- MODULE MCDeliverFallback --------------------------
(* Plans of two routes. *)
EXTENDS DeliverFallback

TypicalPlans == {<<"smsc", "phone">>, <<"phone", "modem">>, <<"modem", "smsc">>}
==============================================================================
