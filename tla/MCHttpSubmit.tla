----------------------------- MODULE MCHttpSubmit -----------------------------
(* Instances of HttpSubmit: requests that all repeat one content. *)
EXTENDS HttpSubmit

CONSTANT TheKey

\* Requests that repeat each other, or one message and polls that overlap.
RepeatsOrPolls == {[requests |-> Requests, passes |-> {}],
                   [requests |-> {CHOOSE r \in Requests : TRUE}, passes |-> Passes]}

OneContent == [r \in Requests |-> TheKey]
=============================================================================
