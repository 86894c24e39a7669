------------------------------ MODULE MCSession ------------------------------
(* One connection, of either kind, on which the client pipelines any mix of *)
(* items; deep enough for a kept-alive exchange, a second one and a rest.   *)
EXTENDS Session
=============================================================================
