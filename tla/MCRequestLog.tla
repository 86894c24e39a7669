---------------------------- MODULE MCRequestLog ----------------------------
(* Two threads and five requests, one of them for the status page.  The       *)
(* storage grows from nothing to one, two, four and eight elements; the       *)
(* fourth append is the first that finds room.                                *)
EXTENDS RequestLog, TLC

Symmetric == Permutations(Workers) \cup Permutations(Requests \ Status)
=============================================================================
