----------------------------- MODULE MCWebserver -----------------------------
(* Two connections on two threads.  The sessions are interchangeable, and so *)
(* are the threads; only invariants are checked under the symmetry.          *)
EXTENDS Webserver, TLC

SymmetricSessions == Permutations(Sessions) \cup Permutations(Workers)
=============================================================================
