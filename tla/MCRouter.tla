------------------------------- MODULE MCRouter -------------------------------
(* Every table of up to two prefixes of up to four characters, and every    *)
(* target of up to five.                                                    *)
EXTENDS Router

SeqsUpTo(S, n) == UNION {[1..k -> S] : k \in 1..n}

MCUrls    == SeqsUpTo({Slash, "a"}, 4)
MCTargets == SeqsUpTo({Slash, "a", QMark}, 5)
=============================================================================
