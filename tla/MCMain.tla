------------------------------- MODULE MCMain -------------------------------
(* All files of up to eight characters: long enough for nested blocks, a      *)
(* second statement after a closed block, an escaped quote in a string, a     *)
(* location whose block holds a statement, and a certificate with its key.    *)
EXTENDS Main

\* A port, and a number that does not fit one.
MCNumbers == [v \in {"8080", "65616"} |-> IF v = "8080" THEN 8080 ELSE 65616]
=============================================================================
