----------------------------- MODULE MCHandlers -----------------------------
(* One handler of each kind, with every block of up to two statements, and   *)
(* upstream pages of up to four symbols (two links, or one with two slashes  *)
(* and what follows it) and some that have the prefix in them already.       *)
EXTENDS Handlers

SeqsUpTo(S, n) == UNION {[1..k -> S] : k \in 0..n}

MCSymbols == {"/", "%", "link", "url", "text", "x", "p", "host", "long"}

MCNumbers == [v \in {"0", "1"} |-> IF v = "0" THEN 0 ELSE 1]

\* A statement has a value if it has a second token.
MCStatements ==
  {st \in [block : {1}, word : Words, value : Values \cup {NoValue}, tokens : {1, 2, 3},
           ended : {TRUE}, child_block : {0}] : st.tokens = 1 <=> st.value = NoValue}

\* Of three, the one that makes a proxy work and asks for keep-alive.
WorkingProxy == [n \in 1..3 |-> [block |-> 1, word |-> <<"dest", "port", "keep-alive">>[n], value |-> "1",
                                 tokens |-> 2, ended |-> TRUE, child_block |-> 0]]
MCBlocks   == SeqsUpTo(MCStatements, 2) \cup {WorkingProxy}
MCPrefixes == {<<>>, <<"/">>, <<"/", "p">>}
MCTails    == {<<>>, <<"/", "x">>, <<"/", "long">>}
MCTexts    == {<<>>, <<"x", "x">>}

MCLocations == {<<>>, <<<<>>>>, <<<<"host">>>>, <<<<"/">>>>, <<<<"/", "x">>>>, <<<<"/", "/", "host">>>>}

MCPages ==
  [status : {"ok"}, html : {TRUE}, location : {<<>>}, text : SeqsUpTo({"link", "url", "/", "%"}, 4)] \cup
  [status : {"ok", "redirect"}, html : BOOLEAN, location : MCLocations, text : {<<"link", "/">>}] \cup
  [status : {"ok"}, html : BOOLEAN, location : {<<>>},
   text : {<<"link", "/", "p", "/", "/">>, <<"url", "%", "p", "%", "%">>, <<"link", "/", "/", "link", "/", "x">>}]

\* The run shows what the theorems about rewriting show, for prefixes like theirs.
ASSUME MCAssumption == LinklessPrefixes

\* A short text grows, a long one shrinks.
MCGzipLength(t) == IF Len(t) < 2 THEN Len(t) + 1 ELSE 1
=============================================================================
