------------------------------- MODULE Config -------------------------------
(***************************************************************************)
(* NginxConfig: looking up a field in a parsed config.  A config is a      *)
(* sequence of statements, each in a block (1 is the config itself).  Of   *)
(* the tokens of a statement their number is kept, and the text of the     *)
(* first two, which is all the accessors look at.  A statement without a   *)
(* block of its own has child_block 0, the null pointer.                   *)
(***************************************************************************)
EXTENDS Integers, Sequences

CONSTANTS
  Words,        \* the first tokens of statements
  Values,       \* the second tokens
  Numbers       \* what std::stoi makes of those that it converts

ASSUME ConfigAssumption ==
  /\ DOMAIN Numbers \subseteq Values
  /\ \A v \in DOMAIN Numbers : Numbers[v] \in Int

\* The second token of a statement that has only one.
NoValue == "no value"

Statements(blocks) ==
  [ block : 1..blocks, word : Words, value : Values \cup {NoValue},
    tokens : Nat \ {0}, ended : BOOLEAN, child_block : 0..blocks ]

default_nums == [f \in {"port", "threads", "httpsPort", "keep-alive"} |->
                   CASE f = "port" -> 80 [] f = "threads" -> 4
                     [] f = "httpsPort" -> 443 [] f = "keep-alive" -> 0]

\* The positions of the statements of block b.
StatementsOf(config, b) == {n \in 1..Len(config) : config[n].block = b}

First(S) == CHOOSE n \in S : \A m \in S : n <= m

\* get_str_statement: the statement is the field, and has one value.
IsField(config, n, field) == config[n].word = field /\ config[n].tokens = 2

Fields(config, b, field) == {n \in StatementsOf(config, b) : IsField(config, n, field)}
Servers(config, b) == {n \in StatementsOf(config, b) : config[n].word = "server"}

\* The second scan of get_str ends at the first server statement that has the
\* field in its block, or has no block to look into.
Stops(config, b, field) ==
  {n \in Servers(config, b) :
     config[n].child_block = 0 \/ Fields(config, config[n].child_block, field) # {}}

\* get_str dereferences the null block of a server statement.
DereferencesNull(config, b, field) ==
  /\ Fields(config, b, field) = {}
  /\ \E n \in Stops(config, b, field) :
       config[n].child_block = 0 /\ \A m \in Stops(config, b, field) : n <= m

\* Mutant: the server blocks are not searched.
FoundAtTopLevel(config, b, field) ==
  IF Fields(config, b, field) # {} THEN First(Fields(config, b, field)) ELSE 0

\* Where get_str finds the field, 0 if nowhere: at the top level first, then in
\* the server blocks.
Found(config, b, field) ==
  IF Fields(config, b, field) # {} THEN First(Fields(config, b, field))
  ELSE IF Stops(config, b, field) = {} THEN 0
  ELSE First(Fields(config, config[First(Stops(config, b, field))].child_block, field))

\* get_num: a value that is missing, malformed or too large for an int is
\* replaced by the default.
get_num(config, b, field) ==
  LET n == Found(config, b, field)
  IN  IF n # 0 /\ config[n].value \in DOMAIN Numbers THEN Numbers[config[n].value]
      ELSE IF field \in DOMAIN default_nums THEN default_nums[field]
      ELSE 0
=============================================================================
