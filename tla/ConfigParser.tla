---------------------------- MODULE ConfigParser ----------------------------
(***************************************************************************)
(* NginxConfigParser: ParseToken turns the characters of a config file     *)
(* into tokens, Parse builds the tree of statements and blocks from them.  *)
(* Characters are the classes ParseToken tells apart; what the characters  *)
(* of a token spell is chosen when the token is complete.  Each step reads *)
(* one character; a character that ends a token without belonging to it is *)
(* put back (unget) or was only peeked at, and is read again.              *)
(***************************************************************************)
EXTENDS Config

CONSTANT MaxChars     \* bound: length of the file

ASSUME ParserAssumption == MaxChars \in Nat

VARIABLES
  length,             \* characters read from the file
  peeked,             \* the character that will be read again, or "none"
  state,              \* the lexer's state
  quote,              \* the quote that opened the string
  last_token_type,
  braces_depth,
  config_stack,       \* blocks; block 1 is the config itself
  blocks,             \* how many blocks there are
  statements,         \* all statements, in the order of creation
  result              \* of Parse

lexer  == <<length, peeked, state, quote>>
parser == <<last_token_type, braces_depth, config_stack, blocks, statements, result>>
vars   == <<lexer, parser>>

Spaces      == {"space", "newline", "return"}    \* a tab is like a space
Quotes      == {"'", "dquote"}
Punctuation == {"{", "}", ";"}
\* "n" stands for the letters that may be escaped, "x" for all other characters.
Chars       == Spaces \cup Quotes \cup Punctuation \cup {"#", "backslash", "n", "x"}
Escapable   == Quotes \cup {"backslash", "n"}
TokenTypes  == {"START", "NORMAL", "START_BLOCK", "END_BLOCK", "STATEMENT_END", "EOF"}

Init ==
  /\ length = 0 /\ peeked = "none" /\ state = "initial" /\ quote = "none"
  /\ last_token_type = "START"
  /\ braces_depth = 0
  /\ config_stack = <<1>>
  /\ blocks = 1
  /\ statements = <<>>
  /\ result = "parsing"

-----------------------------------------------------------------------------
(* Parse: one token                                                        *)

\* Mutant: a block or the file may end in the middle of a statement.
AllowsOpenEnd(t) ==
  CASE t = "NORMAL"                    -> TokenTypes \ {"EOF"}
    [] t \in {"STATEMENT_END", "START_BLOCK"} -> {"NORMAL"}
    [] t \in {"END_BLOCK", "EOF"}      -> TokenTypes \ {"START", "EOF"}

\* The token types that t may follow.
After(t) ==
  CASE t = "NORMAL"        -> TokenTypes \ {"EOF"}
    [] t = "STATEMENT_END" -> {"NORMAL"}
    [] t = "START_BLOCK"   -> {"NORMAL"}
    [] t = "END_BLOCK"     -> {"STATEMENT_END", "END_BLOCK", "START_BLOCK"}
    [] t = "EOF"           -> {"STATEMENT_END", "END_BLOCK"}

Top == config_stack[Len(config_stack)]

\* config_stack.top()->statements_.back(), as a position in statements
Back ==
  CHOOSE n \in 1..Len(statements) :
    statements[n].block = Top /\ \A m \in (n + 1)..Len(statements) : statements[m].block # Top

\* Parse gives up; what it has built so far stays in the config.
Reject ==
  /\ result' = "rejected"
  /\ UNCHANGED <<last_token_type, braces_depth, config_stack, blocks, statements>>

\* A new statement of the block on top, with its first token.
Begun(w) ==
  [block |-> Top, word |-> w, value |-> NoValue, tokens |-> 1, ended |-> FALSE, child_block |-> 0]

\* Mutant: only the first word of a block begins a statement.
NormalTokenContinues ==
  /\ statements' =
       IF last_token_type \in {"START", "START_BLOCK"}
       THEN Append(statements, Begun(CHOOSE w \in Words : TRUE))
       ELSE [statements EXCEPT ![Back].tokens = @ + 1]
  /\ UNCHANGED <<braces_depth, config_stack, blocks, result>>

\* A word begins a statement of the block on top, or continues its last one.
NormalToken ==
  /\ \/ /\ last_token_type # "NORMAL"
        /\ \E w \in Words : statements' = Append(statements, Begun(w))
     \/ /\ last_token_type = "NORMAL"
        /\ statements[Back].tokens = 1
        /\ \E v \in Values : statements' = [statements EXCEPT ![Back].tokens = 2, ![Back].value = v]
     \/ /\ last_token_type = "NORMAL"
        /\ statements[Back].tokens # 1
        /\ statements' = [statements EXCEPT ![Back].tokens = @ + 1]
  /\ UNCHANGED <<braces_depth, config_stack, blocks, result>>

\* A semicolon only changes last_token_type; ended remembers it.
EndStatement ==
  /\ statements' = [statements EXCEPT ![Back].ended = TRUE]
  /\ UNCHANGED <<braces_depth, config_stack, blocks, result>>

\* Mutant: the new block is not pushed.
StartBlockUnpushed ==
  /\ blocks' = blocks + 1
  /\ statements' = [statements EXCEPT ![Back].child_block = blocks + 1]
  /\ braces_depth' = braces_depth + 1
  /\ UNCHANGED <<config_stack, result>>

\* Mutant: the new block is not made the child of the statement.
StartBlockUnlinked ==
  /\ blocks' = blocks + 1
  /\ config_stack' = Append(config_stack, blocks + 1)
  /\ braces_depth' = braces_depth + 1
  /\ UNCHANGED <<statements, result>>

\* A brace makes a block, the child of the statement being read.
StartBlock ==
  /\ blocks' = blocks + 1
  /\ statements' = [statements EXCEPT ![Back].child_block = blocks + 1]
  /\ config_stack' = Append(config_stack, blocks + 1)
  /\ braces_depth' = braces_depth + 1
  /\ UNCHANGED result

\* A brace too many makes Parse give up before the stack is touched.
EndBlock ==
  /\ IF braces_depth = 0
     THEN result' = "rejected" /\ UNCHANGED <<braces_depth, config_stack>>
     ELSE /\ braces_depth' = braces_depth - 1
          /\ config_stack' = SubSeq(config_stack, 1, Len(config_stack) - 1)
          /\ UNCHANGED result
  /\ UNCHANGED <<blocks, statements>>

EndOfInput ==
  /\ result' = IF braces_depth = 0 THEN "accepted" ELSE "rejected"
  /\ UNCHANGED <<braces_depth, config_stack, blocks, statements>>

\* One turn of Parse's loop.
Token(t) ==
  \/ last_token_type \notin After(t) /\ Reject
  \/ /\ last_token_type \in After(t)
     /\ \/ t = "NORMAL" /\ NormalToken
        \/ t = "STATEMENT_END" /\ EndStatement
        \/ t = "START_BLOCK" /\ StartBlock
        \/ t = "END_BLOCK" /\ EndBlock
        \/ t = "EOF" /\ EndOfInput
     /\ last_token_type' = IF result' = "parsing" THEN t ELSE last_token_type

-----------------------------------------------------------------------------
(* ParseToken: one character                                               *)

\* c is the next character, "eof" at the end of the file.
Reads(c) ==
  /\ result = "parsing"
  /\ IF peeked # "none" THEN peeked = c /\ UNCHANGED length
     ELSE IF c = "eof" THEN UNCHANGED length
     ELSE length < MaxChars /\ length' = length + 1

Goes(st)   == state' = st /\ peeked' = "none" /\ UNCHANGED quote
PutsBack(c, st) == state' = st /\ peeked' = c /\ UNCHANGED quote

InitialWhitespace(c) ==
  /\ Reads(c)
  /\ state = "initial"
  /\ \/ c \in Spaces /\ Goes("initial") /\ UNCHANGED parser
     \/ c = "{" /\ Goes("initial") /\ Token("START_BLOCK")
     \/ c = "}" /\ Goes("initial") /\ Token("END_BLOCK")
     \/ c = ";" /\ Goes("initial") /\ Token("STATEMENT_END")
     \/ c = "#" /\ Goes("comment") /\ UNCHANGED parser
     \/ c \in Quotes /\ state' = "quoted" /\ quote' = c /\ peeked' = "none" /\ UNCHANGED parser
     \/ c \in {"backslash", "n", "x"} /\ Goes("normal") /\ UNCHANGED parser

\* A comment ends with its line, and Parse skips it.
Comment(c) ==
  /\ Reads(c)
  /\ state = "comment"
  /\ Goes(IF c \in {"newline", "return"} THEN "initial" ELSE "comment")
  /\ UNCHANGED parser

\* Mutant: the lexer does not leave the word.
NormalForever(c) ==
  /\ Reads(c)
  /\ state = "normal"
  /\ IF c \in {"space", "newline"} \cup Punctuation
     THEN PutsBack(c, "normal") /\ UNCHANGED parser
     ELSE Goes("normal") /\ UNCHANGED parser

\* A word ends before a space or a punctuation character, not before a carriage
\* return, a quote or a comment.
Normal(c) ==
  /\ Reads(c)
  /\ state = "normal"
  /\ IF c \in {"space", "newline"} \cup Punctuation
     THEN PutsBack(c, "initial") /\ Token("NORMAL")
     ELSE Goes("normal") /\ UNCHANGED parser

Quoted(c) ==
  /\ Reads(c)
  /\ state = "quoted"
  /\ Goes(IF c = "backslash" THEN "escape" ELSE IF c = quote THEN "closed" ELSE "quoted")
  /\ UNCHANGED parser

\* Mutant: the escaped character is only peeked at.
EscapeCharPeeks(c) ==
  /\ Reads(c)
  /\ \/ /\ state = "escape" /\ c \notin Escapable
        /\ Goes("initial") /\ Reject
     \/ /\ state = "escape" /\ c \in Escapable
        /\ PutsBack(c, IF c = "backslash" THEN "escaped_twice" ELSE "quoted") /\ UNCHANGED parser
     \/ /\ state = "escaped_twice" /\ c = quote
        /\ Goes("quoted") /\ UNCHANGED parser
     \/ /\ state = "escaped_twice" /\ c # quote
        /\ PutsBack(c, "quoted") /\ UNCHANGED parser

\* consumeEscapeChar: the character after a backslash must be one that may be
\* escaped, and two backslashes also take a following quote into the string.
EscapeChar(c) ==
  /\ Reads(c)
  /\ \/ /\ state = "escape" /\ c \notin Escapable
        /\ Goes("initial") /\ Reject
     \/ /\ state = "escape" /\ c \in Escapable
        /\ Goes(IF c = "backslash" THEN "escaped_twice" ELSE "quoted") /\ UNCHANGED parser
     \/ /\ state = "escaped_twice" /\ c = quote
        /\ Goes("quoted") /\ UNCHANGED parser
     \/ /\ state = "escaped_twice" /\ c # quote
        /\ PutsBack(c, "quoted") /\ UNCHANGED parser

\* After the closing quote a space or a semicolon is peeked at.  isspace also
\* accepts two characters that are no spaces between tokens (of class "x").
AfterQuote(c) ==
  /\ Reads(c)
  /\ state = "closed"
  /\ \/ c \in Spaces \cup {";", "x"} /\ PutsBack(c, "initial") /\ Token("NORMAL")
     \/ c \notin Spaces \cup {";"} /\ Goes("initial") /\ Reject

\* The end of the file is an error inside quotes, and the EOF token in every
\* other state, that of a word included.
EndOfFile ==
  /\ Reads("eof")
  /\ \/ state \in {"initial", "comment", "normal"} /\ Token("EOF")
     \/ state \in {"quoted", "escape", "escaped_twice", "closed"} /\ Reject
  /\ UNCHANGED <<peeked, state, quote>>

Returned == result # "parsing" /\ UNCHANGED vars

ParseStep ==
  \/ \E c \in Chars :
       \/ InitialWhitespace(c) \/ Comment(c) \/ Normal(c)
       \/ Quoted(c) \/ EscapeChar(c) \/ AfterQuote(c)
  \/ EndOfFile

Next == ParseStep \/ Returned

Spec == Init /\ [][Next]_vars

-----------------------------------------------------------------------------
(* Properties                                                              *)

TypeOK ==
  /\ length \in 0..MaxChars
  /\ peeked \in Chars \cup {"none"}
  /\ state \in {"initial", "comment", "normal", "quoted", "escape", "escaped_twice", "closed"}
  /\ quote \in Quotes \cup {"none"}
  /\ last_token_type \in TokenTypes
  /\ braces_depth \in Nat /\ blocks \in Nat
  /\ config_stack \in Seq(1..blocks)
  /\ statements \in Seq(Statements(blocks))
  /\ result \in {"parsing", "accepted", "rejected"}

\* top() and pop() always find a block: the stack is as deep as the braces, the
\* config itself is at its bottom, and every other block on it is the child of a
\* statement of the block below.
StackFollowsBraces ==
  /\ Len(config_stack) = braces_depth + 1
  /\ config_stack[1] = 1
  /\ \A d \in 2..Len(config_stack) :
       \E n \in 1..Len(statements) :
         statements[n].block = config_stack[d - 1] /\ statements[n].child_block = config_stack[d]

\* Whenever Parse may use statements_.back() of the block on top there is one,
\* and it is the statement being read, which has neither end nor block yet.
BackIsBeingRead ==
  result = "parsing" /\ last_token_type = "NORMAL" =>
    /\ statements # <<>>
    /\ LET last == statements[Len(statements)]
       IN  last.block = Top /\ ~last.ended /\ last.child_block = 0

\* In an accepted config every statement was completed by a semicolon or by a
\* block of its own, and every block was closed.
AcceptedIsComplete ==
  result = "accepted" =>
    /\ config_stack = <<1>>
    /\ \A n \in 1..Len(statements) : statements[n].ended <=> statements[n].child_block = 0
    /\ \A b \in 2..blocks : \E n \in 1..Len(statements) : statements[n].child_block = b

\* Whatever made Parse stop, only the statement it was reading is incomplete, and
\* nothing comes after it in the config that parse_args lets the server start on
\* (parser.cc:319).
OnlyLastIsOpen ==
  \A n \in 1..Len(statements) :
    statements[n].ended \/ statements[n].child_block # 0 \/ n = Len(statements)

\* A character is put back at most once: every step of ParseToken reads a new
\* character, or takes in the one that was put back, or ends the parse, which is
\* why no file keeps it from returning (parser.cc:107, 146, 169).
PutBackOnce ==
  [][ParseStep =>
       \/ length' = length + 1
       \/ length' = length /\ peeked # "none" /\ peeked' = "none"
       \/ result' # "parsing"]_vars

\* "Returns true iff the input config file is valid" (include/parser.h:23): a
\* file that stops in the middle of a statement is not.
TruncatedIsRejected == result = "accepted" => state # "normal"
=============================================================================
