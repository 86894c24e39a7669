------------------------------ MODULE MainProofs ------------------------------
(***************************************************************************)
(* Proofs about the parser and the start of the program, for config files  *)
(* of any length and any words and values: the tree that Parse builds is   *)
(* never malformed, an accepted one is complete, a rejected one is open    *)
(* only at its last statement, and a crash comes from a statement that     *)
(* lacks its block, or from looking for the certificate and its key.       *)
(***************************************************************************)
EXTENDS Main, Induction, SequenceTheorems, TLAPS

-----------------------------------------------------------------------------
(* The steps of the parser                                                 *)

\* A step of ParseToken hands at most one token to Parse, or makes it give up.
LEMMA ParseStepCases ==
  ASSUME ParseStep
  PROVE  /\ result = "parsing"
         /\ \/ \E t \in TokenTypes \ {"START"} : Token(t)
            \/ Reject
            \/ UNCHANGED parser
<1> USE DEF Reads, TokenTypes
<1>1. CASE \E c \in Chars : InitialWhitespace(c)
  BY <1>1 DEF InitialWhitespace
<1>2. CASE \E c \in Chars : Comment(c) \/ Quoted(c)
  BY <1>2 DEF Comment, Quoted
<1>3. CASE \E c \in Chars : Normal(c)
  BY <1>3 DEF Normal
<1>4. CASE \E c \in Chars : EscapeChar(c)
  BY <1>4 DEF EscapeChar
<1>5. CASE \E c \in Chars : AfterQuote(c)
  BY <1>5 DEF AfterQuote
<1>6. CASE EndOfFile
  BY <1>6 DEF EndOfFile
<1>7. QED
  BY <1>1, <1>2, <1>3, <1>4, <1>5, <1>6 DEF ParseStep

\* A character is put back only between tokens and inside a string, where it is
\* taken in by the next step.
LexerOK ==
  /\ length \in 0..MaxChars
  /\ peeked \in Chars \cup {"none"}
  /\ state \in {"initial", "comment", "normal", "quoted", "escape", "escaped_twice", "closed"}
  /\ quote \in Quotes \cup {"none"}
  /\ peeked # "none" => state \in {"initial", "quoted"}

ParserOK ==
  /\ last_token_type \in TokenTypes
  /\ braces_depth \in Nat /\ blocks \in Nat
  /\ config_stack \in Seq(1..blocks)
  /\ statements \in Seq(Statements(blocks))
  /\ result \in {"parsing", "accepted", "rejected"}

\* A step of ParseToken keeps the types of the lexer.
LEMMA LexerStep == ASSUME LexerOK, ParseStep PROVE LexerOK'
<1>1. ASSUME NEW c, Reads(c) PROVE length' \in 0..MaxChars
  <2>1. length' = length \/ (length < MaxChars /\ length' = length + 1)
    BY <1>1 DEF Reads
  <2>2. QED
    BY <2>1, ParserAssumption DEF LexerOK
<1> USE DEF LexerOK, Goes, PutsBack, Chars, Spaces, Quotes, Punctuation
<1>2. CASE \E c \in Chars : InitialWhitespace(c)
  BY <1>1, <1>2 DEF InitialWhitespace
<1>3. CASE \E c \in Chars : Comment(c) \/ Quoted(c)
  BY <1>1, <1>3 DEF Comment, Quoted
<1>4. CASE \E c \in Chars : Normal(c)
  BY <1>1, <1>4 DEF Normal
<1>5. CASE \E c \in Chars : EscapeChar(c)
  BY <1>1, <1>5 DEF EscapeChar
<1>6. CASE \E c \in Chars : AfterQuote(c)
  BY <1>1, <1>6 DEF AfterQuote
<1>7. CASE EndOfFile
  BY <1>1, <1>7 DEF EndOfFile
<1>8. QED
  BY <1>2, <1>3, <1>4, <1>5, <1>6, <1>7 DEF ParseStep

\* No step puts back a character that was put back already, so none changes
\* nothing and could be taken for ever.
LEMMA LexerProgress ==
  ASSUME LexerOK, ParseStep
  PROVE  \/ length' = length + 1
         \/ length' = length /\ peeked # "none" /\ peeked' = "none"
         \/ result' # "parsing"
<1>1. ASSUME NEW c \in Chars, Reads(c)
      PROVE  IF peeked # "none" THEN length' = length ELSE length' = length + 1
  BY <1>1 DEF Reads, Chars, Spaces, Quotes, Punctuation
<1>2. ASSUME NEW c \in Chars, InitialWhitespace(c) PROVE peeked' = "none"
  BY <1>2 DEF InitialWhitespace, Goes
<1>3. ASSUME NEW c \in Chars, Comment(c) \/ Quoted(c) PROVE peeked' = "none"
  BY <1>3 DEF Comment, Quoted, Goes
<1>4. ASSUME NEW c \in Chars, Normal(c) \/ EscapeChar(c) \/ AfterQuote(c) PROVE peeked = "none"
  BY <1>4 DEF Normal, EscapeChar, AfterQuote, LexerOK
<1>5. ASSUME EndOfFile PROVE result' # "parsing"
  <2>1. CASE Token("EOF")
    BY <2>1 DEF Token, Reject, EndOfInput
  <2>2. CASE Reject
    BY <2>2 DEF Reject
  <2>3. QED
    BY <1>5, <2>1, <2>2 DEF EndOfFile
<1>6. ASSUME NEW c \in Chars,
             InitialWhitespace(c) \/ Comment(c) \/ Normal(c) \/ Quoted(c) \/ EscapeChar(c) \/ AfterQuote(c)
      PROVE  Reads(c)
  BY <1>6 DEF InitialWhitespace, Comment, Normal, Quoted, EscapeChar, AfterQuote
<1>7. CASE EndOfFile
  BY <1>5, <1>7
<1>8. CASE \E c \in Chars : \/ InitialWhitespace(c) \/ Comment(c) \/ Normal(c)
                            \/ Quoted(c) \/ EscapeChar(c) \/ AfterQuote(c)
  BY <1>1, <1>2, <1>3, <1>4, <1>6, <1>8
<1>9. QED
  BY <1>7, <1>8 DEF ParseStep

-----------------------------------------------------------------------------
(* What Parse builds                                                       *)

\* Between two statements there is no open one.
NoneOpen ==
  result = "parsing" /\ last_token_type # "NORMAL" =>
    \A n \in 1..Len(statements) : statements[n].ended \/ statements[n].child_block # 0

\* A statement ends with a semicolon or with a block, not with both.
EndedOnce == \A n \in 1..Len(statements) : ~(statements[n].ended /\ statements[n].child_block # 0)

\* Every block but the config belongs to a statement.
BlocksHaveParents == \A b \in 2..blocks : \E n \in 1..Len(statements) : statements[n].child_block = b

\* The inductive invariant of Parse.
ParserInv ==
  /\ ParserOK
  /\ StackFollowsBraces
  /\ BackIsBeingRead
  /\ OnlyLastIsOpen
  /\ AcceptedIsComplete
  /\ NoneOpen
  /\ EndedOnce
  /\ BlocksHaveParents

\* The parser starts with an empty config.
LEMMA ParserInit == Init => ParserInv
BY DEF Init, ParserInv, ParserOK, StackFollowsBraces, BackIsBeingRead, OnlyLastIsOpen, AcceptedIsComplete,
       NoneOpen, EndedOnce, BlocksHaveParents, TokenTypes

\* While a statement is read it is the last of all, so back() of the block on
\* top is the last statement of the whole config.
LEMMA BackIsLast ==
  ASSUME ParserInv, result = "parsing", last_token_type = "NORMAL"
  PROVE  /\ Back = Len(statements)
         /\ Len(statements) \in Nat \ {0}
         /\ statements[Len(statements)].block = Top
         /\ ~statements[Len(statements)].ended
         /\ statements[Len(statements)].child_block = 0
<1>1. statements \in Seq(Statements(blocks)) /\ statements # <<>>
  BY DEF ParserInv, ParserOK, BackIsBeingRead
<1>2. Len(statements) \in Nat \ {0}
  BY <1>1
<1>3. /\ statements[Len(statements)].block = Top
      /\ ~statements[Len(statements)].ended
      /\ statements[Len(statements)].child_block = 0
  BY DEF ParserInv, BackIsBeingRead
<1>4. \A n \in 1..Len(statements) :
        (/\ statements[n].block = Top
         /\ \A m \in (n + 1)..Len(statements) : statements[m].block # Top) <=> n = Len(statements)
  BY <1>2, <1>3
<1>5. Back = Len(statements)
  BY <1>2, <1>4 DEF Back
<1>6. QED
  BY <1>2, <1>3, <1>5

\* The block on top of the stack exists.
LEMMA TopIsBlock == ParserInv => Top \in 1..blocks /\ Len(config_stack) \in Nat \ {0}
<1> SUFFICES ASSUME ParserInv PROVE Top \in 1..blocks /\ Len(config_stack) \in Nat \ {0}
  OBVIOUS
<1>1. config_stack \in Seq(1..blocks) /\ Len(config_stack) = braces_depth + 1 /\ braces_depth \in Nat
  BY DEF ParserInv, ParserOK, StackFollowsBraces
<1>2. Len(config_stack) \in Nat \ {0} /\ Len(config_stack) \in 1..Len(config_stack)
  BY <1>1
<1>3. QED
  BY <1>1, <1>2, ElementOfSeq DEF Top

\* Changing the last statement changes nothing else.
LEMMA EditLast ==
  ASSUME ParserInv, Len(statements) \in Nat \ {0}, NEW b \in Nat, blocks <= b, NEW st \in Statements(b),
         statements' = [statements EXCEPT ![Len(statements)] = st]
  PROVE  /\ statements' \in Seq(Statements(b))
         /\ Len(statements') = Len(statements)
         /\ statements'[Len(statements)] = st
         /\ \A n \in 1..Len(statements) : n # Len(statements) => statements'[n] = statements[n]
<1>1. statements \in Seq(Statements(blocks)) /\ blocks \in Nat
  BY DEF ParserInv, ParserOK
<1>2. Statements(blocks) \subseteq Statements(b)
  BY <1>1 DEF Statements
<1>3. statements \in Seq(Statements(b))
  BY <1>1, <1>2, SeqMonotonic
<1>4. QED
  BY <1>3, ExceptSeq

\* The last statement while it is read.
LEMMA LastIsStatement ==
  ASSUME ParserInv, result = "parsing", last_token_type = "NORMAL"
  PROVE  /\ statements[Len(statements)] \in Statements(blocks)
         /\ statements \in [1..Len(statements) -> Statements(blocks)]
BY BackIsLast, ElementOfSeq DEF ParserInv, ParserOK

\* A rejection changes nothing but the result.
LEMMA RejectStep == ASSUME ParserInv, result = "parsing", Reject PROVE ParserInv'
BY DEF Reject, ParserInv, ParserOK, StackFollowsBraces, BackIsBeingRead, OnlyLastIsOpen, AcceptedIsComplete,
       NoneOpen, EndedOnce, BlocksHaveParents, Top

\* If statements keep their places in the tree, the tree stays as it is.
LEMMA SameTree ==
  ASSUME ParserInv, UNCHANGED <<braces_depth, config_stack, blocks>>,
         \A n \in 1..Len(statements) : /\ n \in 1..Len(statements')
                                       /\ statements'[n].block = statements[n].block
                                       /\ statements'[n].child_block = statements[n].child_block
  PROVE  StackFollowsBraces' /\ BlocksHaveParents'
<1>1. ASSUME NEW b \in 2..blocks PROVE \E n \in 1..Len(statements') : statements'[n].child_block = b
  <2>1. PICK n \in 1..Len(statements) : statements[n].child_block = b
    BY DEF ParserInv, BlocksHaveParents
  <2>2. QED
    BY <2>1
<1>2. ASSUME NEW d \in 2..Len(config_stack)
      PROVE  \E n \in 1..Len(statements') :
               statements'[n].block = config_stack[d - 1] /\ statements'[n].child_block = config_stack[d]
  <2>1. PICK n \in 1..Len(statements) :
          statements[n].block = config_stack[d - 1] /\ statements[n].child_block = config_stack[d]
    BY DEF ParserInv, StackFollowsBraces
  <2>2. QED
    BY <2>1
<1>3. QED
  BY <1>1, <1>2 DEF ParserInv, StackFollowsBraces, BlocksHaveParents

\* Steps that change only what is known about the last statement: its tokens.
LEMMA NormalStep ==
  ASSUME ParserInv, result = "parsing", NormalToken, last_token_type' = "NORMAL"
  PROVE  ParserInv'
<1>1. /\ UNCHANGED <<braces_depth, config_stack, blocks, result>>
      /\ Top' = Top /\ Top \in 1..blocks
      /\ statements \in Seq(Statements(blocks))
      /\ blocks \in Nat
  BY TopIsBlock DEF NormalToken, Top, ParserInv, ParserOK
<1>2. CASE last_token_type # "NORMAL"
  <2>1. PICK w \in Words : statements' = Append(statements, Begun(w))
    BY <1>2 DEF NormalToken
  <2>2. Begun(w) \in Statements(blocks)
    BY <1>1 DEF Begun, Statements
  <2>3. /\ statements' \in Seq(Statements(blocks))
        /\ Len(statements') = Len(statements) + 1
        /\ statements'[Len(statements) + 1] = Begun(w)
        /\ \A n \in 1..Len(statements) : statements'[n] = statements[n]
        /\ Len(statements) \in Nat
    BY <1>1, <2>1, <2>2, AppendProperties
  <2>. \A n \in 1..Len(statements) : n \in 1..Len(statements')
    BY <2>3
  <2>4. Begun(w).block = Top /\ ~Begun(w).ended /\ Begun(w).child_block = 0
    BY DEF Begun
  <2>5. QED
    <3>1. ParserOK'
      BY <1>1, <1>2, <2>3, <2>4 DEF ParserInv, ParserOK, TokenTypes
    <3>2. StackFollowsBraces'
      BY <1>1, <1>2, <2>3, <2>4, SameTree
    <3>3. BackIsBeingRead'
      BY <1>1, <1>2, <2>3, <2>4 DEF ParserInv, ParserOK, BackIsBeingRead
    <3>4. OnlyLastIsOpen'
      BY <1>2, <2>3 DEF ParserInv, OnlyLastIsOpen, NoneOpen
    <3>5. AcceptedIsComplete'
      BY <1>1, <1>2, <2>3, <2>4 DEF ParserInv, ParserOK, AcceptedIsComplete
    <3>6. NoneOpen'
      BY <1>1, <1>2, <2>3, <2>4 DEF ParserInv, ParserOK, NoneOpen
    <3>7. EndedOnce'
      BY <1>1, <1>2, <2>3, <2>4 DEF ParserInv, ParserOK, EndedOnce
    <3>8. BlocksHaveParents'
      BY <1>1, <1>2, <2>3, <2>4, SameTree
    <3>9. QED
      BY <3>1, <3>2, <3>3, <3>4, <3>5, <3>6, <3>7, <3>8 DEF ParserInv
<1>3. CASE last_token_type = "NORMAL"
  <2> DEFINE last == statements[Len(statements)]
  <2>1. Back = Len(statements) /\ Len(statements) \in Nat \ {0} /\ last.block = Top /\ ~last.ended /\ last.child_block = 0
    BY <1>3, BackIsLast
  <2>2. last \in Statements(blocks) /\ statements \in [1..Len(statements) -> Statements(blocks)]
    BY <1>3, LastIsStatement
  <2>3. PICK st \in Statements(blocks) :
          /\ statements' = [statements EXCEPT ![Len(statements)] = st]
          /\ st.block = last.block /\ st.ended = last.ended /\ st.child_block = last.child_block
    <3>1. CASE last.tokens = 1
      <4>1. PICK v \in Values : statements' = [statements EXCEPT ![Back].tokens = 2, ![Back].value = v]
        BY <1>3, <2>1, <3>1 DEF NormalToken
      <4>2. [last EXCEPT !.tokens = 2, !.value = v] \in Statements(blocks)
        <5>1. [last EXCEPT !.tokens = 2] \in Statements(blocks)
          BY <2>2 DEF Statements
        <5>2. \A st \in Statements(blocks) : [st EXCEPT !.value = v] \in Statements(blocks)
          BY DEF Statements
        <5>3. QED
          BY <5>1, <5>2
      <4>3. statements' = [statements EXCEPT ![Len(statements)] = [last EXCEPT !.tokens = 2, !.value = v]]
        BY <2>1, <2>2, <4>1
      <4>4. QED
        BY <2>2, <4>2, <4>3 DEF Statements
    <3>2. CASE last.tokens # 1
      <4>1. statements' = [statements EXCEPT ![Back].tokens = @ + 1]
        BY <1>3, <2>1, <3>2 DEF NormalToken
      <4>2. [last EXCEPT !.tokens = @ + 1] \in Statements(blocks)
        BY <2>2 DEF Statements
      <4>3. statements' = [statements EXCEPT ![Len(statements)] = [last EXCEPT !.tokens = @ + 1]]
        BY <2>1, <2>2, <4>1
      <4>4. QED
        BY <2>2, <4>2, <4>3 DEF Statements
    <3>3. QED
      BY <3>1, <3>2
  <2>4. /\ statements' \in Seq(Statements(blocks))
        /\ Len(statements') = Len(statements)
        /\ statements'[Len(statements)] = st
        /\ \A n \in 1..Len(statements) : n # Len(statements) => statements'[n] = statements[n]
    BY <1>1, <2>1, <2>3, EditLast
  <2>5. \A n \in 1..Len(statements) : /\ statements'[n].block = statements[n].block
                                       /\ statements'[n].ended = statements[n].ended
                                       /\ statements'[n].child_block = statements[n].child_block
    BY <2>1, <2>3, <2>4
  <2>6. QED
    <3>1. ParserOK'
      BY <1>1, <1>3, <2>1, <2>4, <2>5 DEF ParserInv, ParserOK, TokenTypes
    <3>2. StackFollowsBraces'
      BY <1>1, <1>3, <2>1, <2>4, <2>5, SameTree
    <3>3. BackIsBeingRead'
      BY <1>1, <1>3, <2>1, <2>4, <2>5 DEF ParserInv, ParserOK, BackIsBeingRead
    <3>4. OnlyLastIsOpen'
      BY <1>1, <1>3, <2>1, <2>4, <2>5 DEF ParserInv, ParserOK, OnlyLastIsOpen
    <3>5. AcceptedIsComplete'
      BY <1>1, <1>3, <2>1, <2>4, <2>5 DEF ParserInv, ParserOK, AcceptedIsComplete
    <3>6. NoneOpen'
      BY <1>1, <1>3, <2>1, <2>4, <2>5 DEF ParserInv, ParserOK, NoneOpen
    <3>7. EndedOnce'
      BY <1>1, <1>3, <2>1, <2>4, <2>5 DEF ParserInv, ParserOK, EndedOnce
    <3>8. BlocksHaveParents'
      BY <1>1, <1>3, <2>1, <2>4, <2>5, SameTree
    <3>9. QED
      BY <3>1, <3>2, <3>3, <3>4, <3>5, <3>6, <3>7, <3>8 DEF ParserInv
<1>4. QED
  BY <1>2, <1>3

\* A semicolon ends the last statement.
LEMMA EndStatementStep ==
  ASSUME ParserInv, result = "parsing", last_token_type = "NORMAL", EndStatement,
         last_token_type' = "STATEMENT_END"
  PROVE  ParserInv'
<1> DEFINE last == statements[Len(statements)]
<1>1. Back = Len(statements) /\ Len(statements) \in Nat \ {0} /\ last.child_block = 0
  BY BackIsLast
<1>2. last \in Statements(blocks) /\ statements \in [1..Len(statements) -> Statements(blocks)]
  BY LastIsStatement
<1>3. UNCHANGED <<braces_depth, config_stack, blocks, result>> /\ blocks \in Nat
  BY DEF EndStatement, ParserInv, ParserOK
<1>4. /\ statements' = [statements EXCEPT ![Len(statements)] = [last EXCEPT !.ended = TRUE]]
      /\ [last EXCEPT !.ended = TRUE] \in Statements(blocks)
  BY <1>1, <1>2 DEF EndStatement, Statements
<1>5. PICK st \in Statements(blocks) :
        /\ statements' = [statements EXCEPT ![Len(statements)] = st]
        /\ st.ended /\ st.block = last.block /\ st.child_block = last.child_block
  BY <1>2, <1>4 DEF Statements
<1>6. /\ statements' \in Seq(Statements(blocks))
      /\ Len(statements') = Len(statements)
      /\ statements'[Len(statements)] = st
      /\ \A n \in 1..Len(statements) : n # Len(statements) => statements'[n] = statements[n]
  <2>1. blocks \in Nat /\ blocks <= blocks /\ ParserInv /\ Len(statements) \in Nat \ {0}
    BY <1>1, <1>3
  <2>2. statements' = [statements EXCEPT ![Len(statements)] = st]
    BY <1>5
  <2>3. QED
    BY <2>1, <2>2, EditLast
<1>7. \A n \in 1..Len(statements) : /\ statements'[n].block = statements[n].block
                                     /\ statements'[n].child_block = statements[n].child_block
  BY <1>1, <1>5, <1>6
<1>8. StackFollowsBraces' /\ BlocksHaveParents'
  BY <1>3, <1>6, <1>7, SameTree
<1>9. OnlyLastIsOpen' /\ NoneOpen' /\ EndedOnce'
  BY <1>1, <1>5, <1>6 DEF ParserInv, OnlyLastIsOpen, NoneOpen, EndedOnce
<1>10. ParserOK' /\ BackIsBeingRead' /\ AcceptedIsComplete'
  BY <1>3, <1>6 DEF ParserInv, ParserOK, BackIsBeingRead, AcceptedIsComplete, TokenTypes
<1>11. QED
  BY <1>8, <1>9, <1>10 DEF ParserInv

\* A brace gives the last statement a block, which goes on the stack.
LEMMA StartBlockStep ==
  ASSUME ParserInv, result = "parsing", last_token_type = "NORMAL", StartBlock,
         last_token_type' = "START_BLOCK"
  PROVE  ParserInv'
<1> DEFINE last == statements[Len(statements)]
<1>1. /\ Back = Len(statements) /\ Len(statements) \in Nat \ {0}
      /\ last.child_block = 0 /\ ~last.ended /\ last.block = Top
  BY BackIsLast
<1>2. last \in Statements(blocks) /\ statements \in [1..Len(statements) -> Statements(blocks)]
  BY LastIsStatement
<1>3. /\ blocks' = blocks + 1 /\ braces_depth' = braces_depth + 1 /\ result' = result
      /\ config_stack' = Append(config_stack, blocks + 1)
      /\ config_stack \in Seq(1..blocks) /\ config_stack \in Seq(1..(blocks + 1))
      /\ blocks \in Nat
  <2>1. 1..blocks \subseteq 1..(blocks + 1) /\ config_stack \in Seq(1..blocks) /\ blocks \in Nat
    BY DEF ParserInv, ParserOK
  <2>2. QED
    BY <2>1, SeqMonotonic DEF StartBlock
<1>4. /\ statements' = [statements EXCEPT ![Len(statements)] = [last EXCEPT !.child_block = blocks + 1]]
      /\ [last EXCEPT !.child_block = blocks + 1] \in Statements(blocks + 1)
  <2>1. last \in Statements(blocks + 1) /\ blocks + 1 \in 0..(blocks + 1)
    BY <1>2, <1>3 DEF Statements
  <2>2. QED
    BY <1>1, <1>2, <2>1 DEF StartBlock, Statements
<1>5. PICK st \in Statements(blocks + 1) :
        /\ statements' = [statements EXCEPT ![Len(statements)] = st]
        /\ ~st.ended /\ st.block = last.block /\ st.child_block = blocks + 1
  BY <1>1, <1>2, <1>4 DEF Statements
<1>6. /\ statements' \in Seq(Statements(blocks + 1))
      /\ Len(statements') = Len(statements)
      /\ statements'[Len(statements)] = st
      /\ \A n \in 1..Len(statements) : n # Len(statements) => statements'[n] = statements[n]
  <2>1. (blocks + 1) \in Nat /\ blocks <= (blocks + 1) /\ ParserInv /\ Len(statements) \in Nat \ {0}
    BY <1>1, <1>3
  <2>2. statements' = [statements EXCEPT ![Len(statements)] = st]
    BY <1>5
  <2>3. QED
    BY <2>1, <2>2, EditLast
<1>7. /\ config_stack' \in Seq(1..(blocks + 1))
      /\ Len(config_stack') = Len(config_stack) + 1 /\ Len(config_stack) \in Nat \ {0}
      /\ config_stack'[Len(config_stack) + 1] = blocks + 1
      /\ \A d \in 1..Len(config_stack) : config_stack'[d] = config_stack[d] /\ config_stack[d] \in 1..blocks
  BY <1>3, AppendProperties, TopIsBlock, ElementOfSeq
<1>8. ParserOK' /\ BackIsBeingRead' /\ AcceptedIsComplete'
  BY <1>3, <1>6, <1>7 DEF ParserInv, ParserOK, BackIsBeingRead, AcceptedIsComplete, TokenTypes
<1>9. OnlyLastIsOpen' /\ NoneOpen' /\ EndedOnce'
  <2>1. st.child_block # 0
    BY <1>3, <1>5
  <2>2. OnlyLastIsOpen' /\ EndedOnce'
    BY <1>1, <1>5, <1>6 DEF ParserInv, OnlyLastIsOpen, EndedOnce
  <2>3. NoneOpen'
    BY <1>1, <1>6, <2>1 DEF ParserInv, OnlyLastIsOpen, NoneOpen
  <2>4. QED
    BY <2>2, <2>3
<1>10. ASSUME NEW d \in 2..Len(config_stack')
       PROVE  \E n \in 1..Len(statements') :
                statements'[n].block = config_stack'[d - 1] /\ statements'[n].child_block = config_stack'[d]
  <2>1. CASE d = Len(config_stack) + 1
    BY <1>1, <1>5, <1>6, <1>7, <2>1 DEF Top
  <2>2. CASE d # Len(config_stack) + 1
    <3>1. d \in 2..Len(config_stack) /\ d \in 1..Len(config_stack) /\ d - 1 \in 1..Len(config_stack)
      BY <1>7, <2>2
    <3>2. PICK n \in 1..Len(statements) :
            statements[n].block = config_stack[d - 1] /\ statements[n].child_block = config_stack[d]
      BY <3>1 DEF ParserInv, StackFollowsBraces
    <3>3. config_stack[d] # 0
      BY <1>3, <1>7, <3>1
    <3>4. QED
      BY <1>1, <1>6, <1>7, <3>1, <3>2, <3>3
  <2>3. QED
    BY <2>1, <2>2
<1>11. StackFollowsBraces'
  <2>1. config_stack'[1] = 1 /\ Len(config_stack') = braces_depth' + 1
    BY <1>3, <1>7 DEF ParserInv, ParserOK, StackFollowsBraces
  <2>2. QED
    BY <1>10, <2>1 DEF StackFollowsBraces
<1>12. ASSUME NEW b \in 2..(blocks + 1) PROVE \E n \in 1..Len(statements') : statements'[n].child_block = b
  <2>1. CASE b = blocks + 1
    BY <1>1, <1>5, <1>6, <2>1
  <2>2. CASE b # blocks + 1
    <3>1. PICK n \in 1..Len(statements) : statements[n].child_block = b
      BY <1>3, <2>2 DEF ParserInv, BlocksHaveParents
    <3>2. QED
      BY <1>1, <1>6, <3>1
  <2>3. QED
    BY <2>1, <2>2
<1>13. QED
  BY <1>3, <1>8, <1>9, <1>11, <1>12 DEF ParserInv, BlocksHaveParents

\* A closing brace takes a block from the stack, or makes Parse give up.
LEMMA EndBlockStep ==
  ASSUME ParserInv, result = "parsing", last_token_type \in After("END_BLOCK"), EndBlock,
         last_token_type' = IF result' = "parsing" THEN "END_BLOCK" ELSE last_token_type
  PROVE  ParserInv'
<1>1. last_token_type # "NORMAL" /\ blocks' = blocks /\ statements' = statements
  BY DEF After, EndBlock
<1>2. /\ braces_depth \in Nat /\ Len(config_stack) = braces_depth + 1 /\ blocks \in Nat
      /\ config_stack \in Seq(1..blocks)
  BY DEF ParserInv, ParserOK, StackFollowsBraces
<1>3. CASE braces_depth = 0
  BY <1>1, <1>3, RejectStep DEF EndBlock, Reject
<1>4. CASE braces_depth # 0
  <2>1. /\ braces_depth' = braces_depth - 1 /\ result' = "parsing" /\ last_token_type' = "END_BLOCK"
        /\ config_stack' = SubSeq(config_stack, 1, Len(config_stack) - 1)
    BY <1>4 DEF EndBlock
  <2>2. \A d \in 1..(Len(config_stack) - 1) : config_stack[d] \in 1..blocks
    BY <1>2, ElementOfSeq
  <2>3. /\ config_stack' \in Seq(1..blocks)
        /\ Len(config_stack') = Len(config_stack) - 1
        /\ \A d \in 1..(Len(config_stack) - 1) : config_stack'[d] = config_stack[d]
    BY <1>2, <1>4, <2>1, <2>2, SubSeqProperties
  <2>4. StackFollowsBraces'
    <3>1. Len(config_stack') = braces_depth' + 1 /\ config_stack'[1] = 1
      BY <1>2, <1>4, <2>1, <2>3 DEF ParserInv, StackFollowsBraces
    <3>2. ASSUME NEW d \in 2..Len(config_stack')
          PROVE  \E n \in 1..Len(statements) :
                   statements[n].block = config_stack'[d - 1] /\ statements[n].child_block = config_stack'[d]
      <4>1. /\ d \in 2..Len(config_stack)
            /\ config_stack'[d] = config_stack[d] /\ config_stack'[d - 1] = config_stack[d - 1]
        BY <1>2, <1>4, <2>3
      <4>2. QED
        BY <4>1 DEF ParserInv, StackFollowsBraces
    <3>3. QED
      BY <1>1, <3>1, <3>2 DEF StackFollowsBraces
  <2>5. ParserOK'
    BY <1>1, <1>2, <1>4, <2>1, <2>3 DEF ParserInv, ParserOK, TokenTypes
  <2>6. QED
    BY <1>1, <2>1, <2>4, <2>5 DEF ParserInv, BackIsBeingRead, OnlyLastIsOpen,
                                  AcceptedIsComplete, NoneOpen, EndedOnce, BlocksHaveParents
<1>5. QED
  BY <1>3, <1>4

\* At the end of the file a config without open braces is accepted: it ends
\* after a semicolon or a block, where no statement is open.
LEMMA EndOfInputStep ==
  ASSUME ParserInv, result = "parsing", last_token_type \in After("EOF"), EndOfInput,
         last_token_type' = last_token_type
  PROVE  ParserInv'
<1>1. last_token_type # "NORMAL" /\ UNCHANGED <<braces_depth, config_stack, blocks, statements>>
  BY DEF After, EndOfInput
<1>2. result' \in {"accepted", "rejected"} /\ (result' = "accepted" => braces_depth = 0)
  BY DEF EndOfInput
<1>3. AcceptedIsComplete'
  <2> SUFFICES ASSUME result' = "accepted" PROVE AcceptedIsComplete'
    BY DEF AcceptedIsComplete
  <2>1. config_stack \in Seq(1..blocks) /\ Len(config_stack) = 1 /\ config_stack[1] = 1
    BY <1>2 DEF ParserInv, ParserOK, StackFollowsBraces
  <2>2. config_stack = <<1>>
    BY <2>1
  <2>3. QED
    BY <1>1, <2>2 DEF AcceptedIsComplete, ParserInv, NoneOpen, EndedOnce, BlocksHaveParents
<1>4. QED
  BY <1>1, <1>2, <1>3 DEF ParserInv, ParserOK, StackFollowsBraces, BackIsBeingRead, OnlyLastIsOpen,
                          NoneOpen, EndedOnce, BlocksHaveParents

\* Every step of Parse keeps the invariant.
LEMMA ParserStep == ASSUME ParserInv, ParseStep PROVE ParserInv'
<1>1. result = "parsing"
  BY ParseStepCases
<1>2. CASE \E t \in TokenTypes \ {"START"} : Token(t)
  <2>1. PICK t \in TokenTypes \ {"START"} : Token(t)
    BY <1>2
  <2>2. CASE last_token_type \notin After(t)
    BY <1>1, <2>1, <2>2, RejectStep DEF Token
  <2>3. CASE last_token_type \in After(t)
    <3>1. CASE t = "NORMAL"
      <4>1. NormalToken /\ result' = "parsing" /\ last_token_type' = "NORMAL"
        BY <1>1, <2>1, <2>3, <3>1 DEF Token, NormalToken
      <4>2. QED
        BY <1>1, <4>1, NormalStep
    <3>2. CASE t = "STATEMENT_END"
      BY <1>1, <2>1, <2>3, <3>2, EndStatementStep DEF Token, EndStatement, After
    <3>3. CASE t = "START_BLOCK"
      BY <1>1, <2>1, <2>3, <3>3, StartBlockStep DEF Token, StartBlock, After
    <3>4. CASE t = "END_BLOCK"
      BY <1>1, <2>1, <2>3, <3>4, EndBlockStep DEF Token
    <3>5. CASE t = "EOF"
      <4>1. EndOfInput /\ last_token_type' = last_token_type
        BY <1>1, <2>1, <2>3, <3>5 DEF Token, EndOfInput
      <4>2. QED
        BY <1>1, <2>3, <3>5, <4>1, EndOfInputStep
    <3>6. QED
      BY <2>1, <3>1, <3>2, <3>3, <3>4, <3>5 DEF TokenTypes
  <2>4. QED
    BY <2>2, <2>3
<1>3. CASE Reject
  BY <1>1, <1>3, RejectStep
<1>4. CASE UNCHANGED parser
  BY <1>4 DEF parser, ParserInv, ParserOK, StackFollowsBraces, BackIsBeingRead, OnlyLastIsOpen,
              AcceptedIsComplete, NoneOpen, EndedOnce, BlocksHaveParents, Top
<1>5. QED
  BY <1>2, <1>3, <1>4, ParseStepCases

-----------------------------------------------------------------------------
(* The program                                                             *)

\* The config is looked at only after Parse has returned.
StartupOK ==
  /\ startup \in {"args", "parsing", "fields", "locations", "started", "crashed", "exited"}
  /\ at \in Nat \ {0}
  /\ ports \in [PortFields -> PortNumbers]
  /\ startup \in {"args", "parsing"} => at = 1
  /\ startup \in {"fields", "locations", "started", "crashed"} => result # "parsing"

\* The fields that have been looked up so far, when the program is at one of them.
Done(field) ==
  \/ startup \in {"locations", "started"}
  \/ startup = "fields" /\ \E k \in 1..Len(LookedUp) : k < at /\ LookedUp[k] = field

FieldNames == {"certificate", "privateKey"} \cup PortFields

\* Looking up a field met no null block, and a port that has been looked up is what
\* get_num finds in the parsed config.
LookedUpOK ==
  \A field \in FieldNames :
    Done(field) =>
      /\ ~DereferencesNull(statements, 1, field)
      /\ field \in PortFields => ports[field] = port_(get_num(statements, 1, field))

\* The inductive invariant of the program.
MainInv == LexerOK /\ ParserInv /\ StartupOK /\ CrashExplained /\ LookedUpOK

\* A port is a number of 16 bits, whatever the config says.
LEMMA PortType ==
  ASSUME NEW b, NEW field \in PortFields
  PROVE  port_(get_num(statements, b, field)) \in PortNumbers
<1>1. get_num(statements, b, field) \in Int
  BY ConfigAssumption DEF get_num, default_nums, PortFields
<1>2. \A k \in Int : k % 65536 \in PortNumbers
  BY DEF PortNumbers
<1>3. QED
  BY <1>1, <1>2 DEF port_

\* A statement without a block was ended by a semicolon, or is the one at which
\* Parse gave up.
LEMMA NoBlockExplained ==
  ASSUME ParserInv, result # "parsing", NEW n \in 1..Len(statements), statements[n].child_block = 0
  PROVE  statements[n].ended \/ (result = "rejected" /\ n = Len(statements))
BY DEF ParserInv, ParserOK, OnlyLastIsOpen, AcceptedIsComplete

\* A lookup that dereferences a null block has met a server statement without one.
LEMMA NullIsServer ==
  ASSUME NEW b, NEW field, DereferencesNull(statements, b, field)
  PROVE  \E n \in 1..Len(statements) : statements[n].word = "server" /\ statements[n].child_block = 0
BY DEF DereferencesNull, Stops, Servers, StatementsOf

\* What has been looked up stays so as long as the config and the ports do.
LEMMA LookedUpKept ==
  ASSUME LookedUpOK, UNCHANGED <<statements, ports>>,
         \A field \in FieldNames : Done(field)' => Done(field)
  PROVE  LookedUpOK'
BY DEF LookedUpOK

\* Looking up a field that is there adds it to those looked up.
LEMMA LookedUpStep ==
  ASSUME StartupOK, LookedUpOK, UNCHANGED statements, startup = "fields", startup' = "fields",
         at <= Len(LookedUp), at' = at + 1,
         ~DereferencesNull(statements, 1, LookedUp[at]),
         ports' = IF LookedUp[at] \in PortFields
                  THEN [ports EXCEPT ![LookedUp[at]] = port_(get_num(statements, 1, LookedUp[at]))]
                  ELSE ports
  PROVE  LookedUpOK'
<1> SUFFICES ASSUME NEW field \in FieldNames, Done(field)'
             PROVE  /\ ~DereferencesNull(statements, 1, field)
                    /\ field \in PortFields => ports'[field] = port_(get_num(statements, 1, field))
  BY DEF LookedUpOK
<1>1. ports \in [PortFields -> PortNumbers] /\ at \in Nat \ {0}
  BY DEF StartupOK
<1>2. CASE field = LookedUp[at]
  BY <1>1, <1>2
<1>3. CASE field # LookedUp[at]
  <2>1. PICK k \in 1..Len(LookedUp) : k < at + 1 /\ LookedUp[k] = field
    BY DEF Done
  <2>2. k < at
    BY <1>1, <1>3, <2>1
  <2>3. Done(field) /\ (field \in PortFields => ports'[field] = ports[field])
    BY <1>1, <1>3, <2>1, <2>2 DEF Done
  <2>4. QED
    BY <2>3 DEF LookedUpOK
<1>4. QED
  BY <1>2, <1>3

\* First is what a scan from the beginning comes to first.
LEMMA FirstIsLeast ==
  ASSUME NEW S \in SUBSET Nat, S # {}
  PROVE  First(S) \in S /\ \A m \in S : First(S) <= m
BY LeastElement DEF First

\* The statements that may give a port its number.
Usable(field) ==
  {n \in 1..Len(statements) :
     /\ IsField(statements, n, field)
     /\ statements[n].block = 1 \/ \E m \in Servers(statements, 1) :
                                     statements[m].child_block = statements[n].block}

\* The two scans of get_str miss no statement that may be used, and come to no
\* other.
LEMMA FoundIsUsable ==
  ASSUME statements \in Seq(Statements(blocks)), NEW field, ~DereferencesNull(statements, 1, field)
  PROVE  IF Usable(field) = {} THEN Found(statements, 1, field) = 0
         ELSE Found(statements, 1, field) \in Usable(field)
<1> DEFINE top   == Fields(statements, 1, field)
           stops == Stops(statements, 1, field)
           s     == First(stops)
           inner == Fields(statements, statements[s].child_block, field)
<1>1. 1..Len(statements) \subseteq Nat
  OBVIOUS
<1>2. top \subseteq Usable(field) /\ top \in SUBSET Nat
  BY <1>1 DEF Fields, StatementsOf, Usable
<1>3. stops \in SUBSET Nat /\ inner \in SUBSET Nat
  BY <1>1 DEF Stops, Servers, Fields, StatementsOf
<1>4. CASE top # {}
  <2>1. First(top) \in top
    BY <1>2, <1>4, FirstIsLeast
  <2>2. QED
    BY <1>2, <1>4, <2>1 DEF Found
<1>5. CASE top = {} /\ stops = {}
  <2>1. \A n \in Usable(field) : FALSE
    <3> SUFFICES ASSUME NEW n \in Usable(field) PROVE FALSE
      OBVIOUS
    <3>1. statements[n].block # 1
      BY <1>5 DEF Usable, Fields, StatementsOf
    <3>2. PICK m \in Servers(statements, 1) : statements[m].child_block = statements[n].block
      BY <3>1 DEF Usable
    <3>3. n \in Fields(statements, statements[m].child_block, field)
      BY <3>2 DEF Usable, Fields, StatementsOf
    <3>4. m \in stops
      BY <3>2, <3>3 DEF Stops
    <3>5. QED
      BY <1>5, <3>4
  <2>2. QED
    BY <1>5, <2>1 DEF Found
<1>6. CASE top = {} /\ stops # {}
  <2>1. s \in stops /\ \A m \in stops : s <= m
    BY <1>3, <1>6, FirstIsLeast
  <2>2. s \in Servers(statements, 1) /\ inner # {}
    BY <1>6, <2>1 DEF DereferencesNull, Stops
  <2>3. First(inner) \in inner
    BY <1>3, <2>2, FirstIsLeast
  <2>4. inner \subseteq Usable(field)
    BY <2>2 DEF Fields, StatementsOf, Usable
  <2>5. Found(statements, 1, field) = First(inner)
    BY <1>6 DEF Found
  <2>6. QED
    BY <2>3, <2>4, <2>5
<1>7. QED
  BY <1>4, <1>5, <1>6

\* If load_server_certificate has found both paths, the config names both.
LEMMA NamedIsWritten ==
  ASSUME ParserInv, LookedUpOK, StartupOK, startup = "fields", at <= Len(LookedUp),
         LookedUp[at] = "privateKey", ~DereferencesNull(statements, 1, "privateKey"), PathsNamed
  PROVE  \A f \in {"certificate", "privateKey"} :
           \E n \in 1..Len(statements) : IsField(statements, n, f)
<1>1. at \in Nat \ {0} /\ at > 1 /\ 1 \in 1..Len(LookedUp) /\ LookedUp[1] = "certificate"
  BY DEF LookedUp, StartupOK
<1>2. Done("certificate")
  BY <1>1 DEF Done
<1>3. ~DereferencesNull(statements, 1, "certificate")
  BY <1>2 DEF LookedUpOK, FieldNames
<1>4. statements \in Seq(Statements(blocks))
  BY DEF ParserInv, ParserOK
<1>5. ASSUME NEW f \in {"certificate", "privateKey"}
      PROVE  \E n \in 1..Len(statements) : IsField(statements, n, f)
  <2>1. ~DereferencesNull(statements, 1, f) /\ Found(statements, 1, f) # 0
    BY <1>3, <1>5 DEF PathsNamed
  <2>2. Found(statements, 1, f) \in Usable(f)
    BY <1>4, <2>1, FoundIsUsable
  <2>3. QED
    BY <2>2 DEF Usable
<1>6. QED
  BY <1>5

\* The program starts with an empty config and has not crashed.
LEMMA MainInitInv == MainInit => MainInv
<1> SUFFICES ASSUME MainInit PROVE MainInv
  OBVIOUS
<1>1. LexerOK
  BY ParserAssumption DEF MainInit, Init, LexerOK
<1>2. ParserInv
  BY ParserInit DEF MainInit
<1>3. StartupOK /\ CrashExplained /\ LookedUpOK
  BY DEF MainInit, Init, StartupOK, CrashExplained, PortNumbers, LookedUpOK, Done
<1>4. QED
  BY <1>1, <1>2, <1>3 DEF MainInv

\* Every step of the program keeps its invariant.
LEMMA MainNextInv == MainInv /\ [MainNext]_mainVars => MainInv'
<1> SUFFICES ASSUME MainInv, [MainNext]_mainVars PROVE MainInv'
  OBVIOUS
<1> USE DEF MainInv
<1>1. ASSUME UNCHANGED vars PROVE LexerOK' /\ ParserInv'
  BY <1>1 DEF vars, lexer, parser, LexerOK, ParserInv, ParserOK, StackFollowsBraces, BackIsBeingRead,
              OnlyLastIsOpen, AcceptedIsComplete, NoneOpen, EndedOnce, BlocksHaveParents, Top
<1>2. ASSUME UNCHANGED vars PROVE UNCHANGED <<statements, result>>
  BY <1>2 DEF vars, parser
<1>0. ASSUME startup' \in {"args", "parsing", "exited", "crashed"} \/ (startup' = "fields" /\ at' = 1)
      PROVE  LookedUpOK'
  BY <1>0 DEF LookedUpOK, Done
<1>3. CASE \E argc \in {1, 2} : ParseArgs(argc)
  BY <1>0, <1>1, <1>2, <1>3 DEF ParseArgs, StartupOK, CrashExplained
<1>4. CASE CannotOpen
  <2>1. Reject /\ UNCHANGED lexer /\ UNCHANGED <<startup, at, ports>> /\ startup = "parsing" /\ result = "parsing"
    BY <1>4 DEF CannotOpen, Reject
  <2>2. ParserInv' /\ LexerOK'
    BY <2>1, RejectStep DEF lexer, LexerOK
  <2>3. QED
    BY <1>0, <2>1, <2>2 DEF StartupOK, CrashExplained, Reject
<1>5. CASE Parsing
  BY <1>0, <1>5, LexerStep, ParserStep DEF Parsing, StartupOK, CrashExplained
<1>6. CASE ParseReturns
  BY <1>0, <1>1, <1>2, <1>6 DEF ParseReturns, StartupOK, CrashExplained
<1>7. CASE LookUp
  <2> DEFINE field == LookedUp[at]
  <2>1. UNCHANGED vars /\ startup = "fields" /\ at <= Len(LookedUp)
    BY <1>7 DEF LookUp
  <2>2. CASE DereferencesNull(statements, 1, field)
    <3>1. startup' = "crashed" /\ UNCHANGED <<at, ports>>
      BY <1>7, <2>2 DEF LookUp
    <3>2. PICK n \in 1..Len(statements) : statements[n].word = "server" /\ statements[n].child_block = 0
      BY <2>2, NullIsServer
    <3>3. CrashExplained'
      BY <1>2, <2>1, <3>2, NoBlockExplained DEF StartupOK, CrashExplained
    <3>4. QED
      BY <1>0, <1>1, <1>2, <2>1, <3>1, <3>3 DEF StartupOK
  <2>3. CASE /\ ~DereferencesNull(statements, 1, field)
             /\ field = "privateKey" /\ PathsNamed
             /\ startup' = "crashed" /\ UNCHANGED <<at, ports>>
    <3>1. CrashExplained'
      BY <1>2, <2>1, <2>3, NamedIsWritten DEF CrashExplained
    <3>2. QED
      BY <1>0, <1>1, <1>2, <2>1, <2>3, <3>1 DEF StartupOK
  <2>4. CASE /\ ~DereferencesNull(statements, 1, field)
             /\ at' = at + 1 /\ startup' = startup
             /\ ports' = IF field \in PortFields
                         THEN [ports EXCEPT ![field] = port_(get_num(statements, 1, field))]
                         ELSE ports
    <3>1. /\ at' = at + 1 /\ startup' = startup
          /\ ports' = IF field \in PortFields
                      THEN [ports EXCEPT ![field] = port_(get_num(statements, 1, field))]
                      ELSE ports
      BY <2>4
    <3>2. ports' \in [PortFields -> PortNumbers]
      BY <3>1, PortType DEF StartupOK
    <3>3. LookedUpOK'
      BY <1>2, <2>1, <2>4, <3>1, LookedUpStep
    <3>4. QED
      BY <1>1, <1>2, <2>1, <3>1, <3>2, <3>3 DEF StartupOK, CrashExplained
  <2>5. QED
    BY <1>7, <2>2, <2>3, <2>4 DEF LookUp
<1>8. CASE FieldsDone
  <2>1. \A field \in FieldNames : Done(field)
    <3>1. startup = "fields" /\ at > 4 /\ at \in Nat
      BY <1>8 DEF FieldsDone, LookedUp, StartupOK
    <3>2. \A field \in FieldNames : \E k \in 1..Len(LookedUp) : k <= 4 /\ LookedUp[k] = field
      <4>1. /\ 1 \in 1..Len(LookedUp) /\ LookedUp[1] = "certificate"
            /\ 2 \in 1..Len(LookedUp) /\ LookedUp[2] = "privateKey"
            /\ 3 \in 1..Len(LookedUp) /\ LookedUp[3] = "port"
            /\ 4 \in 1..Len(LookedUp) /\ LookedUp[4] = "httpsPort"
        BY DEF LookedUp
      <4>2. QED
        BY <4>1 DEF FieldNames, PortFields
    <3>3. QED
      BY <3>1, <3>2 DEF Done
  <2>2. LookedUpOK'
    BY <1>2, <1>8, <2>1, LookedUpKept DEF FieldsDone
  <2>3. QED
    BY <1>1, <1>2, <1>8, <2>2 DEF FieldsDone, StartupOK, CrashExplained
<1>9. CASE CreateHandlers
  <2>1. UNCHANGED vars /\ startup = "locations" /\ at \in 1..Len(statements) /\ UNCHANGED ports
    BY <1>9 DEF CreateHandlers, StartupOK, ParserInv, ParserOK
  <2>2. CASE startup' = "crashed" /\ UNCHANGED at
    <3>1. PICK n \in 1..Len(statements) :
            statements[n].word \in {"server", "location"} /\ statements[n].child_block = 0
      BY <1>9, <2>1, <2>2, NullIsServer DEF CreateHandlers, IsLocation
    <3>2. CrashExplained'
      BY <1>2, <2>1, <3>1, NoBlockExplained DEF StartupOK, CrashExplained
    <3>3. QED
      BY <1>0, <1>1, <1>2, <2>1, <2>2, <3>2 DEF StartupOK
  <2>3. CASE at' = at + 1 /\ UNCHANGED startup
    <3>1. LookedUpOK'
      BY <1>2, <2>1, <2>3, LookedUpKept DEF Done
    <3>2. QED
      BY <1>1, <1>2, <2>1, <2>3, <3>1 DEF StartupOK, CrashExplained
  <2>4. QED
    BY <1>9, <2>2, <2>3 DEF CreateHandlers
<1>10. CASE HandlersDone
  <2>1. LookedUpOK'
    BY <1>2, <1>10, LookedUpKept DEF HandlersDone, Done
  <2>2. QED
    BY <1>1, <1>2, <1>10, <2>1 DEF HandlersDone, StartupOK, CrashExplained
<1>11. CASE Over \/ UNCHANGED mainVars
  <2>1. UNCHANGED <<vars, startup, at, ports>>
    BY <1>11 DEF Over, mainVars
  <2>2. LookedUpOK'
    BY <1>2, <2>1, LookedUpKept DEF Done
  <2>3. QED
    BY <1>1, <1>2, <2>1, <2>2 DEF StartupOK, CrashExplained
<1>12. QED
  BY <1>3, <1>4, <1>5, <1>6, <1>7, <1>8, <1>9, <1>10, <1>11 DEF MainNext, MainStep

\* The invariant holds of the program, whatever the config file contains.
THEOREM MainInvariance == MainSpec => []MainInv
BY MainInitInv, MainNextInv, PTL DEF MainSpec

\* Type correctness of the parser and of the start of the program; in particular
\* the ports are numbers of 16 bits.
THEOREM MainTypeCorrect == MainSpec => []MainTypeOK
<1>1. MainInv => MainTypeOK
  BY DEF MainInv, LexerOK, ParserInv, ParserOK, StartupOK, MainTypeOK, TypeOK
<1>2. QED
  BY <1>1, MainInvariance, PTL

\* top() and pop() always find a block, however the braces are nested.
THEOREM StackTheorem == MainSpec => []StackFollowsBraces
<1>1. MainInv => StackFollowsBraces
  BY DEF MainInv, ParserInv
<1>2. QED
  BY <1>1, MainInvariance, PTL

\* statements_.back() is always the statement being read.
THEOREM BackTheorem == MainSpec => []BackIsBeingRead
<1>1. MainInv => BackIsBeingRead
  BY DEF MainInv, ParserInv
<1>2. QED
  BY <1>1, MainInvariance, PTL

\* An accepted config has no open statement and no open block.
THEOREM AcceptedTheorem == MainSpec => []AcceptedIsComplete
<1>1. MainInv => AcceptedIsComplete
  BY DEF MainInv, ParserInv
<1>2. QED
  BY <1>1, MainInvariance, PTL

\* A config the server starts on, accepted or not, is open at its end only.
THEOREM OpenTheorem == MainSpec => []OnlyLastIsOpen
<1>1. MainInv => OnlyLastIsOpen
  BY DEF MainInv, ParserInv
<1>2. QED
  BY <1>1, MainInvariance, PTL

\* Every step of ParseToken gets on with the file: what StartupEnds rests on, for
\* files of any length.
THEOREM PutBackTheorem == MainSpec => PutBackOnce
<1>1. MainInv /\ [MainNext]_mainVars =>
        [ParseStep =>
           \/ length' = length + 1
           \/ length' = length /\ peeked # "none" /\ peeked' = "none"
           \/ result' # "parsing"]_vars
  BY LexerProgress DEF MainInv
<1>2. QED
  BY <1>1, MainInvariance, PTL DEF MainSpec, PutBackOnce

\* Starting up crashes only on a server or location statement that has no block, or
\* when the config names a certificate and a key.
THEOREM CrashTheorem == MainSpec => []CrashExplained
<1>1. MainInv => CrashExplained
  BY DEF MainInv
<1>2. QED
  BY <1>1, MainInvariance, PTL

-----------------------------------------------------------------------------
(* The ports                                                               *)

\* A number of 16 bits is kept as it is.
LEMMA PortFits == \A k \in PortNumbers : port_(k) = k
BY DEF PortNumbers, port_

\* The server listens on the ports its config names, and on the defaults only if
\* it names none: no statement that get_str should find is missed, whatever else
\* the config contains.
THEOREM PortTheorem == MainSpec => []PortIsWritten
<1>1. MainInv => PortIsWritten
  <2> SUFFICES ASSUME MainInv, startup = "started", NEW field \in PortFields
               PROVE  IF Usable(field) = {} THEN ports[field] = default_nums[field]
                      ELSE \E n \in Usable(field) :
                             IF statements[n].value \in DOMAIN Numbers
                             THEN Numbers[statements[n].value] \in PortNumbers =>
                                    ports[field] = Numbers[statements[n].value]
                             ELSE ports[field] = default_nums[field]
    BY DEF PortIsWritten, Usable
  <2> DEFINE found == Found(statements, 1, field)
  <2>1. /\ ~DereferencesNull(statements, 1, field)
        /\ ports[field] = port_(get_num(statements, 1, field))
    BY DEF MainInv, LookedUpOK, Done, FieldNames
  <2>2. IF Usable(field) = {} THEN found = 0 ELSE found \in Usable(field)
    BY <2>1, FoundIsUsable DEF MainInv, ParserInv, ParserOK
  <2>3. default_nums[field] \in PortNumbers /\ field \in DOMAIN default_nums
    BY DEF default_nums, PortFields, PortNumbers
  <2>4. CASE Usable(field) = {}
    BY <2>1, <2>2, <2>3, <2>4, PortFits DEF get_num
  <2>5. CASE Usable(field) # {}
    <3>1. found \in Usable(field) /\ found # 0
      BY <2>2, <2>5 DEF Usable
    <3>2. CASE statements[found].value \in DOMAIN Numbers
      BY <2>1, <2>5, <3>1, <3>2, PortFits DEF get_num
    <3>3. CASE statements[found].value \notin DOMAIN Numbers
      BY <2>1, <2>3, <2>5, <3>1, <3>3, PortFits DEF get_num
    <3>4. QED
      BY <3>2, <3>3
  <2>6. QED
    BY <2>4, <2>5
<1>2. QED
  BY <1>1, MainInvariance, PTL
=============================================================================
