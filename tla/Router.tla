-------------------------------- MODULE Router --------------------------------
(***************************************************************************)
(* From the location blocks of the config to the handler of a request:     *)
(* server::create_all_handlers builds the table, session::                 *)
(* construct_response searches it, and the file and proxy handlers cut     *)
(* their prefix off the target.  URLs are sequences of characters; the     *)
(* slash and the question mark are the two the code looks for.             *)
(***************************************************************************)
EXTENDS Integers, Sequences

CONSTANTS
  Chars,        \* the characters of URLs
  Slash, QMark,
  Urls,         \* what may follow "location" in the config: parsed tokens are not empty
  Targets,      \* request targets: the HTTP parser rejects an empty one
  MaxLocations  \* bound: location blocks in the config

ASSUME RouterAssumption ==
  /\ Slash \in Chars /\ QMark \in Chars /\ Slash # QMark
  /\ Urls \subseteq Seq(Chars) \ {<<>>}
  /\ Targets \subseteq Seq(Chars) \ {<<>>}
  /\ MaxLocations \in Nat

VARIABLES
  stage,                 \* reading the config, idle, in the loop, decided, crashed
  urlToHandler,          \* the prefixes of the table, in the order of the config
  request,               \* req.target()
  target,                \* the local variable of construct_response
  next,                  \* the next entry of the table to look at
  longest_prefix_match,
  correct_handler        \* index in the table, 0 for nullptr

vars == <<stage, urlToHandler, request, target, next, longest_prefix_match, correct_handler>>

Root == <<Slash>>

Init ==
  /\ stage = "config"
  /\ urlToHandler = <<>>
  /\ request = <<>>
  /\ target = <<>>
  /\ next = 1
  /\ longest_prefix_match = 0
  /\ correct_handler = 0

-----------------------------------------------------------------------------
(* create_all_handlers                                                     *)

Shorter(u) == SubSeq(u, 1, Len(u) - 1)
EndsInSlash(u) == u # <<>> /\ u[Len(u)] = Slash

\* Mutant: "/" loses its slash too.
RemoveTrailingSlashAlways(u) == IF EndsInSlash(u) THEN Shorter(u) ELSE u

RemoveTrailingSlash(u) == IF EndsInSlash(u) /\ u # Root THEN Shorter(u) ELSE u
AddLeadingSlash(u) == IF u # <<>> /\ u[1] # Slash THEN Root \o u ELSE u
url_prefix(u) == AddLeadingSlash(RemoveTrailingSlash(u))

\* One location block.  create_handler returns nullptr for an unknown name and
\* the block is left out; a location without a { } block has no child_block_, and
\* copying it for create_handler is undefined: the program crashes here.
CreateHandler(u, known, block) ==
  /\ stage = "config"
  /\ Len(urlToHandler) < MaxLocations
  /\ \/ /\ ~block
        /\ stage' = "crashed"
        /\ UNCHANGED urlToHandler
     \/ /\ block /\ known
        /\ urlToHandler' = Append(urlToHandler, url_prefix(u))
        /\ UNCHANGED stage
     \/ /\ block /\ ~known
        /\ UNCHANGED <<stage, urlToHandler>>
  /\ UNCHANGED <<request, target, next, longest_prefix_match, correct_handler>>

ConfigDone ==
  /\ stage = "config"
  /\ stage' = "ready"
  /\ UNCHANGED <<urlToHandler, request, target, next, longest_prefix_match, correct_handler>>

-----------------------------------------------------------------------------
(* construct_response                                                      *)

\* std::string::rfind("/"): a position, or 0 for npos
LastSlash(t) ==
  IF \E n \in 1..Len(t) : t[n] = Slash
  THEN CHOOSE n \in 1..Len(t) : t[n] = Slash /\ \A m \in (n + 1)..Len(t) : t[m] # Slash
  ELSE 0

\* the first "?" at or after position n, or 0
FirstQMark(t, n) ==
  IF \E m \in n..Len(t) : t[m] = QMark
  THEN CHOOSE m \in n..Len(t) : t[m] = QMark /\ \A k \in n..(m - 1) : t[k] # QMark
  ELSE 0

\* target.erase(first_qmark_index): the index was found in the substring that
\* starts at the last slash, and is applied to the whole target.
EraseQuery(t) ==
  IF LastSlash(t) = 0 \/ FirstQMark(t, LastSlash(t)) = 0 THEN t
  ELSE SubSeq(t, 1, FirstQMark(t, LastSlash(t)) - LastSlash(t))

ConstructResponse(t) ==
  /\ stage = "ready"
  /\ request' = t
  /\ target' = EraseQuery(t) \o Root
  /\ next' = 1
  /\ longest_prefix_match' = 0
  /\ correct_handler' = 0
  /\ stage' = "matching"
  /\ UNCHANGED urlToHandler

\* target.substr(0, prefix_len) == handler_url_prefix
PrefixStringMatch(p) ==
  SubSeq(target, 1, IF Len(p) < Len(target) THEN Len(p) ELSE Len(target)) = p

\* Mutant: the character after the prefix is not looked at.
AnyContinuation(p) == {TRUE}

\* target[prefix_len] == '/' || handler_url_prefix == "/".  At the end of the
\* target there is a NUL; beyond it the read is undefined and gives anything.
LastDirnameNotASubstr(p) ==
  IF Len(p) < Len(target) THEN {target[Len(p) + 1] = Slash \/ p = Root}
  ELSE IF Len(p) = Len(target) THEN {p = Root}
  ELSE BOOLEAN

\* prefix_len > longest_prefix_match
IsLonger(p) == Len(p) > longest_prefix_match

\* One turn of the loop over urlToHandler.
MatchNext ==
  /\ stage = "matching"
  /\ next <= Len(urlToHandler)
  /\ LET p == urlToHandler[next]
     IN  \E whole_dirname \in LastDirnameNotASubstr(p) :
           IF PrefixStringMatch(p) /\ IsLonger(p) /\ whole_dirname
           THEN /\ longest_prefix_match' = Len(p)
                /\ correct_handler' = next
           ELSE UNCHANGED <<longest_prefix_match, correct_handler>>
  /\ next' = next + 1
  /\ UNCHANGED <<stage, urlToHandler, request, target>>

\* The loop is over: correct_handler answers, or not_found_error if there is none.
Decide ==
  /\ stage = "matching"
  /\ next > Len(urlToHandler)
  /\ stage' = "decided"
  /\ UNCHANGED <<urlToHandler, request, target, next, longest_prefix_match, correct_handler>>

\* construct_response returns and its locals are gone; the next request comes.
Answered ==
  /\ stage = "decided"
  /\ stage' = "ready"
  /\ request' = <<>> /\ target' = <<>>
  /\ next' = 1 /\ longest_prefix_match' = 0 /\ correct_handler' = 0
  /\ UNCHANGED urlToHandler

Crashed == stage = "crashed" /\ UNCHANGED vars

Next ==
  \/ \E u \in Urls, known, block \in BOOLEAN : CreateHandler(u, known, block)
  \/ ConfigDone
  \/ \E t \in Targets : ConstructResponse(t)
  \/ MatchNext
  \/ Decide
  \/ Answered
  \/ Crashed

Spec == Init /\ [][Next]_vars

-----------------------------------------------------------------------------
(* FileHandler and ProxyRequestHandler: what is left of the target         *)

\* Mutant: the handler keeps the prefix as it was registered.
HandlerPrefixAsRegistered(p) == p

\* The constructors drop a trailing slash of the prefix, even of "/".
HandlerPrefix(p) == IF EndsInSlash(p) THEN Shorter(p) ELSE p

\* FileHandler::handle_request drops a trailing slash of the target.
FileTarget(t) == IF EndsInSlash(t) THEN Shorter(t) ELSE t

-----------------------------------------------------------------------------
(* Properties                                                              *)

StartsWith(t, p) == Len(p) <= Len(t) /\ \A n \in 1..Len(p) : t[n] = p[n]

TypeOK ==
  /\ stage \in {"config", "ready", "matching", "decided", "crashed"}
  /\ urlToHandler \in Seq(Seq(Chars))
  /\ \A n \in 1..Len(urlToHandler) : urlToHandler[n] # <<>> /\ urlToHandler[n][1] = Slash
  /\ request \in Seq(Chars)
  /\ target \in Seq(Chars)
  /\ next \in Nat \ {0}
  /\ longest_prefix_match \in Nat
  /\ correct_handler \in 0..Len(urlToHandler)

\* A prefix covers a target if it is the target's directory or one above it:
\* "/foo" covers "/foo/" and "/foo/bar/" but not "/foo_continued/".
Covers(p, t) ==
  IF p = Root THEN StartsWith(t, Root) ELSE StartsWith(t, p \o Root)

\* h is the right choice among the first n entries of the table for target t.
BestOf(h, n, t) ==
  /\ h = 0 => \A k \in 1..n : ~Covers(urlToHandler[k], t)
  /\ h # 0 => /\ h \in 1..n
              /\ Covers(urlToHandler[h], t)
              /\ \A k \in 1..n : Covers(urlToHandler[k], t) =>
                   \/ Len(urlToHandler[k]) < Len(urlToHandler[h])
                   \/ Len(urlToHandler[k]) = Len(urlToHandler[h]) /\ h <= k

\* The handler chosen has the longest prefix that covers the target, the first
\* one in the config among equals; there is none only if no prefix covers it.
\* What was read beyond the end of the target makes no difference.
LongestPrefixWins ==
  stage = "decided" => BestOf(correct_handler, Len(urlToHandler), target)

\* The prefix a handler cuts off is really the beginning of the target it cuts,
\* so target.substr(url_prefix.size()) stays in range (fileHandler.cc:61,
\* proxyRequestHandler.cc:103) although the handlers look at the original target
\* and the router at one that it has shortened and lengthened.
SuffixInRange ==
  stage = "decided" /\ correct_handler # 0 =>
    LET p == HandlerPrefix(urlToHandler[correct_handler])
    IN  StartsWith(FileTarget(request), p) /\ StartsWith(request, p)

\* "ignore characters after the first "?" that is after the last "/" in URL"
\* (session.cc:97)
WithoutQuery(t) ==
  IF LastSlash(t) = 0 \/ FirstQMark(t, LastSlash(t)) = 0 THEN t
  ELSE SubSeq(t, 1, FirstQMark(t, LastSlash(t)) - 1)

\* The query of a request does not change which handler answers it.
QueryIgnored ==
  stage = "decided" =>
    BestOf(correct_handler, Len(urlToHandler), WithoutQuery(request) \o Root)
=============================================================================
