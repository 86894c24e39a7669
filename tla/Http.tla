-------------------------------- MODULE Http --------------------------------
(***************************************************************************)
(* The HTTP messages a connection carries, abstracted to what the session  *)
(* code tells apart: which handler (if any) a request is routed to, and    *)
(* what the Connection field of the answer says.                           *)
(***************************************************************************)
CONSTANTS
  Requests,    \* complete, well-formed requests
  Routed,      \* the requests for which construct_response finds a handler
  KeepAlive,   \* the routed ones whose handler has keep_alive set
  Malformed,   \* a message the parser rejects (syntax, header or body limit)
  Partial,     \* the beginning of a request whose end never comes
  None         \* no request

ASSUME HttpAssumption ==
  /\ Routed \subseteq Requests
  /\ KeepAlive \subseteq Routed
  /\ Malformed \notin Requests /\ Partial \notin Requests /\ None \notin Requests
  /\ Malformed # Partial /\ Malformed # None /\ Partial # None

\* What a client may put on its stream.
Items == Requests \cup {Malformed, Partial}

\* A response: who produced it, the request its body was computed from, and its
\* Connection field ("none" when the field is absent).
Responses ==
  [ status     : {"none", "handled", "not_found", "bad_request"},
    to         : Requests \cup {None},
    connection : {"none", "keep-alive", "close"} ]

\* res_ = {}
NoResponse == [status |-> "none", to |-> None, connection |-> "none"]

\* RequestHandler::bad_request and RequestHandler::not_found_error
BadRequest    == [status |-> "bad_request", to |-> None, connection |-> "close"]
NotFoundError == [status |-> "not_found",   to |-> None, connection |-> "close"]

\* The answer of the handler a request is routed to, with the Connection field
\* construct_response sets from handler->keep_alive.
Handled(r) ==
  [ status |-> "handled", to |-> r,
    connection |-> IF r \in KeepAlive THEN "keep-alive" ELSE "close" ]

\* The answer each item of a client's stream deserves.
Answer(i) ==
  IF i \in Routed THEN Handled(i)
  ELSE IF i \in Requests THEN NotFoundError
  ELSE BadRequest

\* message::need_eof: every response of the program has a Content-Length, so
\* the end of the connection is needed unless the response keeps it alive.
NeedEof(res) == res.connection # "keep-alive"

\* The server means to end the connection after this response.
Closes(res) == res.connection = "close" \/ NeedEof(res)
=============================================================================
