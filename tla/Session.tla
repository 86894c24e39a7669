------------------------------- MODULE Session -------------------------------
(***************************************************************************)
(* The connections of the server: class session with its two subclasses    *)
(* sessionTCP and sessionSSL, the Beast stream below each of them, and the *)
(* client at the other end.                                                *)
(*                                                                         *)
(* A session is a chain of asynchronous operations.  An operation is       *)
(* started by one handler (phase), completes on its own (event), and its   *)
(* completion is then consumed by the next handler.  Between the           *)
(* completion and the handler other things happen: the deadline passes,    *)
(* the client sends more, closes or resets.                                *)
(*                                                                         *)
(* Beast's stream is modelled from its use: expires_after fixes ONE        *)
(* absolute deadline, which stays in force over the read, the handler and  *)
(* the write that follow it; it is enforced only while an operation is     *)
(* pending, by closing the socket and completing the operation with        *)
(* error::timeout, and an operation may still complete with its own result *)
(* after the deadline has passed.                                          *)
(***************************************************************************)
EXTENDS Http, Naturals, Sequences

CONSTANTS
  Sessions,    \* the connections
  Blocking,    \* requests whose handler may never return (the proxy has no timeout)
  MaxItems     \* bound: items a client sends on one connection

ASSUME SessionAssumption ==
  /\ Blocking \subseteq Routed
  /\ MaxItems \in Nat \ {0}

VARIABLES
  phase,       \* the operation or handler the session is in
  kind,        \* sessionTCP or sessionSSL
  event,       \* completion of the pending operation, not yet handled
  req_, res_,  \* the request and the response of the current exchange
  close,       \* the flag bound into the completion handler of the write
  deadline,    \* expires_after
  sock,        \* the server's end of the socket
  peer,        \* the client's end of the socket
  sent,        \* everything the client has sent
  fetched,     \* how much of it has been read into buffer_
  parsed,      \* how much of it has been parsed out of buffer_
  outbox       \* everything the server has written

stream == <<sent, fetched, parsed, peer>>
vars   == <<phase, kind, event, req_, res_, close, deadline, sock, stream, outbox>>

Phases == {"none", "starting", "handshaking", "reading", "handling", "writing", "gone"}
Kinds  == {"TCP", "SSL"}
Events == {"none", "ok", "timeout", "end_of_stream", "error"}

Init ==
  /\ phase    = [s \in Sessions |-> "none"]
  /\ kind     = [s \in Sessions |-> "TCP"]
  /\ event    = [s \in Sessions |-> "none"]
  /\ req_     = [s \in Sessions |-> None]
  /\ res_     = [s \in Sessions |-> NoResponse]
  /\ close    = [s \in Sessions |-> FALSE]
  /\ deadline = [s \in Sessions |-> "never"]
  /\ sock     = [s \in Sessions |-> "none"]
  /\ peer     = [s \in Sessions |-> "open"]
  /\ sent     = [s \in Sessions |-> <<>>]
  /\ fetched  = [s \in Sessions |-> 0]
  /\ parsed   = [s \in Sessions |-> 0]
  /\ outbox   = [s \in Sessions |-> <<>>]

-----------------------------------------------------------------------------
(* Pieces shared by the handlers                                           *)

Live(s) == phase[s] \notin {"none", "gone"}

\* The next item of the stream is the beginning of a request that never ends.
\* Nothing follows it.
PartialNext(s) == parsed[s] < Len(sent[s]) /\ sent[s][parsed[s] + 1] = Partial

\* buffer_ holds no complete message, so a read has to wait for the network.
NeedsInput(s) == fetched[s] = parsed[s] \/ PartialNext(s)

\* The handler returned without starting another operation: the last
\* shared_ptr is dropped and the destructor closes the socket.
Return(s, how) ==
  /\ phase' = [phase EXCEPT ![s] = "gone"]
  /\ event' = [event EXCEPT ![s] = "none"]
  /\ sock'  = [sock  EXCEPT ![s] = how]

\* shutdown_stream: sessionTCP shuts both directions, sessionSSL only its own.
shutdown_stream(s) == IF kind[s] = "TCP" THEN "shut_both" ELSE "shut_send"

set_expiration(s) == deadline' = [deadline EXCEPT ![s] = "armed"]

\* Mutant: the read is started without a deadline.
do_readUntimed(s) ==
  /\ phase' = [phase EXCEPT ![s] = "reading"]
  /\ event' = [event EXCEPT ![s] = "none"]
  /\ req_'  = [req_  EXCEPT ![s] = None]
  /\ UNCHANGED deadline

\* session::do_read, up to and including async_read_stream
do_read(s) ==
  /\ phase' = [phase EXCEPT ![s] = "reading"]
  /\ event' = [event EXCEPT ![s] = "none"]
  /\ req_'  = [req_  EXCEPT ![s] = None]
  /\ set_expiration(s)

\* async_write_stream(c), with r in res_
async_write_stream(s, r, c) ==
  /\ res_'  = [res_  EXCEPT ![s] = r]
  /\ close' = [close EXCEPT ![s] = c]
  /\ phase' = [phase EXCEPT ![s] = "writing"]
  /\ event' = [event EXCEPT ![s] = "none"]

\* The pending operation of phase ph completes with result ec.
Completes(s, ph, ec) ==
  /\ phase[s] = ph
  /\ event[s] = "none"
  /\ event' = [event EXCEPT ![s] = ec]
  /\ UNCHANGED <<phase, kind, res_, close, deadline, peer, sent>>

\* ... with error::timeout, after Beast has closed the socket.
TimesOut(s, ph) ==
  /\ deadline[s] = "expired"
  /\ Completes(s, ph, "timeout")
  /\ sock' = [sock EXCEPT ![s] = "closed"]
  /\ UNCHANGED <<req_, fetched, parsed>>

-----------------------------------------------------------------------------
(* The session's handlers                                                  *)

\* The constructor and start(), which hands the first handler to the strand.
Construct(s, k) ==
  /\ phase[s] = "none"
  /\ phase' = [phase EXCEPT ![s] = "starting"]
  /\ kind'  = [kind  EXCEPT ![s] = k]
  /\ sock'  = [sock  EXCEPT ![s] = "open"]
  /\ UNCHANGED <<event, req_, res_, close, deadline, stream, outbox>>

\* sessionTCP: the strand runs do_read.
StartTCP(s) ==
  /\ phase[s] = "starting"
  /\ kind[s] = "TCP"
  /\ do_read(s)
  /\ UNCHANGED <<kind, res_, close, sock, stream, outbox>>

\* sessionSSL: the strand runs do_handshake.
DoHandshake(s) ==
  /\ phase[s] = "starting"
  /\ kind[s] = "SSL"
  /\ set_expiration(s)
  /\ phase' = [phase EXCEPT ![s] = "handshaking"]
  /\ UNCHANGED <<kind, event, req_, res_, close, sock, stream, outbox>>

AfterHandshake(s) ==
  /\ phase[s] = "handshaking"
  /\ event[s] # "none"
  /\ \/ /\ event[s] # "ok"
        /\ Return(s, "closed")
        /\ UNCHANGED <<req_, deadline>>
     \/ /\ event[s] = "ok"
        /\ do_read(s)
        /\ UNCHANGED sock
  /\ UNCHANGED <<kind, res_, close, stream, outbox>>

\* session::on_read, by the result of the read.
OnReadTimeout(s) ==
  /\ event[s] = "timeout"
  /\ Return(s, "closed")
  /\ UNCHANGED <<res_, close>>

OnReadEndOfStream(s) ==
  /\ event[s] = "end_of_stream"
  /\ Return(s, shutdown_stream(s))
  /\ UNCHANGED <<res_, close>>

\* Mutants: the 400 is sent without close = true; a failed read is treated like
\* the end of the stream.
OnReadErrorKeepsOpen(s) ==
  /\ event[s] = "error"
  /\ async_write_stream(s, BadRequest, FALSE)
  /\ UNCHANGED sock
OnReadErrorHangsUp(s) ==
  /\ event[s] = "error"
  /\ Return(s, shutdown_stream(s))
  /\ UNCHANGED <<res_, close>>

OnReadError(s) ==
  /\ event[s] = "error"
  /\ async_write_stream(s, BadRequest, TRUE)
  /\ UNCHANGED sock

\* No handler for the target.
OnReadUnrouted(s) ==
  /\ event[s] = "ok"
  /\ req_[s] \notin Routed
  /\ async_write_stream(s, NotFoundError, Closes(NotFoundError))
  /\ UNCHANGED sock

\* construct_response calls the handler, which may block: on_read is resumed by
\* HandlerReturns.
OnReadRouted(s) ==
  /\ event[s] = "ok"
  /\ req_[s] \in Routed
  /\ phase' = [phase EXCEPT ![s] = "handling"]
  /\ event' = [event EXCEPT ![s] = "none"]
  /\ UNCHANGED <<res_, close, sock>>

OnRead(s) ==
  /\ phase[s] = "reading"
  /\ \/ OnReadTimeout(s)
     \/ OnReadEndOfStream(s)
     \/ OnReadError(s)
     \/ OnReadUnrouted(s)
     \/ OnReadRouted(s)
  /\ UNCHANGED <<kind, req_, deadline, stream, outbox>>

\* Mutant: the deadline is renewed for the write.
HandlerReturnsRenewing(s) ==
  /\ phase[s] = "handling"
  /\ async_write_stream(s, Handled(req_[s]), Closes(Handled(req_[s])))
  /\ set_expiration(s)
  /\ UNCHANGED <<kind, req_, sock, stream, outbox>>

\* get_response returns: the rest of construct_response and of on_read.
HandlerReturns(s) ==
  /\ phase[s] = "handling"
  /\ async_write_stream(s, Handled(req_[s]), Closes(Handled(req_[s])))
  /\ UNCHANGED <<kind, req_, deadline, sock, stream, outbox>>

\* session::finished_write, by the result of the write and the close flag.
\* Mutant: the error is ignored.
WriteFailedIgnored(s) ==
  /\ event[s] \in {"timeout", "error"}
  /\ res_' = [res_ EXCEPT ![s] = NoResponse]
  /\ do_read(s)
  /\ UNCHANGED sock

WriteFailed(s) ==
  /\ event[s] \in {"timeout", "error"}
  /\ Return(s, "closed")
  /\ UNCHANGED <<req_, res_, deadline>>

\* Mutant: the close flag is not looked at.
WriteClosesForgotten(s) ==
  /\ event[s] = "ok"
  /\ close[s]
  /\ res_' = [res_ EXCEPT ![s] = NoResponse]
  /\ do_read(s)
  /\ UNCHANGED sock

WriteCloses(s) ==
  /\ event[s] = "ok"
  /\ close[s]
  /\ Return(s, shutdown_stream(s))
  /\ UNCHANGED <<req_, res_, deadline>>

WriteKeepsAlive(s) ==
  /\ event[s] = "ok"
  /\ ~close[s]
  /\ res_' = [res_ EXCEPT ![s] = NoResponse]
  /\ do_read(s)
  /\ UNCHANGED sock

FinishedWrite(s) ==
  /\ phase[s] = "writing"
  /\ WriteFailed(s) \/ WriteCloses(s) \/ WriteKeepsAlive(s)
  /\ UNCHANGED <<kind, close, stream, outbox>>

-----------------------------------------------------------------------------
(* The stream: completions of the pending operation                        *)

HandshakeDone(s) ==
  /\ \/ Completes(s, "handshaking", "error")
     \/ peer[s] = "open" /\ Completes(s, "handshaking", "ok")
  /\ UNCHANGED <<req_, sock, fetched, parsed, outbox>>

HandshakeTimesOut(s) ==
  /\ TimesOut(s, "handshaking")
  /\ UNCHANGED outbox

\* Mutant: what is parsed does not come out of buffer_.
FetchNothing(s) == UNCHANGED fetched

\* If buffer_ holds a whole message already no input is read, otherwise whatever
\* the client has sent may come in with the message.
Fetch(s) ==
  \E f \in IF NeedsInput(s) THEN (parsed[s] + 1)..Len(sent[s]) ELSE {fetched[s]} :
    fetched' = [fetched EXCEPT ![s] = f]

\* A whole message is there.
ReadParses(s) ==
  /\ parsed[s] < Len(sent[s])
  /\ ~PartialNext(s)
  /\ Fetch(s)
  /\ parsed' = [parsed EXCEPT ![s] = @ + 1]
  /\ LET item == sent[s][parsed[s] + 1]
     IN  IF item = Malformed
         THEN Completes(s, "reading", "error") /\ UNCHANGED req_
         ELSE Completes(s, "reading", "ok") /\ req_' = [req_ EXCEPT ![s] = item]
  /\ UNCHANGED <<sock, outbox>>

\* The stream ends.  Between messages that is end_of_stream; inside one it is
\* partial_message; an SSL stream cut without close_notify is stream_truncated;
\* a reset connection fails whenever input is needed.
ReadEnds(s) ==
  /\ \/ /\ peer[s] = "fin" /\ parsed[s] = Len(sent[s])
        /\ Completes(s, "reading", "end_of_stream")
     \/ /\ peer[s] = "fin" /\ PartialNext(s)
        /\ Completes(s, "reading", "error")
     \/ /\ peer[s] = "cut" /\ (parsed[s] = Len(sent[s]) \/ PartialNext(s))
        /\ Completes(s, "reading", "error")
     \/ /\ peer[s] = "reset" /\ NeedsInput(s)
        /\ Completes(s, "reading", "error")
  /\ UNCHANGED <<req_, sock, fetched, parsed, outbox>>

ReadTimesOut(s) ==
  /\ NeedsInput(s)
  /\ TimesOut(s, "reading")
  /\ UNCHANGED outbox

WriteDone(s) ==
  /\ \/ /\ peer[s] # "reset"
        /\ Completes(s, "writing", "ok")
        /\ outbox' = [outbox EXCEPT ![s] = Append(@, res_[s])]
     \/ /\ peer[s] = "reset"
        /\ Completes(s, "writing", "error")
        /\ UNCHANGED outbox
  /\ UNCHANGED <<req_, sock, fetched, parsed>>

\* The response may have left completely before the timeout is reported.
WriteTimesOut(s) ==
  /\ TimesOut(s, "writing")
  /\ \/ UNCHANGED outbox
     \/ outbox' = [outbox EXCEPT ![s] = Append(@, res_[s])]

\* 30 seconds have passed since set_expiration.
Expire(s) ==
  /\ Live(s)
  /\ deadline[s] = "armed"
  /\ deadline' = [deadline EXCEPT ![s] = "expired"]
  /\ UNCHANGED <<phase, kind, event, req_, res_, close, sock, stream, outbox>>

-----------------------------------------------------------------------------
(* The client                                                              *)

\* An SSL client sends requests once the handshake is over.
ClientSend(s, i) ==
  /\ Live(s)
  /\ peer[s] = "open"
  /\ kind[s] = "SSL" => phase[s] \notin {"starting", "handshaking"}
  /\ Len(sent[s]) < MaxItems
  /\ \A n \in 1..Len(sent[s]) : sent[s][n] # Partial
  /\ sent' = [sent EXCEPT ![s] = Append(@, i)]
  /\ UNCHANGED <<phase, kind, event, req_, res_, close, deadline, sock, fetched, parsed, peer, outbox>>

\* The client stops sending (with close_notify under SSL, or without), or the
\* connection is reset.
ClientCloses(s, how) ==
  /\ Live(s)
  /\ \/ how = "fin" /\ peer[s] = "open"
     \/ how = "cut" /\ peer[s] = "open" /\ kind[s] = "SSL"
     \/ how = "reset" /\ peer[s] # "reset"
  /\ peer' = [peer EXCEPT ![s] = how]
  /\ UNCHANGED <<phase, kind, event, req_, res_, close, deadline, sock, sent, fetched, parsed, outbox>>

-----------------------------------------------------------------------------

Handlers(s) ==
  \/ StartTCP(s) \/ DoHandshake(s) \/ AfterHandshake(s)
  \/ OnRead(s) \/ HandlerReturns(s) \/ FinishedWrite(s)

Completions(s) ==
  \/ HandshakeDone(s) \/ HandshakeTimesOut(s)
  \/ ReadParses(s) \/ ReadEnds(s) \/ ReadTimesOut(s)
  \/ WriteDone(s) \/ WriteTimesOut(s)

Client(s) ==
  \/ \E i \in Items : ClientSend(s, i)
  \/ \E how \in {"fin", "cut", "reset"} : ClientCloses(s, how)

\* Every connection is over.
AllGone == (\A s \in Sessions : phase[s] = "gone") /\ UNCHANGED vars

Next ==
  \/ \E s \in Sessions :
       \/ \E k \in Kinds : Construct(s, k)
       \/ Handlers(s)
       \/ Completions(s)
       \/ Expire(s)
       \/ Client(s)
  \/ AllGone

\* Time passes; an overdue operation is completed by the timer and a message
\* that is already in buffer_ is parsed; queued handlers are run by the worker
\* threads; a request handler returns unless it is one that may block.  Nothing
\* is assumed of the client or of the speed of the network.
Fairness ==
  \A s \in Sessions :
    /\ WF_vars(Expire(s))
    /\ WF_vars(HandshakeTimesOut(s) \/ ReadTimesOut(s) \/ WriteTimesOut(s))
    /\ WF_vars(~NeedsInput(s) /\ ReadParses(s))
    /\ WF_vars(StartTCP(s) \/ DoHandshake(s) \/ AfterHandshake(s) \/ OnRead(s) \/ FinishedWrite(s))
    /\ WF_vars(req_[s] \notin Blocking /\ HandlerReturns(s))

Spec == Init /\ [][Next]_vars
FairSpec == Spec /\ Fairness
-----------------------------------------------------------------------------
(* Properties                                                              *)

TypeOK ==
  /\ phase    \in [Sessions -> Phases]
  /\ kind     \in [Sessions -> Kinds]
  /\ event    \in [Sessions -> Events]
  /\ req_     \in [Sessions -> Requests \cup {None}]
  /\ res_     \in [Sessions -> Responses]
  /\ close    \in [Sessions -> BOOLEAN]
  /\ deadline \in [Sessions -> {"never", "armed", "expired"}]
  /\ sock     \in [Sessions -> {"none", "open", "shut_both", "shut_send", "closed"}]
  /\ peer     \in [Sessions -> {"open", "fin", "cut", "reset"}]
  /\ sent     \in [Sessions -> Seq(Items)]
  /\ fetched  \in [Sessions -> Nat]
  /\ parsed   \in [Sessions -> Nat]
  /\ outbox   \in [Sessions -> Seq(Responses)]
  /\ \A s \in Sessions : parsed[s] <= fetched[s] /\ fetched[s] <= Len(sent[s])

\* The n-th response written to a connection answers the n-th item received on
\* it, however the requests were pipelined and whatever timed out between them;
\* only the last response may instead be the 400 of a failed read
\* (session.cc on_read, construct_response, finished_write).
AnswersInOrder ==
  \A s \in Sessions : \A n \in 1..Len(outbox[s]) :
    \/ n <= Len(sent[s]) /\ outbox[s][n] = Answer(sent[s][n])
    \/ n = Len(outbox[s]) /\ outbox[s][n] = BadRequest

\* Once the client has been told "Connection: close" nothing more is written,
\* nothing more is parsed, and the session is on its way out: the close flag
\* handed to finished_write agrees with the header of the response.
ClosingAnswerIsLast ==
  \A s \in Sessions : \A n \in 1..Len(outbox[s]) :
    Closes(outbox[s][n]) =>
      /\ n = Len(outbox[s])
      /\ parsed[s] <= n
      /\ phase[s] \in {"writing", "gone"}

\* A session ends for a reason the client can know of.  It shuts the stream down
\* only after a closing answer, or when the client has finished and every item
\* it sent was answered; it drops the connection only if the deadline passed,
\* the client failed, or the handshake did.
EndExplained ==
  \A s \in Sessions : phase[s] = "gone" =>
    IF sock[s] \in {"shut_both", "shut_send"}
    THEN \/ outbox[s] # <<>> /\ Closes(outbox[s][Len(outbox[s])])
         \/ peer[s] # "open" /\ Len(outbox[s]) = Len(sent[s])
    ELSE \/ deadline[s] = "expired"
         \/ peer[s] = "reset"
         \/ kind[s] = "SSL" /\ sent[s] = <<>>

\* The 30 seconds of set_expiration are one budget for waiting, handling and
\* writing: a deadline that has passed is replaced only once everything that was
\* read has been answered (do_read is the only place that renews it).
OneDeadlinePerExchange ==
  [][\A s \in Sessions :
       deadline[s] = "expired" /\ deadline'[s] = "armed" => Len(outbox[s]) = parsed[s]]_vars

\* The session comes to an end of every exchange: whatever the client does or fails
\* to do, another response is written or the session is gone, unless it waits in a
\* handler that has no timeout of its own.  (A client that keeps sending requests
\* is served for ever, since do_read renews the deadline; one that does not say
\* the next thing within it is dropped, session.cc:23, 88.)
ExchangesEnd ==
  \A s \in Sessions : \A n \in 0..(MaxItems + 1) :
    (Live(s) /\ Len(outbox[s]) = n) ~>
      \/ phase[s] = "gone"
      \/ Len(outbox[s]) > n
      \/ phase[s] = "handling" /\ req_[s] \in Blocking

\* The session implements the connection a client relies on.
HC == INSTANCE HttpConnection WITH over <- [s \in Sessions |-> phase[s] = "gone"]
ImplementsHttpConnection == HC!Spec
=============================================================================
