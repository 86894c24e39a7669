---------------------------- MODULE SessionProofs ----------------------------
(***************************************************************************)
(* Proofs about Session, for any set of connections, any requests and any  *)
(* number of items per connection.                                         *)
(***************************************************************************)
EXTENDS Session, TLAPS

-----------------------------------------------------------------------------
(* The inductive invariant                                                 *)

\* No answer written so far closes the connection.
StillOpen(s) == \A n \in 1..Len(outbox[s]) : ~Closes(outbox[s][n])

\* A closing answer, if there is one, is the last.
OnlyLastCloses(s) ==
  \A n \in 1..Len(outbox[s]) :
    Closes(outbox[s][n]) => n = Len(outbox[s]) /\ parsed[s] <= n

InOrder(s) ==
  \A n \in 1..Len(outbox[s]) :
    \/ n <= parsed[s] /\ outbox[s][n] = Answer(sent[s][n])
    \/ n = Len(outbox[s]) /\ outbox[s][n] = BadRequest

\* Before the first read.
Fresh(s) ==
  phase[s] \in {"none", "starting", "handshaking"} =>
    /\ outbox[s] = <<>>
    /\ parsed[s] = 0
    /\ phase[s] = "handshaking" => kind[s] = "SSL"
    /\ phase[s] = "none" \/ kind[s] = "SSL" => sent[s] = <<>>

\* While reading: everything parsed earlier has been answered.
Reading(s) ==
  phase[s] = "reading" =>
    /\ StillOpen(s)
    /\ event[s] \in {"none", "timeout"} => parsed[s] = Len(outbox[s])
    /\ event[s] = "timeout" => deadline[s] = "expired"
    /\ event[s] = "ok" => /\ parsed[s] = Len(outbox[s]) + 1
                          /\ req_[s] = sent[s][parsed[s]]
                          /\ req_[s] \in Requests
    /\ event[s] = "error" => /\ Len(outbox[s]) <= parsed[s]
                             /\ parsed[s] <= Len(outbox[s]) + 1
    /\ event[s] = "end_of_stream" => /\ peer[s] # "open"
                                     /\ parsed[s] = Len(sent[s])
                                     /\ parsed[s] = Len(outbox[s])

Handling(s) ==
  phase[s] = "handling" =>
    /\ StillOpen(s)
    /\ parsed[s] = Len(outbox[s]) + 1
    /\ req_[s] = sent[s][parsed[s]]
    /\ req_[s] \in Routed

\* While writing: the flag agrees with the header of the response.
Writing(s) ==
  phase[s] = "writing" =>
    /\ close[s] = Closes(res_[s])
    /\ parsed[s] <= Len(outbox[s]) + 1
    /\ event[s] = "none" =>
         /\ StillOpen(s)
         /\ \/ res_[s] = BadRequest
            \/ parsed[s] = Len(outbox[s]) + 1 /\ res_[s] = Answer(sent[s][parsed[s]])
    /\ event[s] = "ok" =>
         /\ outbox[s] # <<>>
         /\ outbox[s][Len(outbox[s])] = res_[s]
         /\ ~close[s] => parsed[s] = Len(outbox[s])
    /\ event[s] = "timeout" => deadline[s] = "expired"
    /\ event[s] = "error" => peer[s] = "reset"
    /\ event[s] # "end_of_stream"

Ended(s) ==
  phase[s] = "gone" =>
    IF sock[s] \in {"shut_both", "shut_send"}
    THEN \/ outbox[s] # <<>> /\ Closes(outbox[s][Len(outbox[s])])
         \/ peer[s] # "open" /\ Len(outbox[s]) = Len(sent[s])
    ELSE \/ deadline[s] = "expired"
         \/ peer[s] = "reset"
         \/ kind[s] = "SSL" /\ sent[s] = <<>>

Consistent(s) ==
  /\ OnlyLastCloses(s)
  /\ InOrder(s)
  /\ Fresh(s)
  /\ Reading(s)
  /\ Handling(s)
  /\ Writing(s)
  /\ Ended(s)

IInv == TypeOK /\ \A s \in Sessions : Consistent(s)
-----------------------------------------------------------------------------
(* Facts about messages                                                    *)

\* The responses of the handlers are responses, and none is NoResponse.
LEMMA ResponseFacts ==
  /\ NoResponse \in Responses
  /\ BadRequest \in Responses /\ Closes(BadRequest)
  /\ NotFoundError \in Responses /\ Closes(NotFoundError)
  /\ \A r \in Requests : Handled(r) \in Responses
  /\ \A r \in Routed : Answer(r) = Handled(r)
  /\ \A r \in Requests \ Routed : Answer(r) = NotFoundError
  /\ \A res : Closes(res) \in BOOLEAN
BY HttpAssumption
   DEF Responses, NoResponse, BadRequest, NotFoundError, Handled, Answer, Closes, NeedEof

-----------------------------------------------------------------------------
(* Type correctness                                                        *)

\* A session that does not exist yet is well typed.
LEMMA InitTypeOK == Init => TypeOK
BY ResponseFacts DEF Init, TypeOK, Phases, Kinds, Events

\* Every handler of the code keeps the types.
LEMMA HandlersTypeOK ==
  ASSUME TypeOK, NEW s \in Sessions, Handlers(s)
  PROVE  TypeOK'
<1> USE ResponseFacts, HttpAssumption DEF TypeOK, Phases, Kinds, Events, stream
<1>1. CASE StartTCP(s)
  BY <1>1 DEF StartTCP, do_read, set_expiration
<1>2. CASE DoHandshake(s)
  BY <1>2 DEF DoHandshake, set_expiration
<1>3. CASE AfterHandshake(s)
  BY <1>3 DEF AfterHandshake, Return, do_read, set_expiration
<1>4. CASE OnRead(s)
  <2> USE <1>4 DEF OnRead
  <2>1. CASE OnReadTimeout(s)
    BY <2>1 DEF OnReadTimeout, Return
  <2>2. CASE OnReadEndOfStream(s)
    BY <2>2 DEF OnReadEndOfStream, Return, shutdown_stream
  <2>3. CASE OnReadError(s)
    BY <2>3 DEF OnReadError, async_write_stream
  <2>4. CASE OnReadUnrouted(s)
    BY <2>4 DEF OnReadUnrouted, async_write_stream
  <2>5. CASE OnReadRouted(s)
    BY <2>5 DEF OnReadRouted
  <2>6. QED
    BY <2>1, <2>2, <2>3, <2>4, <2>5
<1>5. CASE HandlerReturns(s)
  <2>1. Handled(req_[s]) \in Responses
    BY HttpAssumption DEF Handled, Responses
  <2>2. QED
    BY <1>5, <2>1 DEF HandlerReturns, async_write_stream
<1>6. CASE FinishedWrite(s)
  <2> USE <1>6 DEF FinishedWrite
  <2>1. CASE WriteFailed(s)
    BY <2>1 DEF WriteFailed, Return
  <2>2. CASE WriteCloses(s)
    BY <2>2 DEF WriteCloses, Return, shutdown_stream
  <2>3. CASE WriteKeepsAlive(s)
    BY <2>3 DEF WriteKeepsAlive, do_read, set_expiration
  <2>4. QED
    BY <2>1, <2>2, <2>3
<1>7. QED
  BY <1>1, <1>2, <1>3, <1>4, <1>5, <1>6 DEF Handlers

\* Every completion of an asynchronous operation keeps the types.
LEMMA CompletionsTypeOK ==
  ASSUME TypeOK, NEW s \in Sessions, Completions(s)
  PROVE  TypeOK'
<1> USE DEF TypeOK, Phases, Kinds, Events
<1>0. [outbox EXCEPT ![s] = Append(@, res_[s])] \in [Sessions -> Seq(Responses)]
  <2>1. Append(outbox[s], res_[s]) \in Seq(Responses)
    OBVIOUS
  <2>2. QED
    BY <2>1
<1>1. CASE HandshakeDone(s)
  BY <1>1 DEF HandshakeDone, Completes
<1>2. CASE HandshakeTimesOut(s)
  BY <1>2 DEF HandshakeTimesOut, TimesOut, Completes
<1>3. CASE ReadParses(s)
  <2>1. sent[s][parsed[s] + 1] \in Items /\ sent[s][parsed[s] + 1] # Partial
    BY <1>3 DEF ReadParses, PartialNext
  <2>2. PICK f \in IF NeedsInput(s) THEN (parsed[s] + 1)..Len(sent[s]) ELSE {fetched[s]} :
          fetched' = [fetched EXCEPT ![s] = f]
    BY <1>3 DEF ReadParses, Fetch
  <2>3. f \in Nat /\ parsed[s] + 1 <= f /\ f <= Len(sent[s])
    <3>1. CASE NeedsInput(s)
      BY <2>2, <3>1
    <3>2. CASE ~NeedsInput(s)
      BY <2>2, <3>2 DEF NeedsInput
    <3>3. QED
      BY <3>1, <3>2
  <2>4. req_' \in [Sessions -> Requests \cup {None}] /\ event' \in [Sessions -> Events]
    BY <1>3, <2>1 DEF ReadParses, Completes, Items
  <2>5. fetched' \in [Sessions -> Nat] /\ parsed' = [parsed EXCEPT ![s] = parsed[s] + 1]
    BY <1>3, <2>2, <2>3 DEF ReadParses
  <2>6. UNCHANGED <<phase, kind, res_, close, deadline, peer, sent, sock, outbox>>
    BY <1>3 DEF ReadParses, Completes
  <2>7. \A t \in Sessions : parsed'[t] <= fetched'[t] /\ fetched'[t] <= Len(sent'[t])
    BY <2>2, <2>3, <2>5, <2>6
  <2>8. QED
    BY <2>4, <2>5, <2>6, <2>7
<1>4. CASE ReadEnds(s)
  BY <1>4 DEF ReadEnds, Completes
<1>5. CASE ReadTimesOut(s)
  BY <1>5 DEF ReadTimesOut, TimesOut, Completes
<1>6. CASE WriteDone(s)
  BY <1>6, <1>0 DEF WriteDone, Completes
<1>7. CASE WriteTimesOut(s)
  BY <1>7, <1>0 DEF WriteTimesOut, TimesOut, Completes
<1>8. QED
  BY <1>1, <1>2, <1>3, <1>4, <1>5, <1>6, <1>7 DEF Completions

\* The client and the passing of time keep the types.
LEMMA OthersTypeOK ==
  ASSUME TypeOK, NEW s \in Sessions,
         (\E k \in Kinds : Construct(s, k)) \/ Expire(s) \/ Client(s)
  PROVE  TypeOK'
<1> USE DEF TypeOK, Phases, Kinds, Events, stream
<1>1. CASE \E k \in Kinds : Construct(s, k)
  BY <1>1 DEF Construct
<1>2. CASE Expire(s)
  BY <1>2 DEF Expire
<1>3. CASE \E i \in Items : ClientSend(s, i)
  BY <1>3 DEF ClientSend
<1>4. CASE \E how \in {"fin", "cut", "reset"} : ClientCloses(s, how)
  BY <1>4 DEF ClientCloses
<1>5. QED
  BY <1>1, <1>2, <1>3, <1>4 DEF Client

\* Every step keeps the types.
LEMMA NextTypeOK == TypeOK /\ [Next]_vars => TypeOK'
<1> SUFFICES ASSUME TypeOK, [Next]_vars PROVE TypeOK'
  OBVIOUS
<1>1. CASE UNCHANGED vars
  BY <1>1 DEF vars, stream, TypeOK
<1>2. CASE Next
  BY <1>1, <1>2, HandlersTypeOK, CompletionsTypeOK, OthersTypeOK DEF Next, AllGone
<1>3. QED
  BY <1>1, <1>2

\* Every variable of every session keeps its type, and the parser never runs
\* ahead of buffer_, nor buffer_ ahead of what the client sent.
THEOREM TypeCorrect == Spec => []TypeOK
BY InitTypeOK, NextTypeOK, PTL DEF Spec
-----------------------------------------------------------------------------
(* A step of one session leaves the others alone                           *)

Untouched(t) ==
  /\ phase'[t] = phase[t] /\ kind'[t] = kind[t] /\ event'[t] = event[t]
  /\ req_'[t] = req_[t] /\ res_'[t] = res_[t] /\ close'[t] = close[t]
  /\ deadline'[t] = deadline[t] /\ sock'[t] = sock[t] /\ peer'[t] = peer[t]
  /\ sent'[t] = sent[t] /\ parsed'[t] = parsed[t] /\ outbox'[t] = outbox[t]

\* A session whose variables a step leaves alone stays consistent.
LEMMA UntouchedConsistent ==
  ASSUME NEW t \in Sessions, Consistent(t), Untouched(t)
  PROVE  Consistent(t)'
<1> USE DEF Untouched, Consistent
<1>1. OnlyLastCloses(t)' /\ InOrder(t)'
  BY DEF OnlyLastCloses, InOrder
<1>2. Fresh(t)' /\ Ended(t)'
  BY DEF Fresh, Ended
<1>3. Reading(t)' /\ Handling(t)'
  BY DEF Reading, Handling, StillOpen
<1>4. Writing(t)'
  BY DEF Writing, StillOpen
<1>5. QED
  BY <1>1, <1>2, <1>3, <1>4

\* A step of one session leaves the variables of all others alone.
LEMMA StepIsLocal ==
  ASSUME TypeOK, NEW s \in Sessions,
         Handlers(s) \/ Completions(s) \/ Expire(s) \/ Client(s) \/ \E k \in Kinds : Construct(s, k),
         NEW t \in Sessions, t # s
  PROVE  Untouched(t)
<1> USE DEF TypeOK, Untouched, stream
<1>1. CASE \E k \in Kinds : Construct(s, k)
  BY <1>1 DEF Construct
<1>2. CASE Expire(s)
  BY <1>2 DEF Expire
<1>3. CASE Client(s)
  BY <1>3 DEF Client, ClientSend, ClientCloses
<1>4. CASE Completions(s)
  <2> USE DEF Completes, TimesOut
  <2>1. CASE HandshakeDone(s) \/ HandshakeTimesOut(s)
    BY <2>1 DEF HandshakeDone, HandshakeTimesOut
  <2>2. CASE ReadParses(s)
    BY <2>2 DEF ReadParses
  <2>3. CASE ReadEnds(s) \/ ReadTimesOut(s)
    BY <2>3 DEF ReadEnds, ReadTimesOut
  <2>4. CASE WriteDone(s) \/ WriteTimesOut(s)
    BY <2>4 DEF WriteDone, WriteTimesOut
  <2>5. QED
    BY <1>4, <2>1, <2>2, <2>3, <2>4 DEF Completions
<1>5. CASE Handlers(s)
  <2> USE DEF Return, do_read, set_expiration, async_write_stream
  <2>1. CASE StartTCP(s) \/ DoHandshake(s) \/ AfterHandshake(s)
    BY <2>1 DEF StartTCP, DoHandshake, AfterHandshake
  <2>2. CASE OnRead(s)
    BY <2>2 DEF OnRead, OnReadTimeout, OnReadEndOfStream, OnReadError, OnReadUnrouted, OnReadRouted
  <2>3. CASE HandlerReturns(s)
    BY <2>3 DEF HandlerReturns
  <2>4. CASE FinishedWrite(s)
    BY <2>4 DEF FinishedWrite, WriteFailed, WriteCloses, WriteKeepsAlive
  <2>5. QED
    BY <1>5, <2>1, <2>2, <2>3, <2>4 DEF Handlers
<1>6. QED
  BY <1>1, <1>2, <1>3, <1>4, <1>5
-----------------------------------------------------------------------------
(* Every handler and every completion keeps its session consistent         *)

\* A session that does not exist yet is consistent.
LEMMA InitConsistent == Init => \A s \in Sessions : Consistent(s)
BY DEF Init, Consistent, OnlyLastCloses, InOrder, Fresh, Reading, Handling, Writing, Ended

\* Every handler of the code keeps its session consistent.
LEMMA HandlersConsistent ==
  ASSUME TypeOK, NEW s \in Sessions, Consistent(s), Handlers(s)
  PROVE  Consistent(s)'
<1> USE ResponseFacts DEF TypeOK, Consistent, Fresh, Reading, Handling, Writing, Ended, stream
<1>1. CASE StartTCP(s)
  BY <1>1 DEF StartTCP, do_read, set_expiration, OnlyLastCloses, InOrder, StillOpen
<1>2. CASE DoHandshake(s)
  BY <1>2 DEF DoHandshake, set_expiration, OnlyLastCloses, InOrder
<1>3. CASE AfterHandshake(s)
  <2> USE <1>3 DEF AfterHandshake, OnlyLastCloses, InOrder, StillOpen
  <2>1. CASE event[s] # "ok"
    BY <2>1 DEF Return
  <2>2. CASE event[s] = "ok"
    BY <2>2 DEF do_read, set_expiration
  <2>3. QED
    BY <2>1, <2>2
<1>4. CASE OnRead(s)
  <2> USE <1>4 DEF OnRead, OnlyLastCloses, InOrder, StillOpen
  <2>1. CASE OnReadTimeout(s)
    BY <2>1 DEF OnReadTimeout, Return
  <2>2. CASE OnReadEndOfStream(s)
    BY <2>2 DEF OnReadEndOfStream, Return, shutdown_stream
  <2>3. CASE OnReadError(s)
    BY <2>3 DEF OnReadError, async_write_stream
  <2>4. CASE OnReadUnrouted(s)
    BY <2>4 DEF OnReadUnrouted, async_write_stream
  <2>5. CASE OnReadRouted(s)
    BY <2>5 DEF OnReadRouted
  <2>6. QED
    BY <2>1, <2>2, <2>3, <2>4, <2>5
<1>5. CASE HandlerReturns(s)
  BY <1>5, HttpAssumption
     DEF HandlerReturns, async_write_stream, OnlyLastCloses, InOrder, StillOpen
<1>6. CASE FinishedWrite(s)
  <2> USE <1>6 DEF FinishedWrite, OnlyLastCloses, InOrder, StillOpen
  <2>1. CASE WriteFailed(s)
    BY <2>1 DEF WriteFailed, Return
  <2>2. CASE WriteCloses(s)
    BY <2>2 DEF WriteCloses, Return, shutdown_stream
  <2>3. CASE WriteKeepsAlive(s)
    BY <2>3 DEF WriteKeepsAlive, do_read, set_expiration
  <2>4. QED
    BY <2>1, <2>2, <2>3
<1>7. QED
  BY <1>1, <1>2, <1>3, <1>4, <1>5, <1>6 DEF Handlers

\* Writing the response of the current exchange.
LEMMA ResponseWritten ==
  ASSUME TypeOK, NEW s \in Sessions, Consistent(s),
         phase[s] = "writing", event[s] = "none",
         outbox' = [outbox EXCEPT ![s] = Append(@, res_[s])],
         UNCHANGED <<sent, parsed>>
  PROVE  /\ OnlyLastCloses(s)' /\ InOrder(s)'
         /\ Len(outbox'[s]) = Len(outbox[s]) + 1
         /\ outbox'[s][Len(outbox'[s])] = res_[s]
<1>1. /\ Len(outbox'[s]) = Len(outbox[s]) + 1
      /\ outbox'[s][Len(outbox'[s])] = res_[s]
      /\ \A n \in 1..Len(outbox[s]) : outbox'[s][n] = outbox[s][n]
  BY DEF TypeOK
<1>2. /\ StillOpen(s) /\ InOrder(s)
      /\ parsed[s] <= Len(outbox[s]) + 1
      /\ \/ res_[s] = BadRequest
         \/ parsed[s] = Len(outbox[s]) + 1 /\ res_[s] = Answer(sent[s][parsed[s]])
  BY DEF Consistent, Writing
<1>3. OnlyLastCloses(s)'
  BY <1>1, <1>2 DEF TypeOK, StillOpen, OnlyLastCloses
<1>4. \A n \in 1..Len(outbox[s]) : n <= parsed[s] /\ outbox[s][n] = Answer(sent[s][n])
  BY <1>2, ResponseFacts DEF StillOpen, InOrder
<1>5. InOrder(s)'
  BY <1>1, <1>2, <1>4 DEF TypeOK, InOrder
<1>6. QED
  BY <1>1, <1>3, <1>5

\* Every completion keeps its session consistent.
LEMMA CompletionsConsistent ==
  ASSUME TypeOK, NEW s \in Sessions, Consistent(s), Completions(s)
  PROVE  Consistent(s)'
<1>0. ASSUME outbox' = [outbox EXCEPT ![s] = Append(@, res_[s])],
             phase[s] = "writing", event[s] = "none", UNCHANGED <<sent, parsed>>
      PROVE  /\ OnlyLastCloses(s)' /\ InOrder(s)'
             /\ outbox'[s] # <<>>
             /\ Len(outbox'[s]) = Len(outbox[s]) + 1
             /\ outbox'[s][Len(outbox'[s])] = res_[s]
  <2>1. /\ OnlyLastCloses(s)' /\ InOrder(s)'
        /\ Len(outbox'[s]) = Len(outbox[s]) + 1
        /\ outbox'[s][Len(outbox'[s])] = res_[s]
    BY <1>0, ResponseWritten
  <2>2. outbox'[s] # <<>>
    BY <2>1 DEF TypeOK
  <2>3. QED
    BY <2>1, <2>2
<1> USE ResponseFacts DEF TypeOK, Consistent, Fresh, Reading, Handling, Writing, Ended
<1>1. CASE HandshakeDone(s)
  BY <1>1 DEF HandshakeDone, Completes, OnlyLastCloses, InOrder
<1>2. CASE HandshakeTimesOut(s)
  BY <1>2 DEF HandshakeTimesOut, TimesOut, Completes, OnlyLastCloses, InOrder
<1>3. CASE ReadParses(s)
  <2>1. sent[s][parsed[s] + 1] \in Items /\ sent[s][parsed[s] + 1] # Partial
    BY <1>3 DEF ReadParses, PartialNext
  <2>2. QED
    BY <1>3, <2>1 DEF ReadParses, Completes, Items, OnlyLastCloses, InOrder, StillOpen
<1>4. CASE ReadEnds(s)
  <2>1. /\ phase[s] = "reading" /\ event[s] = "none"
        /\ event'[s] \in {"end_of_stream", "error"}
        /\ event'[s] = "end_of_stream" => peer[s] = "fin" /\ parsed[s] = Len(sent[s])
        /\ UNCHANGED <<phase, kind, res_, close, deadline, peer, sent, req_, sock, parsed, outbox>>
    BY <1>4 DEF ReadEnds, Completes
  <2>2. QED
    BY <2>1 DEF OnlyLastCloses, InOrder, StillOpen
<1>5. CASE ReadTimesOut(s)
  BY <1>5 DEF ReadTimesOut, TimesOut, Completes, OnlyLastCloses, InOrder, StillOpen
<1>6. CASE WriteDone(s)
  <2>1. CASE UNCHANGED outbox
    BY <1>6, <2>1 DEF WriteDone, Completes, OnlyLastCloses, InOrder
  <2>2. CASE outbox' = [outbox EXCEPT ![s] = Append(@, res_[s])]
    <3>1. /\ phase[s] = "writing" /\ event[s] = "none" /\ event'[s] \in {"ok", "error"}
          /\ UNCHANGED <<phase, kind, res_, close, deadline, peer, sent, req_, sock, parsed>>
          /\ event'[s] = "error" => peer[s] = "reset"
      BY <1>6 DEF WriteDone, Completes
    <3>2. QED
      BY <1>0, <2>2, <3>1
  <2>3. QED
    BY <1>6, <2>1, <2>2 DEF WriteDone
<1>7. CASE WriteTimesOut(s)
  <2>1. CASE UNCHANGED outbox
    BY <1>7, <2>1 DEF WriteTimesOut, TimesOut, Completes, OnlyLastCloses, InOrder
  <2>2. CASE outbox' = [outbox EXCEPT ![s] = Append(@, res_[s])]
    <3>1. /\ phase[s] = "writing" /\ event[s] = "none" /\ event'[s] = "timeout"
          /\ deadline[s] = "expired"
          /\ UNCHANGED <<phase, kind, res_, close, deadline, peer, sent, req_, parsed>>
      BY <1>7 DEF WriteTimesOut, TimesOut, Completes
    <3>2. QED
      BY <1>0, <2>2, <3>1
  <2>3. QED
    BY <1>7, <2>1, <2>2 DEF WriteTimesOut
<1>8. QED
  BY <1>1, <1>2, <1>3, <1>4, <1>5, <1>6, <1>7 DEF Completions

\* The client and the passing of time keep a session consistent.
LEMMA OthersConsistent ==
  ASSUME TypeOK, NEW s \in Sessions, Consistent(s),
         (\E k \in Kinds : Construct(s, k)) \/ Expire(s) \/ Client(s)
  PROVE  Consistent(s)'
<1> USE DEF TypeOK, Consistent, Fresh, Reading, Handling, Writing, Ended, stream, Live,
            OnlyLastCloses, InOrder, StillOpen
<1>1. CASE \E k \in Kinds : Construct(s, k)
  BY <1>1 DEF Construct
<1>2. CASE Expire(s)
  BY <1>2 DEF Expire
<1>3. ASSUME NEW i \in Items, ClientSend(s, i) PROVE Consistent(s)'
  <2>1. /\ Len(sent'[s]) = Len(sent[s]) + 1
        /\ \A n \in 1..Len(sent[s]) : sent'[s][n] = sent[s][n]
    BY <1>3 DEF ClientSend
  <2>2. QED
    BY <1>3, <2>1 DEF ClientSend
<1>4. CASE \E how \in {"fin", "cut", "reset"} : ClientCloses(s, how)
  BY <1>4 DEF ClientCloses
<1>5. QED
  BY <1>1, <1>2, <1>3, <1>4 DEF Client
-----------------------------------------------------------------------------
(* The theorems                                                            *)

\* The invariant holds initially.
LEMMA InvInit == Init => IInv
BY InitTypeOK, InitConsistent DEF IInv

\* Every step keeps the invariant.
LEMMA InvNext == IInv /\ [Next]_vars => IInv'
<1> SUFFICES ASSUME IInv, [Next]_vars PROVE IInv'
  OBVIOUS
<1>1. TypeOK /\ TypeOK' /\ \A t \in Sessions : Consistent(t)
  BY NextTypeOK DEF IInv
<1>2. CASE UNCHANGED vars
  <2>1. \A t \in Sessions : Untouched(t)
    BY <1>2 DEF vars, stream, Untouched
  <2>2. QED
    BY <1>1, <2>1, UntouchedConsistent DEF IInv
<1>3. ASSUME NEW s \in Sessions,
             Handlers(s) \/ Completions(s) \/ Expire(s) \/ Client(s) \/ \E k \in Kinds : Construct(s, k)
      PROVE  IInv'
  <2>1. Consistent(s)'
    BY <1>1, <1>3, HandlersConsistent, CompletionsConsistent, OthersConsistent
  <2>2. ASSUME NEW t \in Sessions, t # s PROVE Consistent(t)'
    BY <1>1, <1>3, <2>2, StepIsLocal, UntouchedConsistent
  <2>3. QED
    BY <1>1, <2>1, <2>2 DEF IInv
<1>4. QED
  BY <1>2, <1>3 DEF Next, AllGone

\* Every reachable state satisfies the inductive invariant: each session is
\* consistent with the phase it is in.
THEOREM Invariance == Spec => []IInv
BY InvInit, InvNext, PTL DEF Spec

\* Pipelined or not, timed out or not, the n-th response written answers the
\* n-th item received, for any number of connections and of items.
THEOREM InOrderTheorem == Spec => []AnswersInOrder
<1>1. IInv => AnswersInOrder
  BY DEF IInv, TypeOK, Consistent, InOrder, AnswersInOrder
<1>2. QED
  BY <1>1, Invariance, PTL

\* After "Connection: close" nothing is written and nothing is parsed.
THEOREM ClosingTheorem == Spec => []ClosingAnswerIsLast
<1>1. IInv => ClosingAnswerIsLast
  <2> SUFFICES ASSUME IInv, NEW s \in Sessions, NEW n \in 1..Len(outbox[s]), Closes(outbox[s][n])
               PROVE  n = Len(outbox[s]) /\ parsed[s] <= n /\ phase[s] \in {"writing", "gone"}
    BY DEF ClosingAnswerIsLast
  <2>1. Consistent(s) /\ TypeOK
    BY DEF IInv
  <2>2. n = Len(outbox[s]) /\ parsed[s] <= n
    BY <2>1 DEF Consistent, OnlyLastCloses
  <2>3. phase[s] \notin {"none", "starting", "handshaking"}
    BY <2>1 DEF Consistent, Fresh
  <2>4. phase[s] \notin {"reading", "handling"}
    BY <2>1 DEF Consistent, Reading, Handling, StillOpen
  <2>5. QED
    BY <2>1, <2>2, <2>3, <2>4 DEF TypeOK, Phases
<1>2. QED
  BY <1>1, Invariance, PTL

\* Every ended session ended after a closing answer, after a finished client got
\* all its answers, or because of a timeout or a failure of the client.
THEOREM EndTheorem == Spec => []EndExplained
<1>1. IInv => EndExplained
  BY DEF IInv, Consistent, Ended, EndExplained
<1>2. QED
  BY <1>1, Invariance, PTL

\* Only do_read renews a deadline, and it runs when nothing is owed.
LEMMA RenewedByDoRead ==
  ASSUME IInv, NEW s \in Sessions, Next, deadline[s] = "expired", deadline'[s] = "armed"
  PROVE  Len(outbox[s]) = parsed[s]
<1>1. TypeOK /\ Consistent(s)
  BY DEF IInv
<1>2. PICK u \in Sessions : \/ Handlers(u) \/ Completions(u) \/ Expire(u) \/ Client(u)
                            \/ \E k \in Kinds : Construct(u, k)
  BY DEF Next, AllGone, vars
<1>3. u = s
  BY <1>1, <1>2, StepIsLocal DEF Untouched
<1>4. Handlers(s)
  BY <1>1, <1>2, <1>3
     DEF TypeOK, Completions, HandshakeDone, HandshakeTimesOut, ReadParses, ReadEnds, ReadTimesOut,
         WriteDone, WriteTimesOut, TimesOut, Completes, Expire, Client, ClientSend, ClientCloses, Construct
<1>5. StartTCP(s) \/ DoHandshake(s) \/ AfterHandshake(s) \/ (FinishedWrite(s) /\ WriteKeepsAlive(s))
  BY <1>1, <1>4
     DEF TypeOK, Handlers, OnRead, HandlerReturns, FinishedWrite, WriteFailed, WriteCloses
<1>6. QED
  BY <1>1, <1>5
     DEF TypeOK, Consistent, Fresh, Writing, StartTCP, DoHandshake, AfterHandshake,
         FinishedWrite, WriteKeepsAlive

\* The deadline set by do_read is one budget for the whole exchange.
THEOREM DeadlineTheorem == Spec => OneDeadlinePerExchange
<1>1. IInv /\ [Next]_vars =>
        [\A s \in Sessions :
           deadline[s] = "expired" /\ deadline'[s] = "armed" => Len(outbox[s]) = parsed[s]]_vars
  BY RenewedByDoRead
<1>2. QED
  BY <1>1, Invariance, PTL DEF Spec, OneDeadlinePerExchange
=============================================================================
