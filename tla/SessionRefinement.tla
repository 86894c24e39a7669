-------------------------- MODULE SessionRefinement --------------------------
(***************************************************************************)
(* Session implements HttpConnection: seen from the client, the strands,   *)
(* timers and buffers of the sessions only ever send, answer in turn, give *)
(* up once, and end.                                                       *)
(***************************************************************************)
EXTENDS SessionProofs

over == [s \in Sessions |-> phase[s] = "gone"]

\* Every session starts where its connection starts.
LEMMA MappedInit == Init => HC!Init
BY DEF Init, HC!Init

\* A step that writes and receives nothing is a stutter or the end.
LEMMA QuietStep ==
  ASSUME TypeOK, TypeOK', NEW s \in Sessions, Live(s),
         UNCHANGED <<sent, outbox>>,
         \A t \in Sessions \ {s} : phase'[t] = phase[t]
  PROVE  [HC!Next]_(HC!vars)
<1>1. CASE phase'[s] = "gone"
  <2>1. ~over[s]
    BY DEF Live, over
  <2>2. over' = [over EXCEPT ![s] = TRUE]
    BY <1>1 DEF over
  <2>3. HC!End(s)
    BY <2>1, <2>2 DEF HC!End, over
  <2>4. QED
    BY <2>3 DEF HC!Next
<1>2. CASE phase'[s] # "gone"
  <2>1. \A t \in Sessions : (phase'[t] = "gone") <=> (phase[t] = "gone")
    BY <1>2 DEF Live
  <2>2. over' = over
    BY <2>1 DEF over
  <2>3. QED
    BY <2>2 DEF HC!vars, over
<1>3. QED
  BY <1>1, <1>2

\* The handlers of the code write nothing themselves: they map to a stutter or
\* to the end of the connection.
LEMMA HandlersMapped ==
  ASSUME TypeOK, TypeOK', NEW s \in Sessions, Handlers(s)
  PROVE  [HC!Next]_(HC!vars)
<1>1. \A t \in Sessions \ {s} : phase'[t] = phase[t]
  BY StepIsLocal DEF Untouched
<1>2. Live(s) /\ UNCHANGED <<sent, outbox>>
  BY DEF Handlers, StartTCP, DoHandshake, AfterHandshake, OnRead, HandlerReturns, FinishedWrite,
         Live, stream
<1>3. QED
  BY <1>1, <1>2, QuietStep

\* A completed write is the answer to the next item, or the 400 that gives up.
LEMMA WriteMapped ==
  ASSUME TypeOK, NEW s \in Sessions, Consistent(s),
         phase[s] = "writing", event[s] = "none",
         outbox' = [outbox EXCEPT ![s] = Append(@, res_[s])],
         UNCHANGED <<phase, sent>>
  PROVE  HC!Next
<1>1. /\ StillOpen(s)
      /\ \/ res_[s] = BadRequest
         \/ parsed[s] = Len(outbox[s]) + 1 /\ res_[s] = Answer(sent[s][parsed[s]])
  BY DEF Consistent, Writing
<1>2. ~HC!SaidClose(s)
  <2>1. CASE outbox[s] = <<>>
    BY <2>1 DEF HC!SaidClose
  <2>2. CASE outbox[s] # <<>>
    <3>1. Len(outbox[s]) \in 1..Len(outbox[s])
      BY <2>2 DEF TypeOK
    <3>2. ~Closes(outbox[s][Len(outbox[s])])
      BY <1>1, <3>1 DEF StillOpen
    <3>3. QED
      BY <3>2 DEF HC!SaidClose, HC!Closes, HC!NeedEof, Closes, NeedEof
  <2>3. QED
    BY <2>1, <2>2
<1>3. ~over[s] /\ UNCHANGED over
  BY DEF over
<1>4. CASE res_[s] = BadRequest
  <2>1. HC!GiveUp(s)
    BY <1>2, <1>3, <1>4 DEF HC!GiveUp, HC!Respond, HC!BadRequest, BadRequest, over
  <2>2. QED
    BY <2>1 DEF HC!Next
<1>5. CASE parsed[s] = Len(outbox[s]) + 1 /\ res_[s] = Answer(sent[s][parsed[s]])
  <2>1. Len(outbox[s]) < Len(sent[s])
    BY <1>5 DEF TypeOK
  <2>2. res_[s] = HC!Answer(sent[s][Len(outbox[s]) + 1])
    BY <1>5 DEF Answer, Handled, NotFoundError, BadRequest,
                HC!Answer, HC!Handled, HC!NotFoundError, HC!BadRequest
  <2>3. HC!Reply(s)
    BY <1>2, <1>3, <2>1, <2>2 DEF HC!Reply, HC!Respond, over
  <2>4. QED
    BY <2>3 DEF HC!Next
<1>6. QED
  BY <1>1, <1>4, <1>5

\* The completions of the stream map to steps of the connection.
LEMMA CompletionsMapped ==
  ASSUME TypeOK, TypeOK', NEW s \in Sessions, Consistent(s), Completions(s)
  PROVE  [HC!Next]_(HC!vars)
<1>1. Live(s) /\ event[s] = "none" /\ UNCHANGED <<phase, sent>>
  BY DEF Completions, HandshakeDone, HandshakeTimesOut, ReadParses, ReadEnds, ReadTimesOut,
         WriteDone, WriteTimesOut, TimesOut, Completes, Live
<1>2. \/ UNCHANGED outbox
      \/ phase[s] = "writing" /\ outbox' = [outbox EXCEPT ![s] = Append(@, res_[s])]
  BY DEF Completions, HandshakeDone, HandshakeTimesOut, ReadParses, ReadEnds, ReadTimesOut,
         WriteDone, WriteTimesOut, TimesOut, Completes
<1>3. QED
  BY <1>1, <1>2, QuietStep, WriteMapped

\* The client and the passing of time map to steps of the connection.
LEMMA OthersMapped ==
  ASSUME TypeOK, TypeOK', NEW s \in Sessions,
         (\E k \in Kinds : Construct(s, k)) \/ Expire(s) \/ Client(s)
  PROVE  [HC!Next]_(HC!vars)
<1>1. CASE \E k \in Kinds : Construct(s, k)
  <2>1. UNCHANGED <<sent, outbox>> /\ \A t \in Sessions : (phase'[t] = "gone") <=> (phase[t] = "gone")
    BY <1>1 DEF TypeOK, Construct, stream
  <2>2. QED
    BY <2>1 DEF HC!vars
<1>2. CASE Expire(s) \/ \E how \in {"fin", "cut", "reset"} : ClientCloses(s, how)
  BY <1>2 DEF Expire, ClientCloses, stream, HC!vars
<1>3. ASSUME NEW i \in Items, ClientSend(s, i) PROVE HC!Next
  <2>1. HC!Send(s, i)
    BY <1>3 DEF ClientSend, Live, HC!Send
  <2>2. i \in HC!Items
    BY DEF Items, HC!Items
  <2>3. QED
    BY <2>1, <2>2 DEF HC!Next
<1>4. QED
  BY <1>1, <1>2, <1>3 DEF Client

\* Every step maps to a step of the abstract connections or to a stutter.
LEMMA MappedStep == IInv /\ IInv' /\ [Next]_vars => [HC!Next]_(HC!vars)
<1> SUFFICES ASSUME IInv, IInv', [Next]_vars PROVE [HC!Next]_(HC!vars)
  OBVIOUS
<1>1. CASE UNCHANGED vars
  BY <1>1 DEF vars, stream, HC!vars
<1>2. CASE Next
  BY <1>1, <1>2, HandlersMapped, CompletionsMapped, OthersMapped DEF Next, AllGone, IInv
<1>3. QED
  BY <1>1, <1>2

\* For any connections, requests and bound, every behaviour of the sessions is a
\* behaviour of the connection a client relies on.
THEOREM Refinement == Spec => ImplementsHttpConnection
BY MappedInit, MappedStep, Invariance, PTL DEF Spec, ImplementsHttpConnection, HC!Spec
=============================================================================
