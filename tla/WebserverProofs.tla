--------------------------- MODULE WebserverProofs ---------------------------
(***************************************************************************)
(* Proofs about the running program, for any number of connections and of  *)
(* threads: the sessions behave on the thread pool as Session says they    *)
(* do, so every theorem about Session holds of the program; and the        *)
(* program's own invariants.                                               *)
(***************************************************************************)
EXTENDS Webserver, SessionRefinement

-----------------------------------------------------------------------------
(* Which steps there are                                                   *)

\* A step of session s, or of its stream or client, that leaves the workers alone.
PassiveStep(s) ==
  \/ StartTCP(s) \/ DoHandshake(s) \/ AfterHandshake(s) \/ FinishedWrite(s)
  \/ Completions(s) \/ Expire(s) \/ Client(s)

\* The steps of the program, by what they may change.
LEMMA StepCases ==
  ASSUME WebTypeOK, WebNext
  PROVE  \/ WebStartup
         \/ \E p \in Ports : \/ \E ec \in {"ok", "error"} : WebAcceptCompletes(p, ec)
                             \/ WebAcceptError(p)
         \/ \E p \in Ports, s \in Sessions : HandleAccept(p, s)
         \/ \E s \in Sessions : PassiveStep(s) /\ stage = "serving" /\ UNCHANGED <<serverVars, running, worker>>
         \/ \E w \in Workers, s \in Sessions : WebOnRead(w, s)
         \/ \E w \in Workers : worker[w] \in Sessions /\ WebHandlerReturns(w)
         \/ \E w \in Workers : HandlerThrows(w) \/ ExitRun(w)
         \/ Join \/ Sigint
         \/ Stopped
<1>1. \A w \in Workers : WebHandlerReturns(w) => worker[w] \in Sessions
  BY DEF WebHandlerReturns, WebTypeOK
<1>2. \A s \in Sessions : WebClient(s) => Client(s)
  BY DEF WebClient, Client, Items
<1>3. ASSUME NEW s \in Sessions,
             \/ Runs(StartTCP(s)) \/ Runs(DoHandshake(s)) \/ Runs(AfterHandshake(s))
             \/ Runs(FinishedWrite(s)) \/ SessionStep(Completions(s))
             \/ SessionStep(Expire(s)) \/ SessionStep(WebClient(s))
      PROVE  PassiveStep(s) /\ stage = "serving" /\ UNCHANGED <<serverVars, running, worker>>
  BY <1>2, <1>3 DEF Runs, SessionStep, PassiveStep
<1>4. QED
  BY <1>1, <1>3 DEF WebNext

\* What a step of a session does to the phases of all sessions.
LEMMA PassivePhases ==
  ASSUME TypeOK, NEW s \in Sessions, PassiveStep(s)
  PROVE  /\ Live(s)
         /\ kind' = kind
         /\ \A t \in Sessions : /\ phase'[t] = "none" <=> phase[t] = "none"
                                /\ Live(t)' => Live(t)
<1> USE DEF TypeOK, Phases, Live
<1>1. CASE StartTCP(s) \/ DoHandshake(s)
  BY <1>1 DEF StartTCP, DoHandshake, do_read
<1>2. CASE AfterHandshake(s)
  BY <1>2 DEF AfterHandshake, Return, do_read
<1>3. CASE FinishedWrite(s)
  BY <1>3 DEF FinishedWrite, WriteFailed, WriteCloses, WriteKeepsAlive, Return, do_read
<1>4. CASE Completions(s)
  BY <1>4 DEF Completions, HandshakeDone, HandshakeTimesOut, ReadParses, ReadEnds, ReadTimesOut,
              WriteDone, WriteTimesOut, TimesOut, Completes
<1>5. CASE Expire(s)
  BY <1>5 DEF Expire
<1>6. CASE Client(s)
  BY <1>6 DEF Client, ClientSend, ClientCloses
<1>7. QED
  BY <1>1, <1>2, <1>3, <1>4, <1>5, <1>6 DEF PassiveStep

-----------------------------------------------------------------------------
(* The sessions of the program are those of Session                        *)

\* Every step of the program is a step of Session or leaves the sessions alone.
LEMMA StepIsSessionStep == WebTypeOK /\ [WebNext]_allVars => [Next]_vars
<1> SUFFICES ASSUME WebTypeOK, WebNext PROVE [Next]_vars
  BY DEF allVars
<1>1. CASE \/ WebStartup
           \/ \E p \in Ports : \/ \E ec \in {"ok", "error"} : WebAcceptCompletes(p, ec)
                               \/ WebAcceptError(p)
           \/ \E w \in Workers : HandlerThrows(w) \/ ExitRun(w)
           \/ Join \/ Sigint
           \/ Stopped
  BY <1>1 DEF WebStartup, WebAcceptCompletes, WebAcceptError, HandlerThrows, ExitRun, Join, Sigint, Stopped, allVars
<1>2. CASE \E p \in Ports, s \in Sessions : HandleAccept(p, s)
  BY <1>2 DEF HandleAccept, Next, Kinds
<1>3. CASE \E s \in Sessions : PassiveStep(s)
  BY <1>3 DEF PassiveStep, Next, Handlers
<1>4. CASE \E w \in Workers, s \in Sessions : WebOnRead(w, s)
  BY <1>4 DEF WebOnRead, Next, Handlers
<1>5. CASE \E w \in Workers : worker[w] \in Sessions /\ WebHandlerReturns(w)
  BY <1>5 DEF WebHandlerReturns, Next, Handlers
<1>6. QED
  BY <1>1, <1>2, <1>3, <1>4, <1>5, StepCases

\* The program starts well typed.
LEMMA WebInitTypeOK == WebInit => WebTypeOK
<1> SUFFICES ASSUME WebInit PROVE WebTypeOK
  OBVIOUS
<1>1. TypeOK
  BY InitTypeOK DEF WebInit
<1>2. ServerTypeOK
  BY DEF WebInit, ServerInit, ServerTypeOK, Stages, BindResults
<1>3. QED
  BY <1>1, <1>2 DEF WebInit, WebTypeOK

\* Starting up and accepting keep the types of the server.
LEMMA ServerStepTypeOK ==
  ASSUME ServerTypeOK,
         \/ Startup
         \/ \E p \in Ports : \/ \E ec \in {"ok", "error"} : AcceptCompletes(p, ec)
                             \/ HandleAcceptError(p)
  PROVE  ServerTypeOK'
<1> USE DEF ServerTypeOK, Stages, BindResults
<1>1. CASE LoadServerCertificate
  BY <1>1 DEF LoadServerCertificate
<1>2. CASE ConstructServer
  BY <1>2 DEF ConstructServer, bind_acceptor, Ports
<1>3. CASE \E p \in Ports : StartAccepting(p)
  BY <1>3 DEF StartAccepting, start_accepting
<1>4. CASE \E p \in Ports : \/ \E ec \in {"ok", "error"} : AcceptCompletes(p, ec)
                            \/ HandleAcceptError(p)
  BY <1>4 DEF AcceptCompletes, HandleAcceptError
<1>5. QED
  BY <1>1, <1>2, <1>3, <1>4 DEF Startup

\* Every step of the program keeps the types.
LEMMA WebNextTypeOK == WebTypeOK /\ [WebNext]_allVars => WebTypeOK'
<1> SUFFICES ASSUME WebTypeOK, [WebNext]_allVars PROVE WebTypeOK'
  OBVIOUS
<1>1. TypeOK'
  BY StepIsSessionStep, NextTypeOK DEF WebTypeOK
<1>2. CASE UNCHANGED allVars
  BY <1>1, <1>2 DEF allVars, serverVars, WebTypeOK, ServerTypeOK
<1>3. CASE WebNext
  <2> USE DEF WebTypeOK
  <2>1. CASE WebStartup
    BY <1>1, <2>1, ServerStepTypeOK DEF WebStartup
  <2>2. CASE \E p \in Ports : \/ \E ec \in {"ok", "error"} : WebAcceptCompletes(p, ec)
                              \/ WebAcceptError(p)
    BY <1>1, <2>2, ServerStepTypeOK DEF WebAcceptCompletes, WebAcceptError
  <2>3. CASE \E p \in Ports, s \in Sessions : HandleAccept(p, s)
    BY <1>1, <2>3 DEF HandleAccept, start_accepting, ServerTypeOK
  <2>4. CASE \E s \in Sessions : PassiveStep(s) /\ stage = "serving" /\ UNCHANGED <<serverVars, running, worker>>
    BY <1>1, <2>4 DEF serverVars, ServerTypeOK
  <2>5. CASE \E w \in Workers, s \in Sessions : WebOnRead(w, s)
    BY <1>1, <2>5 DEF WebOnRead, serverVars, ServerTypeOK
  <2>6. CASE \E w \in Workers : worker[w] \in Sessions /\ WebHandlerReturns(w)
    BY <1>1, <2>6 DEF WebHandlerReturns, serverVars, ServerTypeOK
  <2>7. CASE (\E w \in Workers : HandlerThrows(w) \/ ExitRun(w)) \/ Join \/ Sigint \/ Stopped
    BY <1>1, <2>7 DEF HandlerThrows, ExitRun, Join, Sigint, Stopped, serverVars, allVars, ServerTypeOK, Stages
  <2>8. QED
    BY <1>3, <2>1, <2>2, <2>3, <2>4, <2>5, <2>6, <2>7, StepCases
<1>4. QED
  BY <1>2, <1>3

\* Every variable of the program keeps its type: the workers only ever execute
\* handlers of sessions, and no accept leaves its states.
THEOREM WebTypeCorrect == WebSpec => []WebTypeOK
BY WebInitTypeOK, WebNextTypeOK, PTL DEF WebSpec

\* On any pool of threads, with any accepts and any startup failure, the
\* sessions behave as Session specifies.
THEOREM SessionsOnThePool == WebSpec => Spec
<1>1. WebInit => Init
  BY DEF WebInit
<1>2. QED
  BY <1>1, WebTypeCorrect, StepIsSessionStep, PTL DEF WebSpec, Spec

\* So a client of the whole program, with its pool of threads, its two acceptors and
\* whatever fails at startup, sees the connection HttpConnection promises.
THEOREM PooledRefinement == WebSpec => ImplementsHttpConnection
BY SessionsOnThePool, Refinement, PTL

\* And every connection of the program is answered in order, ends with a closing
\* answer if it has one, and ends for a reason, whichever workers serve it.
THEOREM PooledSessions == WebSpec => [](AnswersInOrder /\ ClosingAnswerIsLast /\ EndExplained)
BY SessionsOnThePool, InOrderTheorem, ClosingTheorem, EndTheorem, PTL
-----------------------------------------------------------------------------
(* Ports, accepts and the end of the event loop                            *)

\* The certificates and the acceptors are settled before anything is accepted.
NothingBeforeConstruction ==
  stage \in {"load_certs", "construct"} =>
    /\ \A s \in Sessions : phase[s] = "none"
    /\ \A p \in Ports : accept[p] = "idle"
    /\ running = Workers

\* serve_forever's assignment to serving_https_ is what counts for that port.
HttpsFlagIsCerts ==
  stage \notin {"load_certs", "construct", "terminated"} => serving["https"] = loaded_certs

AcceptedOnlyWhenListening == \A p \in Ports : accept[p] = "ok" => acceptor[p] = "listening"

HttpsAcceptsNeedCerts == accept["https"] # "idle" => loaded_certs

\* start_accepting() comes before start_accepting_https().
HttpFirst ==
  stage = "start_https" /\ serving["http"] => accept["http"] # "idle"

\* A worker leaves io_context::run only for good: nothing creates work again.
NoWorkAfterExit ==
  running # Workers =>
    /\ stage \in {"serving", "returned", "terminated"}
    /\ ~Work
    /\ \A p \in Ports : serving[p] => accept[p] = "failed"

PortInv ==
  /\ NothingBeforeConstruction
  /\ HttpsFlagIsCerts
  /\ AcceptedOnlyWhenListening
  /\ HttpsAcceptsNeedCerts
  /\ HttpFirst
  /\ NoWorkAfterExit
  /\ AcceptsUntilError
  /\ SessionsNeedTheirPort

\* The invariant holds before the server is constructed.
LEMMA PortInit == WebInit => PortInv
BY DEF WebInit, Init, ServerInit, PortInv, NothingBeforeConstruction, HttpsFlagIsCerts,
       AcceptedOnlyWhenListening, HttpsAcceptsNeedCerts, HttpFirst, NoWorkAfterExit, AcceptsUntilError,
       SessionsNeedTheirPort, Ports

\* Starting up establishes the facts about the ports.
LEMMA PortStartup ==
  ASSUME WebTypeOK, PortInv, WebStartup
  PROVE  PortInv'
<1> USE DEF PortInv, NothingBeforeConstruction, HttpsFlagIsCerts, AcceptedOnlyWhenListening,
            HttpsAcceptsNeedCerts, HttpFirst, NoWorkAfterExit, AcceptsUntilError, SessionsNeedTheirPort,
            WebTypeOK, ServerTypeOK, Ports, vars, WebStartup
<1>1. CASE LoadServerCertificate
  BY <1>1 DEF LoadServerCertificate
<1>2. CASE ConstructServer
  BY <1>2 DEF ConstructServer
<1>3. CASE \E p \in Ports : StartAccepting(p)
  BY <1>3 DEF StartAccepting, start_accepting
<1>4. QED
  BY <1>1, <1>2, <1>3 DEF Startup

\* Accepting keeps them.
LEMMA PortAccept ==
  ASSUME WebTypeOK, PortInv, NEW p \in Ports,
         \/ \E ec \in {"ok", "error"} : WebAcceptCompletes(p, ec)
         \/ WebAcceptError(p)
         \/ \E s \in Sessions : HandleAccept(p, s)
  PROVE  PortInv'
<1> USE DEF PortInv, NothingBeforeConstruction, HttpsFlagIsCerts, AcceptedOnlyWhenListening,
            HttpsAcceptsNeedCerts, HttpFirst, NoWorkAfterExit, AcceptsUntilError, SessionsNeedTheirPort,
            WebTypeOK, ServerTypeOK, Ports, vars, Work, Live
<1>1. CASE \E ec \in {"ok", "error"} : WebAcceptCompletes(p, ec)
  BY <1>1 DEF WebAcceptCompletes, AcceptCompletes
<1>2. CASE WebAcceptError(p)
  BY <1>2 DEF WebAcceptError, HandleAcceptError
<1>3. CASE \E s \in Sessions : HandleAccept(p, s)
  BY <1>3 DEF HandleAccept, start_accepting, Construct, TypeOK
<1>4. QED
  BY <1>1, <1>2, <1>3

\* So does a step of a session that changes no session to or from "none".
LEMMA PortSession ==
  ASSUME WebTypeOK, PortInv, UNCHANGED <<serverVars, running>>, stage = "serving", kind' = kind,
         \A t \in Sessions : /\ phase'[t] = "none" <=> phase[t] = "none"
                             /\ Live(t)' => Live(t)
  PROVE  PortInv'
<1>1. Work' => Work
  BY DEF Work, serverVars
<1>2. QED
  BY <1>1 DEF PortInv, NothingBeforeConstruction, HttpsFlagIsCerts, AcceptedOnlyWhenListening,
              HttpsAcceptsNeedCerts, HttpFirst, NoWorkAfterExit, AcceptsUntilError, SessionsNeedTheirPort,
              serverVars

\* Every step of the program keeps them.
LEMMA PortNext == WebTypeOK /\ PortInv /\ [WebNext]_allVars => PortInv'
<1> SUFFICES ASSUME WebTypeOK, PortInv, [WebNext]_allVars PROVE PortInv'
  OBVIOUS
<1>1. TypeOK
  BY DEF WebTypeOK
<1>2. CASE \E s \in Sessions : PassiveStep(s) /\ stage = "serving" /\ UNCHANGED <<serverVars, running, worker>>
  BY <1>1, <1>2, PassivePhases, PortSession
<1>3. CASE \E w \in Workers, s \in Sessions : WebOnRead(w, s)
  <2>1. PICK w \in Workers, s \in Sessions : WebOnRead(w, s)
    BY <1>3
  <2>2. /\ kind' = kind
        /\ \A t \in Sessions : /\ phase'[t] = "none" <=> phase[t] = "none"
                               /\ Live(t)' => Live(t)
    BY <1>1, <2>1 DEF WebOnRead, OnRead, OnReadTimeout, OnReadEndOfStream, OnReadError, OnReadUnrouted,
                      OnReadRouted, Return, async_write_stream, TypeOK, Live
  <2>3. QED
    BY <2>1, <2>2, PortSession DEF WebOnRead
<1>4. CASE \E w \in Workers : worker[w] \in Sessions /\ WebHandlerReturns(w)
  <2>1. PICK w \in Workers : worker[w] \in Sessions /\ WebHandlerReturns(w)
    BY <1>4
  <2>2. /\ kind' = kind
        /\ \A t \in Sessions : /\ phase'[t] = "none" <=> phase[t] = "none"
                               /\ Live(t)' => Live(t)
    BY <1>1, <2>1 DEF WebHandlerReturns, HandlerReturns, async_write_stream, TypeOK, Live
  <2>3. QED
    BY <2>1, <2>2, PortSession DEF WebHandlerReturns
<1>5. CASE \/ UNCHANGED allVars \/ Stopped
           \/ Join \/ Sigint
           \/ \E w \in Workers : HandlerThrows(w) \/ ExitRun(w)
  BY <1>5 DEF PortInv, NothingBeforeConstruction, HttpsFlagIsCerts, AcceptedOnlyWhenListening,
              HttpsAcceptsNeedCerts, HttpFirst, NoWorkAfterExit, AcceptsUntilError, SessionsNeedTheirPort,
              WebTypeOK, ServerTypeOK, allVars, serverVars, vars, Stopped, Join, Sigint, ProgramOver, HandlerThrows, ExitRun, Work, Live
<1>6. QED
  BY <1>2, <1>3, <1>4, <1>5, PortStartup, PortAccept, StepCases

\* Every reachable state satisfies the facts about ports, accepts and workers.
THEOREM PortInvariance == WebSpec => []PortInv
BY PortInit, PortNext, WebTypeCorrect, PTL DEF WebSpec

\* No TLS session without certificates and a bound HTTPS port, no plain session
\* without a bound HTTP port.
THEOREM PortTheorem == WebSpec => []SessionsNeedTheirPort
<1>1. PortInv => SessionsNeedTheirPort
  BY DEF PortInv
<1>2. QED
  BY <1>1, PortInvariance, PTL

\* A served acceptor never stops accepting without an error.
THEOREM AcceptTheorem == WebSpec => []AcceptsUntilError
<1>1. PortInv => AcceptsUntilError
  BY DEF PortInv
<1>2. QED
  BY <1>1, PortInvariance, PTL

\* serve_forever never abandons a live session or a working acceptor when its
\* threads run out of work.
THEOREM ReturnTheorem == WebSpec => []ReturnsOnlyWhenDone
<1>1. PortInv => ReturnsOnlyWhenDone
  BY ServerAssumption DEF PortInv, NoWorkAfterExit, ReturnsOnlyWhenDone, Work
<1>2. QED
  BY <1>1, PortInvariance, PTL
=============================================================================
