------------------------------ MODULE Webserver ------------------------------
(***************************************************************************)
(* The running program: the server's acceptors, the sessions, and the pool *)
(* of threads in io_context::run that execute the handlers of both.  A     *)
(* handler runs only on an idle worker.  All of them return at once,       *)
(* except that on_read calls the request handler and keeps its worker      *)
(* until that returns.                                                     *)
(***************************************************************************)
EXTENDS Session, Server, FiniteSets

CONSTANTS
  Throwing,    \* requests whose handler may throw (a file that vanishes after the check)
  Idle

ASSUME WebserverAssumption ==
  /\ Throwing \subseteq Routed
  /\ Idle \notin Sessions

VARIABLES
  running,     \* the workers that are inside io_context::run
  worker       \* the session whose request handler each worker executes

allVars == <<vars, serverVars, running, worker>>

WebInit ==
  /\ Init
  /\ ServerInit
  /\ running = Workers
  /\ worker = [w \in Workers |-> Idle]

FreeWorker == \E w \in running : worker[w] = Idle

\* A step of a session, or of the stream below it, that needs no worker of its own.
SessionStep(A) ==
  /\ stage = "serving"
  /\ A
  /\ UNCHANGED <<serverVars, running, worker>>

\* A handler that runs on a free worker and gives it back at once.
Runs(A) == FreeWorker /\ SessionStep(A)

-----------------------------------------------------------------------------

WebStartup ==
  /\ Startup
  /\ UNCHANGED <<vars, running, worker>>

\* Bound: Sessions are all the connections clients ever open.
ClientLeft ==
  Cardinality({p \in Ports : accept[p] = "ok"}) < Cardinality({s \in Sessions : phase[s] = "none"})

WebAcceptCompletes(p, ec) ==
  /\ ec = "ok" => ClientLeft
  /\ AcceptCompletes(p, ec)
  /\ UNCHANGED <<vars, running, worker>>

WebAcceptError(p) ==
  /\ FreeWorker
  /\ HandleAcceptError(p)
  /\ UNCHANGED <<vars, running, worker>>

\* Mutant: the acceptor is not started again.
HandleAcceptOnce(p, s) ==
  /\ stage = "serving"
  /\ FreeWorker
  /\ accept[p] = "ok"
  /\ Construct(s, IF p = "http" THEN "TCP" ELSE "SSL")
  /\ accept' = [accept EXCEPT ![p] = "idle"]
  /\ UNCHANGED <<stage, loaded_certs, serving, acceptor, running, worker>>

\* handle_accept and handle_accept_https: make the session, start it, accept again.
HandleAccept(p, s) ==
  /\ stage = "serving"
  /\ FreeWorker
  /\ accept[p] = "ok"
  /\ Construct(s, IF p = "http" THEN "TCP" ELSE "SSL")
  /\ start_accepting(p)
  /\ UNCHANGED <<stage, loaded_certs, serving, acceptor, running, worker>>

\* Mutant: a lock around the request handlers, which on_read waits for.
WebOnReadLocked(w, s) ==
  /\ stage = "serving"
  /\ w \in running /\ \A v \in Workers : worker[v] = Idle
  /\ OnRead(s)
  /\ worker' = IF phase'[s] = "handling" THEN [worker EXCEPT ![w] = s] ELSE worker
  /\ UNCHANGED <<serverVars, running>>

\* on_read keeps its worker if it calls a request handler.
WebOnRead(w, s) ==
  /\ stage = "serving"
  /\ w \in running /\ worker[w] = Idle
  /\ OnRead(s)
  /\ worker' = IF phase'[s] = "handling" THEN [worker EXCEPT ![w] = s] ELSE worker
  /\ UNCHANGED <<serverVars, running>>

WebHandlerReturns(w) ==
  /\ stage = "serving"
  /\ worker[w] # Idle
  /\ HandlerReturns(worker[w])
  /\ worker' = [worker EXCEPT ![w] = Idle]
  /\ UNCHANGED <<serverVars, running>>

\* Nothing catches an exception on the thread's stack but main's catch clause,
\* and that destroys joinable threads: std::terminate either way.
HandlerThrows(w) ==
  /\ stage = "serving"
  /\ worker[w] # Idle
  /\ req_[worker[w]] \in Throwing
  /\ stage' = "terminated"
  /\ UNCHANGED <<vars, loaded_certs, serving, acceptor, accept, running, worker>>

\* Mutant: the sessions do not keep the event loop going.
WorkOfAcceptors == \E p \in Ports : accept[p] \in {"pending", "ok", "error"}

\* Outstanding work: pending operations and queued handlers.
Work ==
  \/ \E p \in Ports : accept[p] \in {"pending", "ok", "error"}
  \/ \E s \in Sessions : Live(s)

\* run() returns when there is no work left.
ExitRun(w) ==
  /\ stage = "serving"
  /\ w \in running /\ worker[w] = Idle
  /\ ~Work
  /\ running' = running \ {w}
  /\ UNCHANGED <<vars, serverVars, worker>>

\* The threads are joined and serve_forever returns.
Join ==
  /\ stage = "serving"
  /\ running = {}
  /\ stage' = "returned"
  /\ UNCHANGED <<vars, loaded_certs, serving, acceptor, accept, running, worker>>

\* server_sigint, registered before anything else, calls exit wherever the
\* program is; the threads end with it.
Sigint ==
  /\ "sigint" \in Faults
  /\ ~ProgramOver
  /\ stage' = "terminated"
  /\ UNCHANGED <<vars, loaded_certs, serving, acceptor, accept, running, worker>>

\* The program is over, or it waits for clients and there are no more of them.
Stopped ==
  /\ \/ ProgramOver
     \/ /\ stage = "serving"
        /\ \A s \in Sessions : phase[s] = "gone"
        /\ \E p \in Ports : accept[p] = "pending"
  /\ UNCHANGED allVars

\* Well-behaved clients send whole requests and close; the others do anything.
WebClient(s) ==
  \/ \E r \in Requests : ClientSend(s, r)
  \/ ClientCloses(s, "fin")
  \/ "client" \in Faults /\ Client(s)

-----------------------------------------------------------------------------

WebNext ==
  \/ WebStartup
  \/ \E p \in Ports :
       \/ \E ec \in {"ok", "error"} : WebAcceptCompletes(p, ec)
       \/ WebAcceptError(p)
       \/ \E s \in Sessions : HandleAccept(p, s)
  \/ \E s \in Sessions :
       \/ Runs(StartTCP(s))
       \/ Runs(DoHandshake(s))
       \/ Runs(AfterHandshake(s))
       \/ \E w \in Workers : WebOnRead(w, s)
       \/ Runs(FinishedWrite(s))
       \/ SessionStep(Completions(s))
       \/ SessionStep(Expire(s))
       \/ SessionStep(WebClient(s))
  \/ \E w \in Workers :
       \/ WebHandlerReturns(w)
       \/ HandlerThrows(w)
       \/ ExitRun(w)
  \/ Join
  \/ Sigint
  \/ Stopped

\* The queue of the event loop is first-in first-out: a handler that is ready
\* again and again while a worker is free is run.  Request handlers return
\* unless they may block.  Clients, the network and accept failures are free.
WebFairness ==
  /\ WF_allVars(WebStartup)
  /\ \A p \in Ports : SF_allVars(WebAcceptError(p) \/ \E s \in Sessions : HandleAccept(p, s))
  /\ \A s \in Sessions :
       /\ SF_allVars(\/ Runs(StartTCP(s)) \/ Runs(DoHandshake(s)) \/ Runs(AfterHandshake(s))
                     \/ Runs(FinishedWrite(s)) \/ \E w \in Workers : WebOnRead(w, s))
       /\ WF_allVars(SessionStep(Expire(s)))
       /\ WF_allVars(SessionStep(HandshakeTimesOut(s) \/ ReadTimesOut(s) \/ WriteTimesOut(s)))
       /\ WF_allVars(SessionStep(~NeedsInput(s) /\ ReadParses(s)))
  /\ \A w \in Workers :
       /\ WF_allVars(worker[w] # Idle /\ req_[worker[w]] \notin Blocking /\ WebHandlerReturns(w))
       /\ WF_allVars(ExitRun(w))
  /\ WF_allVars(Join)

WebSpec == WebInit /\ [][WebNext]_allVars
FairWebSpec == WebSpec /\ WebFairness

-----------------------------------------------------------------------------

WebTypeOK ==
  /\ TypeOK
  /\ ServerTypeOK
  /\ running \subseteq Workers
  /\ worker \in [Workers -> Sessions \cup {Idle}]

\* TLS is spoken only by a server that has loaded its certificates and bound its
\* HTTPS port, plain HTTP only by one that has bound the HTTP port.
SessionsNeedTheirPort ==
  \A s \in Sessions : phase[s] # "none" =>
    IF kind[s] = "TCP"
    THEN acceptor["http"] = "listening"
    ELSE acceptor["https"] = "listening" /\ loaded_certs

\* An acceptor that is served has an accept outstanding until one of its accepts
\* has failed: no connection is taken without preparing for the next.
AcceptsUntilError ==
  stage = "serving" => \A p \in Ports : serving[p] => accept[p] # "idle"

\* serve_forever gives up only when nothing can be served: no session is live,
\* and no acceptor is still accepting.
ReturnsOnlyWhenDone ==
  stage = "returned" /\ running = {} =>
    /\ \A s \in Sessions : ~Live(s)
    /\ \A p \in Ports : serving[p] => accept[p] = "failed"

\* Every worker sits in a request handler that may block for ever.
Exhausted == \A w \in running : worker[w] # Idle /\ req_[worker[w]] \in Blocking

\* A completed operation is always handled in the end, unless the whole pool is
\* blocked for good or the program ends.
CompletionsAreHandled ==
  \A s \in Sessions :
    event[s] # "none" ~>
      (event[s] = "none" \/ ProgramOver \/ []Exhausted)

\* While some worker is left, the others are served: a blocked handler costs its
\* own session and its worker, nobody else.  Every other session comes to the end
\* of its exchange, with a response or because it is gone.
OthersServed ==
  \A s \in Sessions : \A n \in 0..(MaxItems + 1) :
    (Live(s) /\ Len(outbox[s]) = n) ~>
      \/ phase[s] = "gone"
      \/ Len(outbox[s]) > n
      \/ phase[s] = "handling" /\ req_[s] \in Blocking
      \/ ProgramOver
      \/ []Exhausted

\* serving_ and serving_https_ say whether the acceptor can be used
\* (include/server.h:43).
FlagsMeanUsable ==
  stage = "serving" => \A p \in Ports : serving[p] => acceptor[p] = "listening"

\* serve_forever blocks until an exception occurs (include/server.h:32): it does
\* not come back because every worker has left the event loop.
BlocksUntilException == ~(stage = "returned" /\ running = {})
=============================================================================
