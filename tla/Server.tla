-------------------------------- MODULE Server --------------------------------
(***************************************************************************)
(* class server: starting up (serve_forever, the constructor and           *)
(* bind_acceptor) and the two acceptors.  What an accepted connection      *)
(* becomes, and the threads everything runs on, are in Webserver.          *)
(***************************************************************************)
CONSTANTS
  Workers,          \* the threads that run the event loop; the program has 4
  Faults            \* what may go wrong around the server in an instance

\* "certs": the certificates cannot be loaded; "bind": an acceptor cannot be
\* bound; "accept": an accept fails; "client": clients send garbage or vanish;
\* "sigint": the user interrupts the program.
ASSUME ServerAssumption ==
  /\ Workers # {}
  /\ Faults \subseteq {"certs", "bind", "accept", "client", "sigint"}

VARIABLES
  stage,            \* how far serve_forever has come
  loaded_certs,     \* what load_server_certificate returned
  serving,          \* serving_ and serving_https_
  acceptor,         \* acceptor_ and https_acceptor_: what bind_acceptor achieved
  accept            \* the async_accept of each acceptor

serverVars == <<stage, loaded_certs, serving, acceptor, accept>>

Ports  == {"http", "https"}
Stages == {"load_certs", "construct", "start_http", "start_https", "serving",
           "returned", "terminated"}

\* bind_acceptor fails before the socket is open, fails between open and listen
\* (and leaves it open), or succeeds.
BindResults == {"closed", "open", "listening"}

\* bind_acceptor, for both acceptors
bind_acceptor == [Ports -> IF "bind" \in Faults THEN BindResults ELSE {"listening"}]

ServerInit ==
  /\ stage = "load_certs"
  /\ loaded_certs = FALSE
  /\ serving  = [p \in Ports |-> FALSE]
  /\ acceptor = [p \in Ports |-> "closed"]
  /\ accept   = [p \in Ports |-> "idle"]

\* bool loaded_certs = load_server_certificate(ssl_ctx, config).  It returns false
\* if a file is not there or cannot be used; looking for the files may also throw
\* (a directory that may not be searched, a name that is too long), and nothing
\* above it catches: serve_forever's try begins later and main has none.
LoadServerCertificate ==
  /\ stage = "load_certs"
  /\ \/ /\ loaded_certs' \in IF "certs" \in Faults THEN BOOLEAN ELSE {TRUE}
        /\ stage' = "construct"
     \/ /\ "certs" \in Faults
        /\ stage' = "terminated"
        /\ UNCHANGED loaded_certs
  /\ UNCHANGED <<serving, acceptor, accept>>

\* Mutant: the flag of the constructor is kept, the certificates are forgotten.
ConstructServerIgnoringCerts ==
  /\ stage = "construct"
  /\ acceptor' \in bind_acceptor
  /\ serving' = [p \in Ports |-> acceptor'[p] = "listening"]
  /\ stage' = "start_http"
  /\ UNCHANGED <<loaded_certs, accept>>

\* The constructor sets each flag to what bind_acceptor returned; serve_forever
\* then assigns loaded_certs to serving_https_.
ConstructServer ==
  /\ stage = "construct"
  /\ acceptor' \in bind_acceptor
  /\ serving' = [p \in Ports |-> IF p = "https" THEN loaded_certs ELSE acceptor'[p] = "listening"]
  /\ stage' = "start_http"
  /\ UNCHANGED <<loaded_certs, accept>>

\* start_accepting and start_accepting_https, without the early return.
start_accepting(p) == accept' = [accept EXCEPT ![p] = "pending"]

\* serve_forever starts the acceptors one after the other.  The trace of an
\* acceptor that is not served asks for its local_endpoint, which throws if the
\* socket never was opened; the exception ends serve_forever.
StartAccepting(p) ==
  /\ stage = IF p = "http" THEN "start_http" ELSE "start_https"
  /\ \/ /\ serving[p]
        /\ start_accepting(p)
        /\ stage' = IF p = "http" THEN "start_https" ELSE "serving"
     \/ /\ ~serving[p] /\ acceptor[p] # "closed"
        /\ stage' = IF p = "http" THEN "start_https" ELSE "serving"
        /\ UNCHANGED accept
     \/ /\ ~serving[p] /\ acceptor[p] = "closed"
        /\ stage' = "returned"
        /\ UNCHANGED accept
  /\ UNCHANGED <<loaded_certs, serving, acceptor>>

\* The accept operation completes: with a connection if the socket listens,
\* with an error if it does not or if the system is out of descriptors.
AcceptCompletes(p, ec) ==
  /\ stage = "serving"
  /\ accept[p] = "pending"
  /\ \/ ec = "ok" /\ acceptor[p] = "listening"
     \/ ec = "error" /\ (acceptor[p] # "listening" \/ "accept" \in Faults)
  /\ accept' = [accept EXCEPT ![p] = ec]
  /\ UNCHANGED <<stage, loaded_certs, serving, acceptor>>

\* handle_accept with an error returns and does not accept again.
HandleAcceptError(p) ==
  /\ stage = "serving"
  /\ accept[p] = "error"
  /\ accept' = [accept EXCEPT ![p] = "failed"]
  /\ UNCHANGED <<stage, loaded_certs, serving, acceptor>>

Startup ==
  \/ LoadServerCertificate
  \/ ConstructServer
  \/ \E p \in Ports : StartAccepting(p)

ProgramOver == stage \in {"returned", "terminated"}

ServerTypeOK ==
  /\ stage \in Stages
  /\ loaded_certs \in BOOLEAN
  /\ serving \in [Ports -> BOOLEAN]
  /\ acceptor \in [Ports -> BindResults]
  /\ accept \in [Ports -> {"idle", "pending", "ok", "error", "failed"}]
=============================================================================
