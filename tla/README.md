# A verification project for the Koko web server

The program is a small HTTP/HTTPS server in C++ on Boost.Asio and Boost.Beast.
This directory holds TLA+ models of its parts, the TLC configurations that check
them on small instances, and TLAPS proofs for every value of the constants.
`PROJECT.json` lists the components, the runs, the source lines behind each
definition, the hazards and the theorems.

Run one configuration with `tlc -config MCSession.cfg MCSession`, check one proof
module with `tlapm SessionProofs.tla`.

## The system

| Part | State | Operations | Talks to |
|---|---|---|---|
| session (`session.cc`, `sessionTCP.cc`, `sessionSSL.cc`) | `req_`, `res_`, `buffer_`, the stream with its deadline | start, handshake, `do_read`, `on_read`, `finished_write` | router, request handlers, the client |
| server (`server.cc`) | two acceptors, `serving_`, `serving_https_`, the handler table | construction, `start_accepting*`, `handle_accept*`, `serve_forever` | makes sessions |
| thread pool | four threads in `io_context::run` | run a handler, leave, join | runs every handler of sessions and acceptors |
| router (`create_all_handlers`, `construct_response`) | table of prefixes | register a location, find the handler of a target | request handlers |
| request handlers | immutable after start | `get_response` | file system, upstream servers |
| request log (`RequestHandler::url_info`) | one static vector | append, copy, count | all handlers, status page |
| config parser (`parser.cc`) | lexer state, stack of blocks, tree | `ParseToken`, `Parse`, `parse_args` | server start |
| config accessors (`config.cc`) | none | `get_num`, `get_str` | server start, handlers |
| program entry (`main.cc`) | none | logger, `parse_args`, `serve_forever` | all of the above |
| logger | none of interest | | |

What is hard here:

* **One session, several clocks.** A session is a chain of asynchronous
  operations; between the completion of one and the handler that consumes it the
  deadline can pass and the client can send, close, truncate or reset. Requests
  are pipelined through `buffer_`.
* **Many sessions, four threads.** A request handler blocks its thread; the proxy
  does so without a timeout. Strands keep two threads out of one session; they are
  inside Asio, and the model takes them as given: a handler of a session is a step.
* **Startup in steps that fail separately**, and an event loop that ends when it
  has no work.
* **Shared state without a lock**: `url_info`.
* **A world that changes during a call**: the file handler looks at the file system
  four times and then opens and reads; the proxy's upstream server can fail in
  every step of the exchange.
* **Startup on a config that was rejected**: `parse_args` logs a failed parse and
  returns as after a success.
* **String arithmetic** in the router and the lexer, at the ends of strings.

What makes each part correct is stated in its module and listed below.

## Modules

`Http` defines messages: a request is a model value that is routed or not and
whose handler keeps the connection alive or not; a response is who produced it,
for which request, and its Connection field. Bodies, methods and status codes make
no difference to the control of a session and are left out.

`HttpConnection` is the abstract specification of one connection: items are sent,
the n-th answer is the answer to the n-th item, an unsolicited 400 may be given
once, and nothing follows a closing answer.

`Session` is the detailed one. `phase` is the handler or operation a session is
in, `event` the completion that waits to be handled. `StartTCP`, `DoHandshake`,
`AfterHandshake`, `OnRead`, `HandlerReturns` and `FinishedWrite` are the code's
handlers; `on_read` is cut in two where it calls the request handler, because that
takes time. `HandshakeDone`, `ReadParses`, `ReadEnds`, `WriteDone` and the
`...TimesOut` actions are how the Beast stream completes an operation. The
deadline is absolute: only `expires_after` (in `do_read` and `do_handshake`) sets
it, and it is enforced while an operation is pending. `dispatch` may run the first
handler at once or queue it; the phase "starting" allows both.

`Server` is startup and the acceptors: the certificates load, do not load, or the
search for their files throws where nothing catches it; each bind fails before the
socket is open, after it, or not at all, and `serve_forever` assigns
`serving_https_` afterwards.

`Webserver` composes the two with the pool: a handler needs an idle worker, and a
request handler keeps it. An exception on a worker ends the program; `ExitRun`
lets a worker leave when there is no outstanding work. `Sigint` ends the program in
any state: the handler is registered first and calls `exit`.

`Router` builds the table from locations and searches it one entry per step. URLs
are sequences over characters of which the slash and the question mark are
distinguished. The read beyond the end of the target (`session.cc:119`) is a
choice of any outcome.

`RequestLog` takes `emplace_back` apart into the steps libstdc++ makes of it, with
the block of storage as an identity. Growing has a window (`storing`) in which the
elements have been moved, the old block is freed and the three pointers are stored
one after the other. A thread that reads them there sees any mixture of old and new
(`Views`): an append may go either way, a copy may have blank or missing rows
(`StatusCopy`), a size may be any number (`StatusCount`; `Totals` bounds it). The copy
itself reads the size first and the elements later (`StatusSize`, `StatusCopy`). Once
this may have done harm that cannot be told (a block freed twice, a write to a freed
block, rows beyond the room for them) the program may be `broken`, and stops. `race`
is a history variable: whether an append has met another use of the vector, and
whether one of the two was growing it. The properties say what holds until then.

`Config` is the accessors, as operators on a parsed tree. A tree is the sequence of
its statements, each with the block it is in and the block it owns (0 is the null
pointer). `get_str` finds a field at the top level, then in the `server` blocks,
and dereferences the null block of a `server` statement that has none
(`DereferencesNull`). Constants give the words, the values, and the numbers that
`std::stoi` makes of some of the values.

`ConfigParser` reads one character class per step and builds that tree. What the
characters of a token spell makes no difference to the lexer and is chosen when the
token is complete; only the first two tokens of a statement are kept.

`Main` goes from `main` to the end of the server's constructor: `parse_args` with
the parser inside it, the lookups in the order of the code, the ports cut to 16
bits, the search for the certificate's files, which may throw, and the walk of
`create_all_handlers` over the locations. Binding and what becomes of the
certificates are in `Server`, the table of handlers is in `Router`.

`Handlers` constructs one handler of any kind from the block of its location and
makes one call of it, up to the Connection field that the session adds.
For the file handlers every `exists`, `is_directory`, open and read is a step, and
`FileSystemChanges` may come between any two; `exists` throws for what may not be
looked at and for a name that is too long. For the proxy, the exchange
is a step that fails before the answer, fails in the read, or succeeds; then comes
the shutdown, whose error overwrites that of the read; then the rewriting. Texts are
sequences over `Symbols`: a slash, an encoded slash, the two openings of links, the
text that some answers consist of, a name that is too long, and anything else. The three kinds of quoted
links are one symbol, because the code treats them alike and none contains another.
A `url_prefix` is empty or begins with a slash (`PrefixAssumption`): `Router` has the
code that sees to it, and a theorem that it does.

`MC*` modules instantiate these for TLC. `*Proofs` and `SessionRefinement` hold the
theorems; `Induction` is the arithmetic they share.

## Runs

| Run | Instance | What it shows |
|---|---|---|
| `session` | 1 connection, 3 items of 6 kinds | order of answers, nothing after a closing one, every end explained, one deadline per exchange, every exchange comes to an end, and the refinement of `HttpConnection` |
| `webserver` | 2 connections, 2 threads, all faults | sessions only on bound ports, accepts go on until one fails, the loop ends only when all is done |
| `pool` | 2 connections, 2 threads, fairness | completions are handled, and exchanges come to an end while a thread is left, unless the pool is blocked for good |
| `router` | tables of 2 prefixes of up to 4 characters, targets of up to 5 | longest prefix wins, `substr` stays in range |
| `requestlog` | 2 threads, 5 requests | until an append meets another use of the vector the log is exact and the status page consistent; until one meets a growing vector nothing is counted that did not happen |
| `parser` | files of up to 8 characters, then startup | stack and braces agree, `back()` is the statement being read, accepted trees are complete and rejected ones but for their last statement, crashes have one of two causes, ports are what the file says, a character is put back once, startup ends |
| `handlers` | 7 kinds, small blocks and texts | kept-alive answers are framed, no bytes are missing, exceptions need a changed or unreadable file or a name that is too long, links and redirects lead back to the proxy, failures are not pages |
| `flags` | as `webserver`, bind may fail | **violated**: `serving_https_` does not say whether the acceptor can be used |
| `returns` | as `webserver`, accepts may fail | **violated**: `serve_forever` returns without an exception |
| `records` | 2 threads, 5 requests | **violated**: a response is returned and not recorded |
| `query` | as `router` | **violated**: the query is not erased at its own position |
| `truncated` | files of up to 6 characters | **violated**: a file cut inside a word is accepted |

The last five are disagreements between the code and its own comments, quoted
under "findings" in `PROJECT.json`.

Some properties hold only with an exception that the code really has. They say so:

* `ExchangesEnd` and `OthersServed` are about one exchange. A session need not end:
  every kept-alive exchange renews the deadline, and a client that goes on asking is
  served for ever.
* `ThrowsExplained`: a request for a name of more than 255 bytes in a directory is
  an exception of `fs::exists`, and ends the program, with nothing wrong on the disk.
* `CrashExplained`: a config that names a certificate and a key may end the program
  before `serve_forever`'s `try` begins, if their paths cannot be searched.
* `LinksRewritten`: a page whose links have grown is announced with its old length,
  and the client misses the rest (`Received`).
* `RedirectComesBack` leaves out a Location `//host`, which names another host and
  gets the prefix nevertheless, and the prefix `/` (of a location `///`), under which
  a path becomes the name of a host.
* `PortIsWritten` leaves out numbers that do not fit 16 bits, which are cut off.
* `FailureIsNoPage` accepts the empty `200 OK` that is the answer after a failed read.

### Bounds, and why they are enough

* Sessions share nothing but workers, so one connection is enough for the
  properties of a connection. Three items (`MaxItems`) give a kept-alive exchange,
  one after it, and one that stays in the buffer. Two connections and two threads
  give every pairing of workers and sessions; a second item adds nothing to what
  the pool sees, so `webserver` and `pool` have one. In `pool` one blocked handler
  leaves a thread and two are the whole pool, and a kept-alive answer makes its
  session wait for what the client does next.
* `Faults` selects what may go wrong around the server. `webserver` has all of
  them. The liveness run has none; clients there send whole requests or
  close, because its question is what a blocked handler does to others.
* The router compares two entries at a time. Prefixes of four characters have two
  directories; targets are one longer, for the query.
* Storage doubles: 1, 2, 4, 8. The fourth append is the first that finds room, the
  fourth and fifth can meet there, and each of the first three grows the vector under
  an append, a copy or a count of the other thread.
* Eight characters (`MaxChars`) hold a block in a block, a certificate and a key, a
  `server` block with a port in it, or a string with an escaped quote. Two numbers,
  one of which does not fit a port, and one value that is no number are all that
  `get_num` tells apart.
* A handler looks at two statements of its block at most, so blocks of up to two
  with every combination of words and values, and one of three that makes a proxy
  work and asks for keep-alive. Pages of four symbols hold two links or one with
  two slashes and what follows; some longer ones contain the prefix already. The
  prefixes are the three that the rewriting tells apart: none, `/` (which a location
  `///` leaves) and one with a name. What follows the prefix in a target is nothing,
  a name, or one that is too long.
  An empty text and one of two symbols let a file grow, shrink and become empty, and
  gzip makes a text longer or shorter.
* Symmetry is used for invariants only, over connections, threads and ordinary
  requests, which no definition tells apart.

### Fairness

`Session` assumes that time passes, that the timer completes an overdue operation,
that a message already in the buffer is parsed, that queued handlers are run, and
that a request handler returns unless it is in `Blocking`. `Webserver` replaces
"are run" by strong fairness per session and per port: the queue of the event loop
is first-in first-out, so a handler that is queued while workers become free again
and again is run. Nothing is assumed of clients, the network or accepts.
`Main` assumes that the main thread runs. `Handlers` assumes nothing.

## Proofs

The proofs hold for any sets of connections, threads, requests, characters and
URLs, under the assumptions stated in the modules (for instance that routed
requests are requests, that the marks for malformed and partial items are not,
and that tokens and targets are not empty).

* `Induction`: the library's induction theorems take the property as an operator,
  which the provers cannot instantiate. Here it is a set of numbers: from the order of
  the natural numbers being well-founded follow `LeastElement`, `StrongInduction` and
  `DownwardInduction`, and from these what is needed of a recursive function that
  works through a text. Such a function is a walk (`IsWalk`): at each position it puts
  something down and goes on further right. A walk exists (`WalkExists`), its values
  have a type (`WalkType`), and what it does from a position on depends only on what
  is to the right of it (`WalkShift`).
* `SessionProofs`: `TypeOK`, `AnswersInOrder`, `ClosingAnswerIsLast`,
  `EndExplained`, `OneDeadlinePerExchange`. None of them is inductive. `IInv` says,
  for every phase, how far parsing is ahead of answering and what `req_`, `res_`
  and `close` hold: nothing while reading, exactly one parsed and unanswered item
  while handling, a `close` flag that agrees with the header while writing. A step
  of one session leaves the others alone (`StepIsLocal`), so each handler and each
  completion is considered for its own session only.
* `SessionRefinement`: `Session` implements `HttpConnection`, with a connection
  over when its phase is "gone". Only completed writes and the client's sends are
  visible steps.
* `WebserverProofs`: every step of the program is a step of `Session` or leaves
  the sessions alone (`SessionsOnThePool`), so the theorems above hold of the
  program on any pool: `PooledRefinement` says that the whole program implements
  `HttpConnection`, `PooledSessions` that its connections are answered in order, end
  with a closing answer if they have one, and end for a reason.
  Then, from `PortInv`
  (certificates and acceptors are settled before anything is accepted; an accepted
  connection has a listening acceptor; once a worker has left nothing creates work
  again) `SessionsNeedTheirPort`, `AcceptsUntilError` and `ReturnsOnlyWhenDone`.
* `RouterProofs`: the two conditions of the loop say that a prefix covers the
  target, whatever is read beyond its end (`MatchIsCover`); the loop keeps the best
  entry so far (`LoopInv`); hence `LongestPrefixWins`. `SuffixInRange` follows
  because a prefix that covers the shortened target also begins the original one,
  and trimming slashes keeps it so. `PrefixesAreRooted` (`PrefixTheorem`) is what
  `Handlers` assumes of its prefixes.
* `MainProofs`: `MainTypeOK`, `StackFollowsBraces`, `BackIsBeingRead`,
  `AcceptedIsComplete`, `OnlyLastIsOpen`, `CrashExplained`, `PortIsWritten` and
  `PutBackOnce`, for files of any length and any words and values. The invariant
  `MainInv` has `CrashExplained` and four other parts: the
  lexer's types (`LexerOK`); the tree (`ParserInv`), which adds to the properties
  that no statement is open between two statements (`NoneOpen`), that a statement has an end or a block and not both (`EndedOnce`),
  and that every block but the first has a statement that owns it
  (`BlocksHaveParents`); the startup (`StartupOK`), which says that nothing is
  looked up before the parse is over; and `LookedUpOK`, which says that a field
  that has been looked up met no null block, and a port is what `get_num` finds. With
  it a certificate and a key that `get_str` found are statements of the config
  (`NamedIsWritten`). `BackIsLast`
  shows that the last statement is the back of the block on top, which is what
  makes each token's effect on the tree a change of one place. `PortIsWritten` needs
  that the first of some statements exists (`LeastElement`). `PutBackOnce` is an
  action property: every step of the lexer reads a new character, takes in the one
  that was put back, or ends the parse (`LexerProgress`), which is why a file of
  finite length cannot hold it up.
* `HandlersProofs`: `FramingInv` says that only a handler that reads the option is
  kept alive and that its answer has its own length all along, which gives
  `KeptAliveIsFramed`; `FileInv` (what each step may still assume of the file
  system if nothing changed) gives `ThrowsExplained`; `ProxyInv` (what is
  left of a page or a failure at each step) gives `FailureIsNoPage` and
  `RedirectComesBack`, since a path behind a prefix is a path (`RootPathBehind`) and
  cutting the prefix off gives it back (`ForwardedBack`). `TypeOK` needs that what is compressed is a file's text or the
  fixed one (`TypeInv`) and that `ReplaceAll` makes a text of a text.

  The rest is about what the proxy does to a page, of any length. `boost::replace_all`
  is shown to be a walk, hence to work from left to right independently of what it
  has passed (`ReplaceMatch`, `ReplaceOther`). The two replacements that put the
  prefix in do not meet each other's result, and the two that take it out again find
  it exactly where two slashes follow (`TakenBack`, `NotTakenBack`). By induction on
  the length of the page, the four in sequence are the one pass `Relinked`
  (`RewriteIsRelinked`). With `PageInv` (what a page and its Content-Length are at
  each step) this gives `LinksRewritten`, and `NoMissingBytes`, because a page never
  gets shorter. Both have a hypothesis, `LinklessPrefixes`: no prefix contains the
  opening of a link. Nothing in the code checks this; it is a fact about reasonable
  configs. Under a prefix such as `/url(\2f` the second replacement finds its
  pattern in what the first one put in. The instance of the `handlers` run satisfies
  it, and TLC checks that (`MCAssumption`).
* `RequestLogProofs`: `LogInv` relates each thread inside `emplace_back` to the
  vector: requests in flight are not returned yet (`InFlight`), and threads know the
  newest block or an older one (`Blocks`). Until a race with growth, a thread that
  grows is alone, and one that found room still has it (`Roomy`), which gives
  `NeverOvercounts`. Until any race, a thread that uses the vector has a current view
  of it (`Alone`), so that the log is exact and what a status page copied is part of
  it (`Copied`).

Only model-checked: liveness (`ExchangesEnd`, `CompletionsAreHandled`, `OthersServed`,
`StartupEnds`), which this prover cannot do. Every invariant and every action
property of a passing run is a theorem. What is not proved is `NoMissingBytes` and
`LinksRewritten` for prefixes that contain the opening of a link: the second is false
of some of them, and the first is not known.

## Not modelled

* What the kernel does with bytes that were written, and the SSL close_notify that
  is never sent.
* What `exit` destroys, in the SIGINT handler, while other threads still run.
* The text of tokens beyond the first two, of responses and of log lines; the mime
  table; the method of a request (no handler looks at it).
* Strands: that two threads are never in one session is taken from Asio.
* `urlToHandlerName`, a copy of the table for the status page.
* Reading an open file is one step: a file that is written while it is read is
  served as it was at one moment.
* `NginxConfig::ToString`, which is declared and defined nowhere.
* The logger, tests, docker files and scripts: set-up of sinks and what is not part
  of the running program.

## Plan

All components that carry the program's logic are modelled, and every safety property
of a passing run is proved. What is left: `Handlers` inside
`Webserver` (there a handler is a request that returns, blocks or throws, which is
all the pool can see of it), and a joint run of `Main` and `Server`, whose only
common state is the two ports.
