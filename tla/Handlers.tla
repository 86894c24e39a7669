------------------------------ MODULE Handlers ------------------------------
(***************************************************************************)
(* The request handlers: how one is constructed from the block of its      *)
(* location, and one call of its get_response while the world around it    *)
(* changes.  FileHandler looks at the file system four times before it     *)
(* opens the file; CompressedFileHandler adds gzip; ProxyRequestHandler    *)
(* asks an upstream server and adapts what comes back.  The status page is *)
(* in RequestLog.                                                          *)
(*                                                                         *)
(* Texts are sequences of symbols: "/" and its encoded form "%", "link"    *)
(* for href=", src=" and url(", which the proxy treats alike, "url" for    *)
(* url( in front of an encoded path, "text" for what the server writes     *)
(* itself, "long" for a name longer than a file system takes, and whatever *)
(* else there is.                                                          *)
(***************************************************************************)
EXTENDS Config

CONSTANTS
  Symbols,         \* what targets, files and pages are made of
  Blocks,          \* the blocks of locations
  Prefixes,        \* the url_prefix of a handler, after its constructor
  Tails,           \* what may follow the prefix in a target
  Texts,           \* what files contain
  Pages,           \* what upstream servers answer
  GzipLength(_)    \* how long compress makes a text

ASSUME HandlersAssumption ==
  /\ {"/", "%", "link", "url", "text", "long"} \subseteq Symbols
  /\ \A b \in Blocks : b \in Seq(Statements(1))
  /\ \A p \in Prefixes : p \in Seq(Symbols)
  /\ \A t \in Tails : t \in Seq(Symbols)
  /\ \A t \in Texts : t \in Seq(Symbols)
  /\ \A page \in Pages :
       /\ page \in [status : {"ok", "redirect"}, html : BOOLEAN, location : Seq(Seq(Symbols)),
                    text : Seq(Symbols)]
       /\ Len(page.location) <= 1
  /\ \A t \in Texts \cup {<<"text">>} : GzipLength(t) \in Nat

\* create_handlers puts a slash in front of every url_prefix that is not empty.
ASSUME PrefixAssumption == \A p \in Prefixes : p # <<>> => p[1] = "/"

VARIABLES
  pc,              \* the next thing the handler does
  handler, url_prefix, invalid_config, keep_alive,
  request,
  node,            \* what the file system has at linux_dir and below it
  text,            \* the content of the file
  linux_path,      \* the path that was decided on
  size,            \* tellg at the end of the file
  disturbed,       \* the file system has changed during the call
  forwarded,       \* the target asked for upstream
  page,            \* what the upstream server answered
  failed,          \* the step of the upstream exchange that failed
  res

object == <<handler, url_prefix, invalid_config, keep_alive>>
files  == <<node, text, linux_path, size, disturbed>>
proxy  == <<forwarded, page, failed>>
vars   == <<pc, object, request, files, proxy, res>>

FileKinds == {"File", "CompressedFile"}
EchoKinds == {"Echo", "SleepEcho"}
Kinds     == FileKinds \cup EchoKinds \cup {"Health", "NotFound", "ProxyRequest"}
Root      == <<"/">>

\* "unreadable" exists and cannot be opened; "forbidden" cannot even be looked at.
Nodes  == {"missing", "directory", "file", "unreadable", "forbidden"}
Worlds == {w \in [{"linux_dir", "below"} -> Nodes] : w["linux_dir"] # "directory" => w["below"] = "missing"}

NoPage == [status |-> "ok", html |-> FALSE, location |-> <<>>, text |-> <<>>]

-----------------------------------------------------------------------------
(* Responses                                                               *)

\* A response with prepare_payload applied: Content-Length is that of the body.
Response(status, html, location, body) ==
  [ status |-> status, html |-> html, location |-> location, text |-> body,
    gzipped |-> FALSE, content_encoding |-> "none", content_length |-> Len(body),
    connection |-> "none" ]

Empty == Response("ok", FALSE, <<>>, <<>>)
Plain(status) == Response(status, FALSE, <<>>, <<"text">>)

not_found_error       == Plain("not_found")
internal_server_error == Plain("internal_server_error")

\* The bytes of the body as they are written to the stream.
BodyLength(r) == IF r.gzipped THEN GzipLength(r.text) ELSE Len(r.text)

Init ==
  /\ pc = "new"
  /\ handler = "NotFound" /\ url_prefix = <<>> /\ invalid_config = FALSE /\ keep_alive = FALSE
  /\ request = [method |-> "GET", accepts_gzip |-> FALSE, target |-> <<>>]
  /\ node = [n \in {"linux_dir", "below"} |-> "missing"] /\ text \in Texts
  /\ linux_path = "below" /\ size = 0 /\ disturbed = FALSE
  /\ forwarded = <<>> /\ page = NoPage /\ failed = "none"
  /\ res = Empty

-----------------------------------------------------------------------------
(* The constructors, and the call                                          *)

\* FileHandler takes the second token of the first statement for its directory.
FileConfigInvalid(block) == block = <<>> \/ block[1].tokens < 2

\* ProxyRequestHandler wants a dest and a port, and every one it finds has a value.
ProxyConfigInvalid(block) ==
  \/ \E n \in 1..Len(block) : block[n].word \in {"dest", "port"} /\ block[n].tokens < 2
  \/ \E w \in {"dest", "port"} : \A n \in 1..Len(block) : block[n].word # w

\* Mutant: the proxy reads keep-alive too.
KeepsAliveAll(k, block) == get_num(block, 1, "keep-alive") # 0

\* set_keep_alive_from_config, which not every constructor calls.
KeepsAlive(k, block) ==
  k \in FileKinds \cup EchoKinds /\ get_num(block, 1, "keep-alive") # 0

Construct(k, block, prefix) ==
  /\ pc = "new"
  /\ handler' = k
  /\ url_prefix' = prefix
  /\ invalid_config' = \/ k \in FileKinds /\ FileConfigInvalid(block)
                       \/ k = "ProxyRequest" /\ ProxyConfigInvalid(block)
  /\ keep_alive' = KeepsAlive(k, block)
  /\ pc' = "ready"
  /\ UNCHANGED <<request, files, proxy, res>>

GetResponse(method, accepts_gzip, tail) ==
  /\ pc = "ready"
  /\ request' = [method |-> method, accepts_gzip |-> accepts_gzip, target |-> url_prefix \o tail]
  /\ pc' = "called"
  /\ UNCHANGED <<object, files, proxy, res>>

\* handle_request returns r.
Returns(r) ==
  /\ res' = r
  /\ pc' = IF handler = "CompressedFile" THEN "compress" ELSE "returned"

\* EchoHandler, SleepEchoHandler (three seconds later), HealthHandler and
\* NotFoundHandler answer from the request alone.
AnswerAtOnce ==
  /\ pc = "called"
  /\ \/ handler \in EchoKinds \cup {"Health"} /\ Returns(Plain("ok"))
     \/ handler = "NotFound" /\ Returns(not_found_error)
  /\ UNCHANGED <<object, request, files, proxy>>

\* construct_response sets the Connection field from the handler.
SetConnection ==
  /\ pc = "returned"
  /\ res' = [res EXCEPT !.connection = IF keep_alive THEN "keep-alive" ELSE "close"]
  /\ pc' = "answered"
  /\ UNCHANGED <<object, request, files, proxy>>

-----------------------------------------------------------------------------
(* FileHandler and CompressedFileHandler                                   *)

\* Files are created, removed, replaced or written by someone else, before the
\* call and during it.  Once the handler has opened the file, only writing makes
\* a difference.
FileSystemChanges ==
  /\ handler \in FileKinds
  /\ pc \in {"ready", "called", "is_dir", "exists", "is_file", "open", "read"}
  /\ text' \in Texts
  /\ IF pc = "read" THEN UNCHANGED node ELSE node' \in Worlds
  /\ disturbed' = (pc # "ready")
  /\ UNCHANGED <<pc, object, request, linux_path, size, proxy, res>>

\* Nothing between the handler and the thread's stack catches an exception.
Throws == pc' = "thrown" /\ UNCHANGED res

\* fs::exists(linux_dir), after the check of invalid_config
DirExists ==
  /\ pc = "called"
  /\ handler \in FileKinds
  /\ \/ invalid_config /\ Returns(internal_server_error)
     \/ ~invalid_config /\ node["linux_dir"] = "missing" /\ Returns(not_found_error)
     \/ ~invalid_config /\ node["linux_dir"] = "forbidden" /\ Throws
     \/ ~invalid_config /\ node["linux_dir"] \notin {"missing", "forbidden"} /\ pc' = "is_dir" /\ UNCHANGED res
  /\ UNCHANGED <<object, request, files, proxy>>

\* fs::is_directory(linux_dir); a directory that is gone is not one.
DirIsDirectory ==
  /\ pc = "is_dir"
  /\ \/ /\ node["linux_dir"] = "forbidden" /\ Throws
        /\ UNCHANGED linux_path
     \/ /\ node["linux_dir"] = "directory" /\ pc' = "exists"
        /\ linux_path' = "below" /\ UNCHANGED res
     \/ /\ node["linux_dir"] \notin {"forbidden", "directory"} /\ pc' = "open"
        /\ linux_path' = "linux_dir" /\ UNCHANGED res
  /\ UNCHANGED <<object, request, node, text, size, disturbed, proxy>>

\* Mutant: only fs::is_directory(linux_path) is asked.
PathNotChecked ==
  /\ pc = "exists"
  /\ pc' = "is_file"
  /\ UNCHANGED <<object, request, files, proxy, res>>

\* The target has a name below linux_dir that no file system takes.
NameTooLong == \E n \in (Len(url_prefix) + 1)..Len(request.target) : request.target[n] = "long"

\* Asking for such a name in a directory is an error (ENAMETOOLONG), as is asking
\* for what may not be looked at; that nothing is there is none.
CannotAsk == node["below"] = "forbidden" \/ (node["linux_dir"] = "directory" /\ NameTooLong)

\* fs::exists(linux_path)
PathExists ==
  /\ pc = "exists"
  /\ \/ CannotAsk /\ Throws
     \/ ~CannotAsk /\ node["below"] = "missing" /\ Returns(not_found_error)
     \/ ~CannotAsk /\ node["below"] # "missing" /\ pc' = "is_file" /\ UNCHANGED res
  /\ UNCHANGED <<object, request, files, proxy>>

\* fs::is_directory(linux_path)
PathIsFile ==
  /\ pc = "is_file"
  /\ \/ node["below"] = "directory" /\ Returns(not_found_error)
     \/ node["below"] = "forbidden" /\ Throws
     \/ node["below"] \notin {"directory", "forbidden"} /\ pc' = "open" /\ UNCHANGED res
  /\ UNCHANGED <<object, request, files, proxy>>

\* Mutant: the string is not reserved, and the file is read if it is open or not.
OpenUnchecked ==
  /\ pc = "open"
  /\ size' = IF node[linux_path] = "file" THEN Len(text) ELSE -1
  /\ pc' = "read"
  /\ UNCHANGED <<object, request, node, text, linux_path, disturbed, proxy, res>>

\* The ifstream, seekg and tellg.  If the file could not be opened tellg is -1
\* and reserve throws; what is opened as a file and is a directory fails in
\* reserve or in the read.
OpenFile ==
  /\ pc = "open"
  /\ \/ node[linux_path] = "file" /\ size' = Len(text) /\ pc' = "read" /\ UNCHANGED res
     \/ node[linux_path] # "file" /\ Throws /\ UNCHANGED size
  /\ UNCHANGED <<object, request, node, text, linux_path, disturbed, proxy>>

\* Mutant: Content-Length is what tellg said.
ReadFileOfSize ==
  /\ pc = "read"
  /\ Returns([Response("ok", FALSE, <<>>, text) EXCEPT !.content_length = size])
  /\ UNCHANGED <<object, request, files, proxy>>

\* All that is in the file now, whatever it was when the string was reserved.
ReadFile ==
  /\ pc = "read"
  /\ Returns(Response("ok", FALSE, <<>>, text))
  /\ UNCHANGED <<object, request, files, proxy>>

\* CompressedFileHandler: any answer of FileHandler, error or not, is compressed.
Compress ==
  /\ pc = "compress"
  /\ res' = IF request.accepts_gzip
            THEN [res EXCEPT !.gzipped = TRUE, !.content_encoding = "gzip",
                             !.content_length = GzipLength(res.text)]
            ELSE res
  /\ pc' = "returned"
  /\ UNCHANGED <<object, request, files, proxy>>

-----------------------------------------------------------------------------
(* ProxyRequestHandler                                                     *)

\* The part of the target after the prefix, with a slash.
Forwarded(target, prefix) ==
  LET rest == SubSeq(target, Len(prefix) + 1, Len(target))
  IN  IF rest = <<>> \/ rest[1] # "/" THEN Root \o rest ELSE rest

PrepareRequest ==
  /\ pc = "called"
  /\ handler = "ProxyRequest"
  /\ \/ invalid_config /\ Returns(internal_server_error)
     \/ ~invalid_config /\ pc' = "exchange" /\ UNCHANGED res
  /\ forwarded' = IF invalid_config THEN forwarded ELSE Forwarded(request.target, url_prefix)
  /\ UNCHANGED <<object, request, files, page, failed>>

\* resolve, connect and write throw, and handle_request catches.
UpstreamUnreachable ==
  /\ pc = "exchange"
  /\ failed' = "connect"
  /\ Returns(internal_server_error)
  /\ UNCHANGED <<object, request, files, forwarded, page>>

\* A whole response is read.  The reader expects a body after the header of an
\* answer to HEAD too, and reads such an answer only if it announces none.
UpstreamAnswers(p) ==
  /\ pc = "exchange"
  /\ request.method = "HEAD" => p.text = <<>>
  /\ page' = p
  /\ res' = [Response(p.status, p.html, p.location, p.text) EXCEPT !.content_length = 0]
  /\ pc' = "shutdown"
  /\ UNCHANGED <<object, request, files, forwarded, failed>>

\* Mutant: what was read of the response is kept.
UpstreamReadFailsHalfway ==
  /\ pc = "exchange"
  /\ failed' = "read"
  /\ res' = [Empty EXCEPT !.text = <<"text">>]
  /\ pc' = "shutdown"
  /\ UNCHANGED <<object, request, files, forwarded, page>>

\* The read ends with an error (a message cut short, malformed or too long) and
\* leaves the response as it was moved from: empty.
UpstreamReadFails ==
  /\ pc = "exchange"
  /\ failed' = "read"
  /\ res' = Empty
  /\ pc' = "shutdown"
  /\ UNCHANGED <<object, request, files, forwarded, page>>

\* The shutdown overwrites the error of the read.
ShutdownUpstream(ec) ==
  /\ pc = "shutdown"
  /\ \/ /\ ec \in {"ok", "not_connected"}
        /\ res' = [res EXCEPT !.content_length = Len(res.text)]
        /\ pc' = "adapt"
        /\ UNCHANGED failed
     \/ /\ ec \notin {"ok", "not_connected"}
        /\ failed' = "shutdown"
        /\ Returns(internal_server_error)
  /\ UNCHANGED <<object, request, files, forwarded, page>>

\* boost::replace_all, from left to right
ReplaceAll(body, old, new) ==
  LET Here(n) == n + Len(old) - 1 <= Len(body) /\ SubSeq(body, n, n + Len(old) - 1) = old
      rest[n \in 1..(Len(body) + 1)] ==
        IF n > Len(body) THEN <<>>
        ELSE IF Here(n) THEN new \o rest[n + Len(old)]
        ELSE <<body[n]>> \o rest[n + 1]
  IN  rest[1]

Encoded(p) == [n \in 1..Len(p) |-> IF p[n] = "/" THEN "%" ELSE p[n]]

\* Mutant: links that begin with two slashes get the prefix too.
rewrite_all_html_links(body, p) ==
  IF p \in {<<>>, Root} THEN body
  ELSE ReplaceAll(ReplaceAll(body, <<"link", "/">>, <<"link">> \o p \o Root),
                  <<"url", "%">>, <<"url">> \o Encoded(p) \o <<"%">>)

\* Every link to the root gets the prefix, and those that begin with two slashes
\* lose it again.
replace_relative_html_links(body, p) ==
  IF p \in {<<>>, Root} THEN body
  ELSE LET q     == Encoded(p)
           links == ReplaceAll(body, <<"link", "/">>, <<"link">> \o p \o Root)
           urls  == ReplaceAll(links, <<"url", "%">>, <<"url">> \o q \o <<"%">>)
           back  == ReplaceAll(urls, <<"link">> \o p \o <<"/", "/">>, <<"link", "/", "/">>)
       IN  ReplaceAll(back, <<"url">> \o q \o <<"%", "%">>, <<"url", "%", "%">>)

\* Mutant: the prefix is put in front of every Location.
Relocated(location) == url_prefix \o location

\* A Location that begins with a slash is made relative to the proxy.
Redirected(location) ==
  IF location # <<>> /\ location[1] = "/" THEN url_prefix \o location ELSE location

\* The rest of handle_request.  Content-Length was set in req_synchronous.
AdaptResponse ==
  /\ pc = "adapt"
  /\ Returns(
       IF res.status = "redirect" /\ res.location # <<>>
       THEN [res EXCEPT !.location = <<Redirected(res.location[1])>>]
       ELSE IF res.html
       THEN [res EXCEPT !.text = replace_relative_html_links(res.text, url_prefix)]
       ELSE res)
  /\ UNCHANGED <<object, request, files, proxy>>

-----------------------------------------------------------------------------

Over == pc \in {"answered", "thrown"} /\ UNCHANGED vars

Next ==
  \/ \E k \in Kinds, b \in Blocks, p \in Prefixes : Construct(k, b, p)
  \/ \E m \in {"GET", "HEAD"}, gz \in BOOLEAN, t \in Tails : GetResponse(m, gz, t)
  \/ AnswerAtOnce \/ SetConnection
  \/ FileSystemChanges
  \/ DirExists \/ DirIsDirectory \/ PathExists \/ PathIsFile \/ OpenFile \/ ReadFile \/ Compress
  \/ PrepareRequest \/ UpstreamUnreachable
  \/ \E p \in Pages : UpstreamAnswers(p)
  \/ UpstreamReadFails
  \/ \E ec \in {"ok", "not_connected", "other"} : ShutdownUpstream(ec)
  \/ AdaptResponse
  \/ Over

Spec == Init /\ [][Next]_vars

-----------------------------------------------------------------------------
(* Properties                                                              *)

TypeOK ==
  /\ pc \in {"new", "ready", "called", "is_dir", "exists", "is_file", "open", "read", "compress",
             "exchange", "shutdown", "adapt", "returned", "answered", "thrown"}
  /\ handler \in Kinds /\ url_prefix \in Seq(Symbols)
  /\ invalid_config \in BOOLEAN /\ keep_alive \in BOOLEAN
  /\ request \in [method : {"GET", "HEAD"}, accepts_gzip : BOOLEAN, target : Seq(Symbols)]
  /\ node \in Worlds /\ text \in Texts /\ linux_path \in {"linux_dir", "below"}
  /\ size \in Nat /\ disturbed \in BOOLEAN
  /\ forwarded \in Seq(Symbols) /\ failed \in {"none", "connect", "read", "shutdown"}
  /\ res.content_length \in Nat /\ res.text \in Seq(Symbols)

\* After a kept-alive answer the client finds the next one where it ends: the
\* body has the length and the encoding its fields announce, although files
\* change while they are read and the proxy rewrites pages after their length
\* was fixed.  (No handler looks at the method: an answer to HEAD has a body.)
KeptAliveIsFramed ==
  pc = "answered" /\ res.connection = "keep-alive" =>
    /\ res.content_length = BodyLength(res)
    /\ res.gzipped <=> res.content_encoding = "gzip"

\* The client is never left waiting for bytes that do not come: rewriting never
\* makes a page shorter than announced (proxyRequestHandler.cc:119).
NoMissingBytes == pc = "answered" => res.content_length <= BodyLength(res)

\* What a request needs to take the program down, since nothing catches what a
\* handler throws (fileHandler.cc:65, 77): a file system that changed under the
\* handler or has something that exists and cannot be read, or a name that is too
\* long.  The last is in the hands of the client alone; any other request for what
\* is missing, empty or a directory is answered.
ThrowsExplained ==
  pc = "thrown" =>
    /\ handler \in FileKinds
    /\ disturbed \/ NameTooLong \/ \E n \in DOMAIN node : node[n] \in {"unreadable", "forbidden"}

\* What the rewriting of a page is for: a link to the root, and only that, gets
\* the prefix, once; one with two slashes names another host and stays.
Relinked(body, p) ==
  LET IsRootLink(n) ==
        /\ n > 1
        /\ <<body[n - 1], body[n]>> \in {<<"link", "/">>, <<"url", "%">>}
        /\ n < Len(body) => body[n + 1] # body[n]
      rest[n \in 1..(Len(body) + 1)] ==
        IF n > Len(body) THEN <<>>
        ELSE (IF ~IsRootLink(n) THEN <<body[n]>>
              ELSE IF body[n] = "/" THEN p \o Root ELSE Encoded(p) \o <<"%">>) \o rest[n + 1]
  IN  rest[1]

\* What a client takes for the body: it stops reading where Content-Length says.
Received(r) == SubSeq(r.text, 1, r.content_length)

\* The body handed to the stream is the upstream page with its links to the root,
\* and nothing else, led back to the proxy (proxyRequestHandler.cc:76-94); under "/"
\* they lead there as they are.  But it is announced with the length of the
\* upstream page (72, before 119), and of a page that has such a link the client
\* misses as much at the end as its links have grown.
LinksRewritten ==
  pc = "answered" /\ handler = "ProxyRequest" /\ res.status = "ok" /\ failed = "none" =>
    LET whole == IF page.html /\ url_prefix # Root THEN Relinked(page.text, url_prefix) ELSE page.text
    IN  res.text = whole /\ Received(res) = SubSeq(whole, 1, Len(page.text))

\* What the rewriting relies on and nothing in the code checks: no url_prefix looks
\* like the beginning of a link itself.  Under /url(\2f, say, the second replacement
\* would find its pattern in what the first one has just put in.
LinklessPrefixes ==
  \A p \in Prefixes : \A n \in 1..Len(p) : p[n] \notin {"link", "url"}

\* A failed exchange never reaches the client as a page: it is a 500, or, since
\* the error of the read is overwritten (proxyRequestHandler.cc:68), an answer
\* with neither fields nor body.
FailureIsNoPage ==
  pc = "answered" /\ failed # "none" =>
    \/ res.status = "internal_server_error"
    \/ failed = "read" /\ res.text = <<>> /\ res.location = <<>> /\ ~res.html

\* A path on the host that is asked; with two slashes it would name another host.
IsRootPath(p) == p # <<>> /\ p[1] = "/" /\ (Len(p) > 1 => p[2] # "/")

\* A client that follows a redirect of the upstream server to one of its own paths
\* comes back to the proxy, which forwards exactly the target that was meant, and a
\* Location that names a scheme and a host stays as it is (proxyRequestHandler.cc:103,
\* 126).  Left out are two cases in which the client is led elsewhere: a Location
\* "//host" gets the prefix too, and under the prefix "/" (location ///) every path
\* gets a second slash.
RedirectComesBack ==
  pc = "answered" /\ res.status = "redirect" /\ page.location # <<>> =>
    LET meant == page.location[1]
        found == res.location[1]
    IN  /\ (meant = <<>> \/ meant[1] # "/") => found = meant
        /\ (IsRootPath(meant) /\ (url_prefix = <<>> \/ (IsRootPath(url_prefix) /\ url_prefix # Root)))
             => IsRootPath(found) /\ Forwarded(found, url_prefix) = meant
=============================================================================
