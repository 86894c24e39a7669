---------------------------- MODULE HandlersProofs ----------------------------
(***************************************************************************)
(* Proofs about the request handlers, for any config, any files and file   *)
(* system changes, and any upstream answers.                               *)
(***************************************************************************)
EXTENDS Handlers, Induction, SequenceTheorems, TLAPS

Statuses == {"ok", "redirect", "not_found", "internal_server_error"}

FieldNames ==
  {"status", "html", "location", "text", "gzipped", "content_encoding", "content_length", "connection"}

\* The fields of a response, but for the text and its length.
ResponseOK ==
  /\ DOMAIN res = FieldNames
  /\ res.status \in Statuses
  /\ res.html \in BOOLEAN /\ res.gzipped \in BOOLEAN

\* The handlers that reach each step of a call.
StepOfHandler ==
  /\ handler \in Kinds
  /\ pc \in {"is_dir", "exists", "is_file", "open", "read", "compress", "thrown"} => handler \in FileKinds
  /\ pc \in {"exchange", "shutdown", "adapt"} => handler = "ProxyRequest"
  /\ pc = "new" => handler = "NotFound" /\ ~keep_alive

-----------------------------------------------------------------------------
(* Framing                                                                 *)

Framed == res.content_length = BodyLength(res) /\ (res.gzipped <=> res.content_encoding = "gzip")

\* Only the proxy changes a body after its length was fixed, and the proxy never
\* keeps a connection.
FramingInv ==
  /\ ResponseOK
  /\ StepOfHandler
  /\ keep_alive \in BOOLEAN
  /\ handler = "ProxyRequest" => ~keep_alive
  /\ handler # "ProxyRequest" => Framed
  /\ res.connection = "keep-alive" => keep_alive

\* A response that was just made is framed.
LEMMA FreshIsFramed ==
  ASSUME NEW status \in Statuses, NEW html \in BOOLEAN, NEW location, NEW body,
         res' = Response(status, html, location, body)
  PROVE  ResponseOK' /\ Framed' /\ res'.connection = "none"
BY DEF Response, ResponseOK, Framed, BodyLength, FieldNames

\* Compressing keeps the length and the encoding in step with the body.
LEMMA CompressIsFramed ==
  ASSUME ResponseOK, Compress, Framed
  PROVE  ResponseOK' /\ Framed' /\ res'.connection = res.connection
<1>1. CASE request.accepts_gzip
  BY <1>1 DEF Compress, ResponseOK, Framed, BodyLength, FieldNames
<1>2. CASE ~request.accepts_gzip
  BY <1>2 DEF Compress, ResponseOK, Framed, BodyLength, FieldNames
<1>3. QED
  BY <1>1, <1>2

\* handle_request returns a response it has made.
LEMMA OwnAnswer ==
  ASSUME NEW status \in Statuses, NEW body, Returns(Response(status, FALSE, <<>>, body))
  PROVE  /\ ResponseOK' /\ Framed' /\ res'.connection = "none"
         /\ pc' \in {"returned", "compress"} /\ (pc' = "compress" => handler = "CompressedFile")
BY FreshIsFramed DEF Returns

\* Every response starts out framed.
LEMMA FramingInit == Init => FramingInv
<1> SUFFICES ASSUME Init PROVE FramingInv
  OBVIOUS
<1>1. ResponseOK /\ Framed /\ res.connection = "none"
  BY DEF Init, Empty, Response, ResponseOK, Framed, BodyLength, FieldNames, Statuses
<1>2. StepOfHandler /\ keep_alive = FALSE /\ handler = "NotFound"
  BY DEF Init, StepOfHandler, Kinds
<1>3. QED
  BY <1>1, <1>2 DEF FramingInv

\* Every step keeps the framing of the answers that may be kept alive.
LEMMA FramingNext == FramingInv /\ [Next]_vars => FramingInv'
<1> SUFFICES ASSUME FramingInv, [Next]_vars PROVE FramingInv'
  OBVIOUS
<1>0. ResponseOK /\ StepOfHandler
  BY DEF FramingInv
<1>1. ASSUME UNCHANGED res PROVE ResponseOK' /\ (Framed' <=> Framed)
  BY <1>0, <1>1 DEF ResponseOK, Framed, BodyLength
<1>2. ASSUME NEW k \in Kinds, NEW b, NEW p, Construct(k, b, p) PROVE FramingInv'
  BY <1>1, <1>2 DEF Construct, FramingInv, StepOfHandler, KeepsAlive, FileKinds, EchoKinds
<1>3. ASSUME NEW m, NEW gz, NEW t, GetResponse(m, gz, t) PROVE FramingInv'
  BY <1>1, <1>3 DEF GetResponse, FramingInv, StepOfHandler, object
<1>4. CASE AnswerAtOnce
  BY <1>4, OwnAnswer DEF AnswerAtOnce, Plain, not_found_error, FramingInv, StepOfHandler, FileKinds, Statuses, object
<1>5. CASE SetConnection
  BY <1>5 DEF SetConnection, FramingInv, StepOfHandler, ResponseOK, FieldNames, Framed, BodyLength, object
<1>6. CASE FileSystemChanges
  BY <1>1, <1>6 DEF FileSystemChanges, FramingInv, StepOfHandler, object
<1>7. CASE DirExists \/ DirIsDirectory \/ PathExists \/ PathIsFile \/ OpenFile \/ ReadFile
  BY <1>1, <1>7, OwnAnswer DEF DirExists, DirIsDirectory, PathExists, PathIsFile, OpenFile, ReadFile, Throws, Plain,
       not_found_error, internal_server_error, FramingInv, StepOfHandler, FileKinds, Statuses, object
<1>8. CASE Compress
  BY <1>8, CompressIsFramed DEF Compress, FramingInv, StepOfHandler, FileKinds, object
<1>9. CASE PrepareRequest
  BY <1>1, <1>9, OwnAnswer DEF PrepareRequest, Plain, internal_server_error, FramingInv, StepOfHandler, Statuses, object
<1>10. CASE UpstreamUnreachable
  BY <1>10, OwnAnswer DEF UpstreamUnreachable, Plain, internal_server_error, FramingInv, StepOfHandler, Statuses, object
<1>11. ASSUME NEW p \in Pages, UpstreamAnswers(p) PROVE FramingInv'
  BY <1>11, HandlersAssumption DEF UpstreamAnswers, Response, ResponseOK, FieldNames, Statuses, FramingInv, StepOfHandler, object
<1>12. CASE UpstreamReadFails
  BY <1>12 DEF UpstreamReadFails, Empty, Response, ResponseOK, FieldNames, Statuses, FramingInv, StepOfHandler, object
<1>13. ASSUME NEW ec, ShutdownUpstream(ec) PROVE FramingInv'
  BY <1>13, OwnAnswer DEF ShutdownUpstream, Plain, internal_server_error, ResponseOK, FieldNames, Statuses, FramingInv,
       StepOfHandler, object
<1>14. CASE AdaptResponse
  <2>1. /\ res' = [res EXCEPT !.location = <<Redirected(res.location[1])>>]
           \/ res' = [res EXCEPT !.text = replace_relative_html_links(res.text, url_prefix)]
           \/ res' = res
        /\ pc' = "returned"
    BY <1>14 DEF AdaptResponse, Returns, FramingInv, StepOfHandler
  <2>2. ResponseOK' /\ res'.connection = res.connection
    BY <1>0, <2>1 DEF ResponseOK, FieldNames
  <2>3. QED
    BY <1>14, <2>1, <2>2 DEF AdaptResponse, FramingInv, StepOfHandler, object
<1>15. CASE Over \/ UNCHANGED vars
  BY <1>1, <1>15 DEF Over, vars, object, FramingInv, StepOfHandler
<1>16. QED
  BY <1>2, <1>3, <1>4, <1>5, <1>6, <1>7, <1>8, <1>9, <1>10, <1>11, <1>12, <1>13, <1>14, <1>15 DEF Next

\* What keeps the framing holds throughout.
THEOREM FramingInvariance == Spec => []FramingInv
BY FramingInit, FramingNext, PTL DEF Spec

\* A kept-alive answer always has the length and the encoding it announces.
THEOREM FramingTheorem == Spec => []KeptAliveIsFramed
<1>1. FramingInv => KeptAliveIsFramed
  BY DEF FramingInv, Framed, KeptAliveIsFramed
<1>2. QED
  BY <1>1, FramingInvariance, PTL
-----------------------------------------------------------------------------
(* Files that vanish                                                       *)

\* What the handler has found out is still true if nothing was disturbed.
FileInv ==
  /\ node \in Worlds
  /\ disturbed \in BOOLEAN
  /\ pc \in {"is_dir", "exists", "is_file", "open", "read", "thrown"} => handler \in FileKinds
  /\ pc \in {"exists", "is_file"} => linux_path = "below"
  /\ linux_path \in {"linux_dir", "below"}
  /\ ~disturbed =>
       /\ pc = "is_dir" => node["linux_dir"] \notin {"missing", "forbidden"}
       /\ pc = "is_file" => node["below"] \notin {"missing", "forbidden"}
       /\ pc = "open" => node[linux_path] \notin {"missing", "directory"}
       /\ pc = "thrown" => NameTooLong \/ \E n \in {"linux_dir", "below"} : node[n] \in {"unreadable", "forbidden"}

\* The steps that go nowhere near the file system.
LEMMA FileElsewhere ==
  ASSUME FileInv, UNCHANGED <<node, disturbed, linux_path, handler>>,
         \/ pc' \notin {"is_dir", "exists", "is_file", "open", "read", "thrown"}
         \/ UNCHANGED <<pc, url_prefix, request>>
  PROVE  FileInv'
BY DEF FileInv, NameTooLong

\* No call has begun.
LEMMA FileInit == Init => FileInv
<1> SUFFICES ASSUME Init PROVE FileInv
  OBVIOUS
<1>1. node \in Worlds
  BY DEF Init, Worlds, Nodes
<1>2. QED
  BY <1>1 DEF Init, FileInv

\* Each look at the file system adds one fact about it.
LEMMA FileNext == FileInv /\ [Next]_vars => FileInv'
<1> SUFFICES ASSUME FileInv, [Next]_vars PROVE FileInv'
  OBVIOUS
<1>1. ASSUME NEW k, NEW b, NEW p, Construct(k, b, p) PROVE FileInv'
  BY <1>1 DEF Construct, FileInv, files
<1>2. ASSUME NEW m, NEW gz, NEW t, GetResponse(m, gz, t) PROVE FileInv'
  BY <1>2, FileElsewhere DEF GetResponse, files, object
<1>3. CASE AnswerAtOnce \/ SetConnection \/ Compress \/ ReadFile
  BY <1>3, FileElsewhere DEF AnswerAtOnce, SetConnection, Compress, ReadFile, Returns, files, object
<1>4. CASE FileSystemChanges
  BY <1>4 DEF FileSystemChanges, FileInv, object
<1>5. CASE DirExists
  BY <1>5 DEF DirExists, Returns, Throws, FileInv, files, object
<1>6. CASE DirIsDirectory
  BY <1>6 DEF DirIsDirectory, Throws, FileInv, object
<1>7. CASE PathExists
  BY <1>7 DEF PathExists, CannotAsk, NameTooLong, Returns, Throws, FileInv, files, object
<1>8. CASE PathIsFile
  BY <1>8 DEF PathIsFile, Returns, Throws, FileInv, files, object
<1>9. CASE OpenFile
  <2>1. CASE node[linux_path] = "file"
    BY <1>9, <2>1 DEF OpenFile, FileInv, object
  <2>2. CASE node[linux_path] # "file"
    <3>1. node[linux_path] \in Nodes
      BY DEF FileInv, Worlds
    <3>2. QED
      BY <1>9, <2>2, <3>1 DEF OpenFile, Throws, FileInv, Nodes, object
  <2>3. QED
    BY <2>1, <2>2
<1>10. CASE PrepareRequest \/ UpstreamUnreachable \/ UpstreamReadFails \/ AdaptResponse
  BY <1>10, FileElsewhere DEF PrepareRequest, UpstreamUnreachable, UpstreamReadFails, AdaptResponse, Returns, files, object
<1>11. ASSUME NEW p, UpstreamAnswers(p) PROVE FileInv'
  BY <1>11, FileElsewhere DEF UpstreamAnswers, files, object
<1>12. ASSUME NEW ec, ShutdownUpstream(ec) PROVE FileInv'
  BY <1>12, FileElsewhere DEF ShutdownUpstream, Returns, files, object
<1>13. CASE Over \/ UNCHANGED vars
  BY <1>13, FileElsewhere DEF Over, vars, files, object
<1>14. QED
  BY <1>1, <1>2, <1>3, <1>4, <1>5, <1>6, <1>7, <1>8, <1>9, <1>10, <1>11, <1>12, <1>13 DEF Next

\* A handler throws only if somebody changed the files during the call, there is
\* something that nobody may read, or the request names what is too long to be asked for.
THEOREM ThrowTheorem == Spec => []ThrowsExplained
<1>1. FileInv => ThrowsExplained
  <2>1. ASSUME FileInv PROVE DOMAIN node = {"linux_dir", "below"}
    BY <2>1 DEF FileInv, Worlds
  <2>2. QED
    BY <2>1 DEF FileInv, ThrowsExplained
<1>2. QED
  BY <1>1, FileInit, FileNext, PTL DEF Spec
-----------------------------------------------------------------------------
(* The proxy                                                               *)

\* What the response is made of at each step of the exchange.
ProxyInv ==
  /\ url_prefix \in Seq(Symbols)
  /\ page \in Pages \cup {NoPage}
  /\ failed \in {"none", "connect", "read", "shutdown"}
  /\ failed # "none" => handler = "ProxyRequest" /\ pc \in {"shutdown", "adapt", "returned", "answered"}
  /\ failed \in {"connect", "shutdown"} =>
       pc \in {"returned", "answered"} /\ res.status = "internal_server_error"
  /\ failed = "read" => res.status = "ok" /\ res.text = <<>> /\ res.location = <<>> /\ ~res.html
  /\ res.status = "redirect" => handler = "ProxyRequest" /\ pc \in {"shutdown", "adapt", "returned", "answered"}
  /\ res.status = "redirect" /\ pc \in {"shutdown", "adapt"} => res.location = page.location
  /\ res.status = "redirect" /\ pc \in {"returned", "answered"} /\ page.location # <<>> =>
       res.location = <<Redirected(page.location[1])>>

\* Nothing has been asked of the upstream server.
LEMMA ProxyInit == Init => ProxyInv
BY DEF Init, ProxyInv, NoPage, Empty, Response

\* A handler's own answer is neither a redirect nor a failed exchange of its own.
LEMMA ProxyOwnAnswer ==
  ASSUME ProxyInv, NEW status \in Statuses \ {"redirect"}, NEW body,
         Returns(Response(status, FALSE, <<>>, body)), UNCHANGED <<handler, url_prefix, page>>,
         failed' = "none" \/ (/\ failed' \in {"connect", "shutdown"}
                              /\ status = "internal_server_error" /\ handler = "ProxyRequest")
  PROVE  ProxyInv'
BY DEF Returns, ProxyInv, Response, Statuses

\* Steps before the exchange, which leave the response alone.
LEMMA ProxyElsewhere ==
  ASSUME ProxyInv, UNCHANGED <<handler, url_prefix, page, failed, res>>, failed = "none", res.status # "redirect"
  PROVE  ProxyInv'
BY DEF ProxyInv

\* Every step of the exchange keeps track of what the response is made of.
LEMMA ProxyNext == FramingInv /\ ProxyInv /\ [Next]_vars => ProxyInv'
<1> SUFFICES ASSUME FramingInv, ProxyInv, [Next]_vars PROVE ProxyInv'
  OBVIOUS
<1>0. ResponseOK /\ StepOfHandler
  BY DEF FramingInv
<1>1. ASSUME pc \notin {"shutdown", "adapt", "returned", "answered"}
      PROVE  failed = "none" /\ res.status # "redirect"
  BY <1>1 DEF ProxyInv
<1>2. ASSUME NEW k, NEW b \in Blocks, NEW p \in Prefixes, Construct(k, b, p) PROVE ProxyInv'
  BY <1>1, <1>2, HandlersAssumption DEF Construct, ProxyInv, proxy
<1>3. ASSUME NEW m, NEW gz, NEW t, GetResponse(m, gz, t) PROVE ProxyInv'
  BY <1>1, <1>3, ProxyElsewhere DEF GetResponse, proxy, object
<1>4. CASE AnswerAtOnce
  BY <1>1, <1>4, ProxyOwnAnswer DEF AnswerAtOnce, Plain, not_found_error, Statuses, proxy, object
<1>5. CASE SetConnection
  BY <1>0, <1>5 DEF SetConnection, ResponseOK, FieldNames, ProxyInv, Redirected, proxy, object
<1>6. CASE FileSystemChanges
  BY <1>1, <1>6, ProxyElsewhere DEF FileSystemChanges, proxy, object
<1>7. CASE DirExists \/ DirIsDirectory \/ PathExists \/ PathIsFile \/ OpenFile \/ ReadFile
  BY <1>1, <1>7, ProxyOwnAnswer, ProxyElsewhere DEF DirExists, DirIsDirectory, PathExists, PathIsFile, OpenFile, ReadFile,
       Throws, Plain, not_found_error, internal_server_error, Statuses, proxy, object
<1>8. CASE Compress
  BY <1>0, <1>1, <1>8 DEF Compress, ResponseOK, FieldNames, ProxyInv, proxy, object
<1>9. CASE PrepareRequest
  BY <1>1, <1>9, ProxyOwnAnswer, ProxyElsewhere DEF PrepareRequest, Plain, internal_server_error, Statuses, object
<1>10. CASE UpstreamUnreachable
  BY <1>0, <1>10, ProxyOwnAnswer DEF UpstreamUnreachable, StepOfHandler, Plain, internal_server_error, Statuses, object
<1>11. ASSUME NEW p \in Pages, UpstreamAnswers(p) PROVE ProxyInv'
  BY <1>0, <1>1, <1>11 DEF UpstreamAnswers, StepOfHandler, Response, ProxyInv, object
<1>12. CASE UpstreamReadFails
  BY <1>0, <1>12 DEF UpstreamReadFails, StepOfHandler, Empty, Response, ProxyInv, object
<1>13. ASSUME NEW ec, ShutdownUpstream(ec) PROVE ProxyInv'
  <2>1. CASE ec \in {"ok", "not_connected"}
    BY <1>0, <1>13, <2>1 DEF ShutdownUpstream, ResponseOK, FieldNames, ProxyInv, object
  <2>2. CASE ec \notin {"ok", "not_connected"}
    BY <1>0, <1>13, <2>2, ProxyOwnAnswer DEF ShutdownUpstream, StepOfHandler, Plain, internal_server_error, Statuses, object
  <2>3. QED
    BY <2>1, <2>2
<1>14. CASE AdaptResponse
  <2>1. handler = "ProxyRequest" /\ pc' = "returned" /\ UNCHANGED <<handler, url_prefix, page, failed>>
    BY <1>0, <1>14 DEF AdaptResponse, StepOfHandler, Returns, object, proxy
  <2>2. CASE res.status = "redirect" /\ res.location # <<>>
    <3>1. res' = [res EXCEPT !.location = <<Redirected(res.location[1])>>]
      BY <1>14, <2>2 DEF AdaptResponse, Returns
    <3>2. res'.status = res.status /\ res'.location = <<Redirected(res.location[1])>> /\ failed = "none"
      BY <1>0, <1>14, <2>2, <3>1 DEF ResponseOK, FieldNames, AdaptResponse, ProxyInv
    <3>3. QED
      BY <1>14, <2>1, <2>2, <3>2 DEF AdaptResponse, ProxyInv, Redirected
  <2>3. CASE ~(res.status = "redirect" /\ res.location # <<>>)
    <3>1. res' = IF res.html THEN [res EXCEPT !.text = replace_relative_html_links(res.text, url_prefix)] ELSE res
      BY <1>14, <2>3 DEF AdaptResponse, Returns
    <3>2. /\ res'.status = res.status /\ res'.location = res.location /\ res'.html = res.html
          /\ res.html \/ res' = res
      BY <1>0, <3>1 DEF ResponseOK, FieldNames
    <3>3. QED
      BY <1>14, <2>1, <2>3, <3>2 DEF AdaptResponse, ProxyInv, Redirected
  <2>4. QED
    BY <2>2, <2>3
<1>15. CASE Over \/ UNCHANGED vars
  BY <1>15 DEF Over, vars, object, proxy, ProxyInv, Redirected
<1>16. QED
  BY <1>2, <1>3, <1>4, <1>5, <1>6, <1>7, <1>8, <1>9, <1>10, <1>11, <1>12, <1>13, <1>14, <1>15 DEF Next

\* What the proxy's response is made of is known throughout.
THEOREM ProxyInvariance == Spec => []ProxyInv
BY ProxyInit, ProxyNext, FramingInvariance, PTL DEF Spec

\* A failed exchange never reaches the client as a page.
THEOREM FailureTheorem == Spec => []FailureIsNoPage
<1>1. ProxyInv => FailureIsNoPage
  BY DEF ProxyInv, FailureIsNoPage
<1>2. QED
  BY <1>1, ProxyInvariance, PTL

\* Taking the prefix off what it was put in front of gives that back.
LEMMA ForwardedBack ==
  ASSUME NEW p \in Seq(Symbols), NEW t \in Seq(Symbols), t # <<>>, t[1] = "/"
  PROVE  Forwarded(p \o t, p) = t
<1>1. /\ p \o t \in Seq(Symbols) /\ Len(p \o t) = Len(p) + Len(t)
      /\ \A i \in 1..Len(p \o t) : (p \o t)[i] = IF i <= Len(p) THEN p[i] ELSE t[i - Len(p)]
      /\ Len(p) \in Nat /\ Len(t) \in Nat \ {0}
  BY ConcatProperties
<1>2. SubSeq(p \o t, Len(p) + 1, Len(p \o t)) = t
  <2>1. \A i \in (Len(p) + 1)..Len(p \o t) : (p \o t)[i] \in Symbols
    BY <1>1, ElementOfSeq
  <2>2. /\ SubSeq(p \o t, Len(p) + 1, Len(p \o t)) \in Seq(Symbols)
        /\ Len(SubSeq(p \o t, Len(p) + 1, Len(p \o t))) = Len(t)
        /\ \A i \in 1..Len(t) : SubSeq(p \o t, Len(p) + 1, Len(p \o t))[i] = t[i]
    BY <1>1, <2>1, SubSeqProperties
  <2>3. QED
    BY <2>2, SeqEqual
<1>3. QED
  BY <1>2 DEF Forwarded

\* A path behind a prefix that is a path is one.
LEMMA RootPathBehind ==
  ASSUME NEW p \in Seq(Symbols), NEW t \in Seq(Symbols), IsRootPath(t),
         p = <<>> \/ (IsRootPath(p) /\ p # Root)
  PROVE  IsRootPath(p \o t)
<1>1. /\ p \o t \in Seq(Symbols) /\ Len(p \o t) = Len(p) + Len(t)
      /\ \A i \in 1..Len(p \o t) : (p \o t)[i] = IF i <= Len(p) THEN p[i] ELSE t[i - Len(p)]
      /\ Len(p) \in Nat /\ Len(t) \in Nat \ {0}
  BY ConcatProperties DEF IsRootPath
<1>2. CASE p = <<>>
  BY <1>1, <1>2 DEF IsRootPath
<1>3. CASE IsRootPath(p) /\ p # Root
  <2>1. Len(p) # 0
    BY <1>3 DEF IsRootPath
  <2>2. Len(p) # 1
    <3>1. SUFFICES ASSUME Len(p) = 1 PROVE FALSE
      OBVIOUS
    <3>2. Root \in Seq(Symbols) /\ Len(Root) = 1 /\ Root[1] = "/"
      BY HandlersAssumption DEF Root
    <3>3. \A i \in 1..Len(p) : p[i] = Root[i]
      BY <1>3, <3>1, <3>2 DEF IsRootPath
    <3>4. QED
      BY <1>3, <3>1, <3>2, <3>3, SeqEqual
  <2>3. Len(p) > 1 /\ p[1] = "/" /\ p[2] # "/"
    <3>1. \A n \in Nat : n = 0 \/ n = 1 \/ n > 1
      OBVIOUS
    <3>2. Len(p) > 1
      BY <1>1, <2>1, <2>2, <3>1, Zenon
    <3>3. QED
      BY <1>3, <3>2 DEF IsRootPath
  <2>4. (p \o t)[1] = "/" /\ (p \o t)[2] # "/" /\ Len(p \o t) > 1
    BY <1>1, <2>3
  <2>5. QED
    BY <1>1, <2>4 DEF IsRootPath
<1>4. QED
  BY <1>2, <1>3

\* A client that follows the proxy's redirect to a path of the upstream server stays
\* with the proxy and asks that server for what it redirected to.
THEOREM RedirectTheorem == Spec => []RedirectComesBack
<1>1. ProxyInv => RedirectComesBack
  <2> SUFFICES ASSUME ProxyInv, pc = "answered", res.status = "redirect", page.location # <<>>
               PROVE  RedirectComesBack
    BY DEF RedirectComesBack
  <2>1. res.location[1] = Redirected(page.location[1]) /\ url_prefix \in Seq(Symbols)
    BY DEF ProxyInv
  <2>2. page.location[1] \in Seq(Symbols)
    <3>1. page.location \in Seq(Seq(Symbols))
      BY HandlersAssumption DEF ProxyInv, NoPage
    <3>2. QED
      BY <3>1, ElementOfSeq
  <2>3. QED
    BY <2>1, <2>2, ForwardedBack, RootPathBehind DEF RedirectComesBack, Redirected, IsRootPath
<1>2. QED
  BY <1>1, ProxyInvariance, PTL
-----------------------------------------------------------------------------
(* Texts                                                                   *)

\* The texts that targets, files and pages are.
Text == Seq(Symbols)

\* A text of one symbol, under a name that the provers leave alone.
Sym(a) == <<a>>

\* A text of one symbol has that symbol and no other.
LEMMA SymText == ASSUME NEW a \in Symbols PROVE Sym(a) \in Text /\ Len(Sym(a)) = 1 /\ Sym(a)[1] = a /\ Sym(a) # <<>>
BY DEF Text, Sym

\* Two texts make one that is as long as both.
LEMMA JoinText ==
  ASSUME NEW s \in Text, NEW t \in Text
  PROVE  Join(s, t) \in Text /\ Len(Join(s, t)) = Len(s) + Len(t)
BY ConcatProperties DEF Text, Join

\* The first text comes first ...
LEMMA JoinLeft ==
  ASSUME NEW s \in Text, NEW t \in Text, NEW i \in 1..Len(s)
  PROVE  Join(s, t)[i] = s[i]
<1>1. \A k \in 1..(Len(s) + Len(t)) : (s \o t)[k] = IF k <= Len(s) THEN s[k] ELSE t[k - Len(s)]
  BY ConcatProperties DEF Text
<1>2. i \in 1..(Len(s) + Len(t)) /\ i <= Len(s)
  BY LenProperties DEF Text
<1>3. QED
  BY <1>1, <1>2 DEF Join

\* ... and the second one after it.
LEMMA JoinRight ==
  ASSUME NEW s \in Text, NEW t \in Text, NEW i \in 1..Len(t)
  PROVE  Join(s, t)[Len(s) + i] = t[i]
<1>1. \A k \in 1..(Len(s) + Len(t)) : (s \o t)[k] = IF k <= Len(s) THEN s[k] ELSE t[k - Len(s)]
  BY ConcatProperties DEF Text
<1>2. Len(s) + i \in 1..(Len(s) + Len(t)) /\ ~(Len(s) + i <= Len(s)) /\ Len(s) + i - Len(s) = i
  BY LenProperties DEF Text
<1>3. QED
  BY <1>1, <1>2 DEF Join

\* Only empty texts make an empty one.
LEMMA JoinIsEmpty ==
  ASSUME NEW s \in Text, NEW t \in Text
  PROVE  Join(s, t) = <<>> <=> s = <<>> /\ t = <<>>
BY ConcatEqualIffEmpty DEF Text, Join

\* It does not matter which two of three texts are joined first.
LEMMA JoinAssociative ==
  ASSUME NEW s \in Text, NEW t \in Text, NEW u \in Text
  PROVE  Join(Join(s, t), u) = Join(s, Join(t, u))
BY ConcatAssociative DEF Text, Join

\* The empty text adds nothing.
LEMMA JoinEmpty == ASSUME NEW s \in Text PROVE Join(<<>>, s) = s /\ Join(s, <<>>) = s
BY ConcatEmptySeq DEF Text, Join

\* Texts have a length, and only the empty one has none.
LEMMA TextLength == ASSUME NEW s \in Text PROVE Len(s) \in Nat /\ (s = <<>> <=> Len(s) = 0)
BY EmptySeq, LenProperties DEF Text

\* Texts with the same symbols are the same.
LEMMA TextEqual == ASSUME NEW s \in Text, NEW t \in Text, Len(s) = Len(t), \A i \in 1..Len(s) : s[i] = t[i] PROVE s = t
BY SeqEqual DEF Text

\* A text of two symbols, from texts of one.
LEMMA Pair == ASSUME NEW a \in Symbols, NEW b \in Symbols PROVE <<a, b>> = Join(Sym(a), Sym(b))
<1> DEFINE u == <<a, b>>
<1>1. u \in Text /\ Len(u) = 2 /\ u[1] = a /\ u[2] = b
  BY DEF Text
<1> HIDE DEF u
<1> DEFINE x == Sym(a)
           y == Sym(b)
           v == Join(x, y)
<1>2. x \in Text /\ Len(x) = 1 /\ x[1] = a /\ y \in Text /\ Len(y) = 1 /\ y[1] = b
  BY SymText
<1> HIDE DEF x, y
<1>3. v \in Text /\ Len(v) = 2 /\ v[1] = a /\ v[1 + 1] = b
  <2>1. 1 \in 1..Len(x) /\ 1 \in 1..Len(y)
    BY <1>2
  <2>2. v \in Text /\ Len(v) = Len(x) + Len(y) /\ v[1] = x[1] /\ v[Len(x) + 1] = y[1]
    BY <1>2, <2>1, JoinText, JoinLeft, JoinRight
  <2>3. QED
    BY <1>2, <2>2
<1> HIDE DEF v
<1>4. \A i \in 1..2 : u[i] = v[i]
  BY <1>1, <1>3
<1>5. u = v
  BY <1>1, <1>3, <1>4, TextEqual
<1>6. QED
  BY <1>5 DEF u, v, x, y

\* s begins with a.
Starts(s, a) == s # <<>> /\ s[1] = a

\* A text that is not empty has a first symbol.
LEMMA NotEmpty == ASSUME NEW s \in Text, s # <<>> PROVE Len(s) \in Nat \ {0} /\ 1 \in 1..Len(s) /\ s[1] \in Symbols
<1>1. Len(s) \in Nat \ {0}
  BY TextLength
<1>2. 1 \in 1..Len(s)
  BY <1>1
<1>3. QED
  BY <1>1, <1>2, ElementOfSeq DEF Text

\* A text begins as the first of its parts does.
LEMMA JoinStarts ==
  ASSUME NEW s \in Text, NEW t \in Text, s # <<>>
  PROVE  Join(s, t) # <<>> /\ Join(s, t)[1] = s[1]
<1>1. 1 \in 1..Len(s)
  BY NotEmpty
<1>2. QED
  BY <1>1, JoinLeft, JoinIsEmpty

\* A text that is not empty is its first symbol and a shorter text.
LEMMA FirstAndRest ==
  ASSUME NEW s \in Text, s # <<>>
  PROVE  s[1] \in Symbols /\ \E r \in Text : s = Join(Sym(s[1]), r) /\ Len(r) = Len(s) - 1
<1>1. Tail(s) \in Text /\ Len(Tail(s)) = Len(s) - 1 /\ \A i \in 1..Len(Tail(s)) : Tail(s)[i] = s[i + 1]
  BY HeadTailProperties DEF Text
<1>2. Len(s) \in Nat \ {0} /\ 1 \in 1..Len(s) /\ s[1] \in Symbols
  BY NotEmpty
<1> DEFINE c == Sym(s[1])
           r == Tail(s)
<1>3. c \in Text /\ Len(c) = 1 /\ c[1] = s[1]
  BY <1>2, SymText
<1> HIDE DEF c, r
<1>4. r \in Text /\ Len(r) = Len(s) - 1 /\ \A i \in 1..Len(r) : r[i] = s[i + 1]
  BY <1>1 DEF r
<1>5. Join(c, r) \in Text /\ Len(Join(c, r)) = Len(s)
  <2>1. Join(c, r) \in Text /\ Len(Join(c, r)) = Len(c) + Len(r)
    BY <1>3, <1>4, JoinText
  <2>2. QED
    BY <1>2, <1>3, <1>4, <2>1
<1>6. ASSUME NEW i \in 1..Len(s) PROVE Join(c, r)[i] = s[i]
  <2>1. CASE i = 1
    <3>1. 1 \in 1..Len(c)
      BY <1>3
    <3>2. QED
      BY <1>3, <1>4, <2>1, <3>1, JoinLeft
  <2>2. CASE i # 1
    <3> DEFINE j == i - 1
    <3>1. j \in 1..Len(r) /\ Len(c) + j = i /\ j + 1 = i
      BY <1>2, <1>3, <1>4, <2>2
    <3> HIDE DEF j
    <3>2. Join(c, r)[Len(c) + j] = r[j]
      BY <1>3, <1>4, <3>1, JoinRight
    <3>3. QED
      BY <1>4, <3>1, <3>2
  <2>3. QED
    BY <2>1, <2>2
<1>7. Join(c, r) = s
  BY <1>5, <1>6, TextEqual
<1>8. QED
  BY <1>2, <1>4, <1>7 DEF c

\* The symbol l is nowhere in c.
Without(c, l) == \A i \in 1..Len(c) : c[i] # l

\* A text of one symbol has no other symbol in it.
LEMMA SymWithout == ASSUME NEW a \in Symbols, NEW l, a # l PROVE Without(Sym(a), l)
<1>1. Len(Sym(a)) = 1 /\ Sym(a)[1] = a
  BY SymText
<1>2. QED
  BY <1>1 DEF Without

\* What is in neither of two texts is not in both together.
LEMMA JoinWithout ==
  ASSUME NEW s \in Text, NEW t \in Text, NEW l, Without(s, l), Without(t, l)
  PROVE  Without(Join(s, t), l)
<1>1. Len(s) \in Nat /\ Len(t) \in Nat /\ Len(Join(s, t)) = Len(s) + Len(t)
  BY TextLength, JoinText
<1>2. ASSUME NEW i \in 1..Len(Join(s, t)) PROVE Join(s, t)[i] # l
  <2>1. CASE i \in 1..Len(s)
    BY <2>1, JoinLeft DEF Without
  <2>2. CASE i \notin 1..Len(s)
    <3> DEFINE j == i - Len(s)
    <3>1. j \in 1..Len(t) /\ Len(s) + j = i
      BY <1>1, <2>2
    <3> HIDE DEF j
    <3>2. Join(s, t)[Len(s) + j] = t[j]
      BY <3>1, JoinRight
    <3>3. QED
      BY <3>1, <3>2 DEF Without
  <2>3. QED
    BY <2>1, <2>2
<1>3. QED
  BY <1>2 DEF Without

-----------------------------------------------------------------------------
(* ReplaceAll                                                              *)

\* ReplaceAll finds old at position n.
Here(body, old, n) == n + Len(old) - 1 <= Len(body) /\ SubSeq(body, n, n + Len(old) - 1) = old

\* What ReplaceAll adds at each position it stops at ...
ReplaceWord(body, old, new) == [n \in 1..Len(body) |-> IF Here(body, old, n) THEN new ELSE <<body[n]>>]

\* ... and how far it goes on from there.
ReplaceStep(body, old) == [n \in 1..Len(body) |-> IF Here(body, old, n) THEN Len(old) ELSE 1]

\* The right-hand side of the recursive definition in ReplaceAll.
Rest(body, old, new, f) ==
  [n \in 1..(Len(body) + 1) |->
     IF n > Len(body) THEN <<>>
     ELSE IF n + Len(old) - 1 <= Len(body) /\ SubSeq(body, n, n + Len(old) - 1) = old
     THEN new \o f[n + Len(old)]
     ELSE <<body[n]>> \o f[n + 1]]

\* ReplaceAll is a function that solves its recursive definition.
LEMMA ReplaceRest ==
  ASSUME NEW body, NEW old, NEW new
  PROVE  ReplaceAll(body, old, new) = (CHOOSE f : f = Rest(body, old, new, f))[1]
BY DEF ReplaceAll, Rest

\* ReplaceAll gets on and ends right behind the text: old is not empty, and it is
\* skipped only where all of it was found.
LEMMA ReplaceSteps ==
  ASSUME NEW body \in Text, NEW old \in Text, old # <<>>
  PROVE  IsSteps(Len(body), ReplaceStep(body, old))
<1>1. Len(body) \in Nat /\ Len(old) \in Nat \ {0}
  BY EmptySeq, LenProperties DEF Text
<1>2. ASSUME NEW n \in 1..Len(body)
      PROVE  /\ ReplaceStep(body, old)[n] \in Nat \ {0}
             /\ n + ReplaceStep(body, old)[n] <= Len(body) + 1
  BY <1>1 DEF ReplaceStep, Here
<1>3. QED
  BY <1>1, <1>2 DEF IsSteps, ReplaceStep

\* What ReplaceAll computes is a walk through the text.
LEMMA ReplaceIsWalk ==
  ASSUME NEW body \in Text, NEW old \in Text, NEW new \in Text, old # <<>>
  PROVE  \E f : /\ IsWalk(1, Len(body), ReplaceWord(body, old, new), ReplaceStep(body, old), f)
                /\ ReplaceAll(body, old, new) = f[1]
<1> DEFINE L == Len(body)
           word == ReplaceWord(body, old, new)
           step == ReplaceStep(body, old)
           Found1(f, n) == IF n > L THEN <<>> ELSE Join(word[n], f[n + step[n]])
           Found2(f, n) == IF n > L THEN <<>> ELSE IF Here(body, old, n) THEN Join(new, f[n + Len(old)])
                           ELSE Join(<<body[n]>>, f[n + 1])
<1>1. L \in Nat
  BY LenProperties DEF Text
<1>2. ASSUME NEW f, NEW n \in 1..(L + 1) PROVE Found1(f, n) = Found2(f, n)
  <2>1. CASE n > L
    BY <2>1
  <2>2. CASE ~(n > L)
    <3>1. n \in 1..L
      BY <1>1, <2>2
    <3>2. CASE Here(body, old, n)
      <4>1. word[n] = new /\ step[n] = Len(old)
        BY <3>1, <3>2 DEF ReplaceWord, ReplaceStep
      <4>2. QED
        BY <2>2, <3>2, <4>1
    <3>3. CASE ~Here(body, old, n)
      <4>1. word[n] = <<body[n]>> /\ step[n] = 1
        BY <3>1, <3>3 DEF ReplaceWord, ReplaceStep
      <4>2. QED
        BY <2>2, <3>3, <4>1
    <3>4. QED
      BY <3>2, <3>3
  <2>3. QED
    BY <2>1, <2>2
<1>3. ASSUME NEW f PROVE Rest(body, old, new, f) = [n \in 1..(L + 1) |-> Found2(f, n)]
  BY DEF Rest, Join, Here
<1>4. ASSUME NEW f PROVE IsWalk(1, L, word, step, f) <=> f = Rest(body, old, new, f)
  <2>1. IsWalk(1, L, word, step, f) <=> f = [n \in 1..(L + 1) |-> Found1(f, n)]
    BY DEF IsWalk
  <2>2. [n \in 1..(L + 1) |-> Found1(f, n)] = [n \in 1..(L + 1) |-> Found2(f, n)]
    <3> HIDE DEF Found1, Found2
    <3>1. QED
      BY <1>2
  <2>3. QED
    BY <1>3, <2>1, <2>2
<1>5. PICK f : IsWalk(1, L, word, step, f)
  BY <1>1, ReplaceSteps, WalkExists
<1> DEFINE r == CHOOSE h : h = Rest(body, old, new, h)
<1>6. r = Rest(body, old, new, r)
  BY <1>4, <1>5
<1>7. ReplaceAll(body, old, new) = r[1]
  BY ReplaceRest
<1> HIDE DEF r
<1>8. QED
  BY <1>4, <1>6, <1>7

\* ReplaceAll makes texts of texts.
LEMMA ReplaceType ==
  ASSUME NEW body \in Text, NEW old \in Text, NEW new \in Text, old # <<>>
  PROVE  ReplaceAll(body, old, new) \in Text
<1> DEFINE word == ReplaceWord(body, old, new)
           step == ReplaceStep(body, old)
<1>1. PICK f : IsWalk(1, Len(body), word, step, f) /\ ReplaceAll(body, old, new) = f[1]
  BY ReplaceIsWalk
<1>2. Len(body) \in Nat
  BY LenProperties DEF Text
<1>3. \A n \in 1..Len(body) : word[n] \in Seq(Symbols)
  <2>1. \A n \in 1..Len(body) : body[n] \in Symbols
    BY ElementOfSeq DEF Text
  <2>2. \A n \in 1..Len(body) : <<body[n]>> \in Seq(Symbols)
    BY <2>1
  <2>3. QED
    BY <2>2 DEF ReplaceWord, Text
<1>4. IsSteps(Len(body), step)
  BY ReplaceSteps
<1> HIDE DEF word, step
<1>5. \A n \in 1..(Len(body) + 1) : f[n] \in Seq(Symbols)
  BY <1>1, <1>2, <1>3, <1>4, WalkType
<1>6. QED
  BY <1>1, <1>2, <1>5, IsFirst DEF Text

\* old is found behind c just where it is found without c in front.
LEMMA HereInRest ==
  ASSUME NEW c \in Text, NEW r \in Text, NEW old \in Text, old # <<>>, NEW n \in 1..Len(r)
  PROVE  /\ Here(c \o r, old, Len(c) + n) <=> Here(r, old, n)
         /\ (c \o r)[Len(c) + n] = r[n]
<1> DEFINE m == n + Len(old) - 1
<1>1. Len(c) \in Nat /\ Len(r) \in Nat /\ Len(old) \in Nat \ {0} /\ Len(c \o r) = Len(c) + Len(r)
  BY EmptySeq, LenProperties, ConcatProperties DEF Text
<1>2. (c \o r)[Len(c) + n] = r[n]
  BY <1>1, ConcatProperties DEF Text
<1>3. Len(c) + n + Len(old) - 1 = Len(c) + m /\ (Len(c) + m <= Len(c) + Len(r) <=> m <= Len(r))
  BY <1>1
<1>4. ASSUME m <= Len(r) PROVE SubSeq(c \o r, Len(c) + n, Len(c) + m) = SubSeq(r, n, m)
  <2> DEFINE i == Len(c) + n
             j == Len(c) + m
  <2>1. /\ i \in (Len(c) + 1)..(Len(c) + Len(r)) /\ i - Len(c) = n
        /\ j \in (Len(c) + 1)..(Len(c) + Len(r)) /\ j - Len(c) = m
    BY <1>1, <1>4
  <2> HIDE DEF i, j, m
  <2>2. SubSeq(c \o r, i, j) = SubSeq(r, i - Len(c), j - Len(c))
    BY <2>1, SubSeqOfConcat2 DEF Text
  <2>3. QED
    BY <2>1, <2>2 DEF i, j
<1>5. QED
  BY <1>1, <1>2, <1>3, <1>4 DEF Here

\* Behind c, ReplaceAll goes on as if c had not been there.
LEMMA ReplaceFrom ==
  ASSUME NEW c \in Text, NEW r \in Text, NEW old \in Text, NEW new \in Text, old # <<>>, NEW f,
         IsWalk(1, Len(c \o r), ReplaceWord(c \o r, old, new), ReplaceStep(c \o r, old), f)
  PROVE  f[Len(c) + 1] = ReplaceAll(r, old, new)
<1> DEFINE L == Len(c \o r)
           M == Len(r)
           d == Len(c)
           word == ReplaceWord(c \o r, old, new)
           step == ReplaceStep(c \o r, old)
           word2 == ReplaceWord(r, old, new)
           step2 == ReplaceStep(r, old)
<1>1. L \in Nat /\ M \in Nat /\ d \in Nat /\ L = d + M /\ c \o r \in Text
  BY LenProperties, ConcatProperties DEF Text
<1>2. PICK g : IsWalk(1, M, word2, step2, g) /\ ReplaceAll(r, old, new) = g[1]
  BY ReplaceIsWalk
<1>3. IsSteps(L, step) /\ IsSteps(M, step2)
  BY <1>1, ReplaceSteps
<1>4. ASSUME NEW n \in 1..M PROVE word2[n] = word[d + n] /\ step2[n] = step[d + n]
  <2>1. d + n \in 1..L
    BY <1>1
  <2>2. (Here(c \o r, old, d + n) <=> Here(r, old, n)) /\ (c \o r)[d + n] = r[n]
    BY HereInRest
  <2>3. QED
    BY <2>1, <2>2 DEF ReplaceWord, ReplaceStep
<1> HIDE DEF L, M, d, word, step, word2, step2
<1>5. IsWalk(1, L, word, step, f)
  BY DEF L, word, step
<1>6. \A n \in 1..(M + 1) : g[n] = f[d + n]
  BY <1>1, <1>2, <1>3, <1>4, <1>5, WalkShift
<1>7. g[1] = f[d + 1]
  BY <1>1, <1>6, IsFirst
<1>8. QED
  BY <1>2, <1>7 DEF d

\* There is nothing to replace in an empty text.
LEMMA ReplaceEmpty ==
  ASSUME NEW old \in Text, NEW new \in Text, old # <<>>
  PROVE  ReplaceAll(<<>>, old, new) = <<>>
<1>1. <<>> \in Text /\ Len(<<>>) = 0
  BY EmptySeq DEF Text
<1>2. PICK f : /\ IsWalk(1, Len(<<>>), ReplaceWord(<<>>, old, new), ReplaceStep(<<>>, old), f)
               /\ ReplaceAll(<<>>, old, new) = f[1]
  BY <1>1, ReplaceIsWalk
<1>3. f[0 + 1] = <<>>
  BY <1>1, <1>2, IsFirst, WalkPointwise
<1>4. QED
  BY <1>2, <1>3

\* Where the text begins with old, new takes its place.
LEMMA ReplaceMatch ==
  ASSUME NEW r \in Text, NEW old \in Text, NEW new \in Text, old # <<>>
  PROVE  ReplaceAll(Join(old, r), old, new) = Join(new, ReplaceAll(r, old, new))
<1> DEFINE body == old \o r
<1>1. body \in Text /\ Len(body) = Len(old) + Len(r) /\ Len(old) \in Nat \ {0} /\ Len(r) \in Nat
  BY EmptySeq, LenProperties, ConcatProperties DEF Text
<1>2. PICK f : /\ IsWalk(1, Len(body), ReplaceWord(body, old, new), ReplaceStep(body, old), f)
               /\ ReplaceAll(body, old, new) = f[1]
  BY <1>1, ReplaceIsWalk
<1>3. SubSeq(body, 1, Len(old)) = old
  <2>1. 1 \in 1..Len(old) /\ Len(old) \in 1..Len(old)
    BY <1>1
  <2>2. SubSeq(body, 1, Len(old)) = SubSeq(old, 1, Len(old))
    BY <2>1, SubSeqOfConcat1 DEF Text
  <2>3. QED
    BY <2>2, SubSeqFull DEF Text
<1>4. 1 \in 1..Len(body) /\ 1 + Len(old) - 1 = Len(old)
  BY <1>1
<1>5. Here(body, old, 1)
  BY <1>1, <1>3, <1>4 DEF Here
<1>6. f[1] = Join(ReplaceWord(body, old, new)[1], f[1 + ReplaceStep(body, old)[1]])
  BY <1>1, <1>2, <1>4, IsFirst, WalkPointwise
<1>7. ReplaceWord(body, old, new)[1] = new /\ 1 + ReplaceStep(body, old)[1] = Len(old) + 1
  BY <1>1, <1>4, <1>5 DEF ReplaceWord, ReplaceStep
<1>8. f[Len(old) + 1] = ReplaceAll(r, old, new)
  BY <1>2, ReplaceFrom
<1>9. QED
  BY <1>2, <1>6, <1>7, <1>8 DEF Join

\* Where it does not, one symbol is kept.
LEMMA ReplaceOther ==
  ASSUME NEW a \in Symbols, NEW r \in Text, NEW old \in Text, NEW new \in Text, old # <<>>,
         \A t \in Text : Join(Sym(a), r) # Join(old, t)
  PROVE  ReplaceAll(Join(Sym(a), r), old, new) = Join(Sym(a), ReplaceAll(r, old, new))
<1> DEFINE c == Sym(a)
           body == c \o r
<1>0. c \in Text /\ Len(c) = 1
  BY SymText
<1>1. /\ c \in Text /\ Len(c) = 1
      /\ body \in Text /\ Len(body) = 1 + Len(r) /\ Len(old) \in Nat \ {0} /\ Len(r) \in Nat
  <2> HIDE DEF c
  <2>1. QED
    BY <1>0, EmptySeq, LenProperties, ConcatProperties DEF Text
<1>2. PICK f : /\ IsWalk(1, Len(body), ReplaceWord(body, old, new), ReplaceStep(body, old), f)
               /\ ReplaceAll(body, old, new) = f[1]
  BY <1>1, ReplaceIsWalk
<1>3. 1 \in 1..Len(body) /\ 1 + Len(old) - 1 = Len(old) /\ body[1] = a
  BY <1>1, SymText, ConcatProperties DEF Text
<1>4. ~Here(body, old, 1)
  <2> SUFFICES ASSUME Len(old) <= Len(body), SubSeq(body, 1, Len(old)) = old PROVE FALSE
    BY <1>1, <1>3 DEF Here
  <2> DEFINE t == SubSeq(body, Len(old) + 1, Len(body))
  <2>1. t \in Text
    <3>1. \A i \in (Len(old) + 1)..Len(body) : body[i] \in Symbols
      BY <1>1, ElementOfSeq DEF Text
    <3>2. Len(old) + 1 \in Int /\ Len(body) \in Int
      BY <1>1
    <3> HIDE DEF body
    <3>3. QED
      BY <3>1, <3>2, SubSeqProperties DEF Text
  <2>2. SubSeq(body, 1, Len(old)) \o t = SubSeq(body, 1, Len(body))
    <3>1. /\ 1 \in 1..(Len(body) + 1) /\ Len(old) \in (1 - 1)..Len(body)
          /\ Len(body) \in Len(old)..Len(body)
      BY <1>1
    <3> HIDE DEF body
    <3>2. QED
      BY <1>1, <3>1, ConcatAdjacentSubSeq DEF Text
  <2>3. SubSeq(body, 1, Len(body)) = body
    BY <1>1, SubSeqFull DEF Text
  <2>4. QED
    BY <2>1, <2>2, <2>3 DEF Join
<1> HIDE DEF c
<1>5. f[1] = Join(ReplaceWord(body, old, new)[1], f[1 + ReplaceStep(body, old)[1]])
  BY <1>1, <1>2, <1>3, IsFirst, WalkPointwise
<1>6. ReplaceWord(body, old, new)[1] = c /\ 1 + ReplaceStep(body, old)[1] = Len(c) + 1
  BY <1>1, <1>3, <1>4 DEF c, Sym, ReplaceWord, ReplaceStep
<1>7. f[Len(c) + 1] = ReplaceAll(r, old, new)
  BY <1>1, <1>2, ReplaceFrom
<1>8. QED
  BY <1>2, <1>5, <1>6, <1>7 DEF Join, c

\* If old and new begin alike, replacing leaves the beginning of a text as it was.
LEMMA ReplaceFirst ==
  ASSUME NEW s \in Text, NEW old \in Text, NEW new \in Text, old # <<>>, new # <<>>, new[1] = old[1], NEW a
  PROVE  Starts(ReplaceAll(s, old, new), a) <=> Starts(s, a)
<1>1. CASE s = <<>>
  BY <1>1, ReplaceEmpty
<1>2. CASE \E t \in Text : s = Join(old, t)
  <2>1. PICK t \in Text : s = Join(old, t)
    BY <1>2
  <2>2. ReplaceAll(s, old, new) = Join(new, ReplaceAll(t, old, new))
    BY <2>1, ReplaceMatch
  <2>3. ReplaceAll(t, old, new) \in Text
    BY ReplaceType
  <2>4. s # <<>> /\ s[1] = old[1]
    BY <2>1, JoinStarts
  <2>5. ReplaceAll(s, old, new) # <<>> /\ ReplaceAll(s, old, new)[1] = new[1]
    BY <2>2, <2>3, JoinStarts
  <2>6. QED
    BY <2>4, <2>5 DEF Starts
<1>3. CASE s # <<>> /\ \A t \in Text : s # Join(old, t)
  <2>1. PICK r \in Text : s = Join(Sym(s[1]), r)
    BY <1>3, FirstAndRest
  <2> DEFINE b == s[1]
  <2>2. b \in Symbols
    BY <1>3, FirstAndRest
  <2>3. s = Join(Sym(b), r)
    BY <2>1
  <2> HIDE DEF b
  <2>4. ReplaceAll(Join(Sym(b), r), old, new) = Join(Sym(b), ReplaceAll(r, old, new))
    BY <1>3, <2>2, <2>3, ReplaceOther
  <2>5. ReplaceAll(r, old, new) \in Text /\ Sym(b) \in Text /\ Sym(b) # <<>> /\ Sym(b)[1] = b
    BY <2>2, ReplaceType, SymText
  <2>6. ReplaceAll(s, old, new) # <<>> /\ ReplaceAll(s, old, new)[1] = b
    BY <2>3, <2>4, <2>5, JoinStarts
  <2>7. QED
    BY <1>3, <2>6 DEF Starts, b
<1>4. QED
  BY <1>1, <1>2, <1>3

\* The first two symbols are enough to see that a text does not begin with old.
LEMMA ReplaceSymbol ==
  ASSUME NEW a \in Symbols, NEW r \in Text, NEW old \in Text, NEW new \in Text, Len(old) >= 2,
         ~(a = old[1] /\ Starts(r, old[2]))
  PROVE  ReplaceAll(Join(Sym(a), r), old, new) = Join(Sym(a), ReplaceAll(r, old, new))
<1> DEFINE c == Sym(a)
<1>1. c \in Text /\ Len(c) = 1 /\ c[1] = a
  BY SymText
<1>2. Len(old) \in Nat /\ old # <<>> /\ 1 \in 1..Len(old) /\ 2 \in 1..Len(old)
  BY TextLength
<1> HIDE DEF c
<1>3. ASSUME NEW t \in Text, Join(c, r) = Join(old, t) PROVE FALSE
  <2>1. Join(old, t)[1] = old[1] /\ Join(old, t)[2] = old[2] /\ Len(Join(old, t)) = Len(old) + Len(t) /\ Len(t) \in Nat
    BY <1>2, JoinText, JoinLeft, TextLength
  <2>2. Len(Join(c, r)) = 1 + Len(r) /\ Len(r) \in Nat
    BY <1>1, JoinText, TextLength
  <2>3. Len(r) >= 1
    BY <1>2, <1>3, <2>1, <2>2
  <2>4. r # <<>> /\ 1 \in 1..Len(r) /\ 1 \in 1..Len(c) /\ Len(c) + 1 = 2
    BY <1>1, <2>2, <2>3, TextLength
  <2>5. Join(c, r)[1] = a /\ Join(c, r)[Len(c) + 1] = r[1]
    BY <1>1, <2>4, JoinLeft, JoinRight
  <2>6. QED
    BY <1>3, <2>1, <2>4, <2>5 DEF Starts
<1>4. QED
  BY <1>2, <1>3, ReplaceOther DEF c

\* Text without the first symbol of old goes through as it is.
LEMMA ReplacePass ==
  ASSUME NEW c \in Text, NEW r \in Text, NEW old \in Text, NEW new \in Text, old # <<>>,
         \A i \in 1..Len(c) : c[i] # old[1]
  PROVE  ReplaceAll(Join(c, r), old, new) = Join(c, ReplaceAll(r, old, new))
<1> DEFINE Passes(w) == (\A i \in 1..Len(w) : w[i] # old[1]) =>
                          ReplaceAll(Join(w, r), old, new) = Join(w, ReplaceAll(r, old, new))
           T == {n \in Nat : \A w \in Text : Len(w) = n => Passes(w)}
           z == ReplaceAll(r, old, new)
<1>0. z \in Text
  BY ReplaceType
<1> HIDE DEF z
<1>1. ASSUME NEW n \in Nat, \A m \in Nat : m < n => m \in T PROVE n \in T
  <2> SUFFICES ASSUME NEW w \in Text, Len(w) = n, \A i \in 1..Len(w) : w[i] # old[1]
               PROVE  ReplaceAll(Join(w, r), old, new) = Join(w, z)
    BY DEF z
  <2>1. CASE w = <<>>
    BY <1>0, <2>1, JoinEmpty DEF z
  <2>2. CASE w # <<>>
    <3> DEFINE b == w[1]
               a == Sym(b)
    <3>1. PICK v \in Text : w = Join(a, v) /\ Len(v) = Len(w) - 1
      BY <2>2, FirstAndRest
    <3>2. b \in Symbols /\ b # old[1] /\ Len(w) \in Nat \ {0}
      BY <2>2, NotEmpty
    <3> HIDE DEF b
    <3>3. a \in Text /\ Len(a) = 1 /\ a # <<>> /\ a[1] = b
      BY <3>2, SymText
    <3> HIDE DEF a
    <3>4. Len(v) \in Nat /\ Len(v) < n /\ Len(w) = 1 + Len(v)
      BY <3>1, <3>2, TextLength
    <3>5. \A i \in 1..Len(v) : v[i] # old[1]
      <4> TAKE i \in 1..Len(v)
      <4>1. Join(a, v)[Len(a) + i] = v[i]
        BY <3>3, JoinRight
      <4>2. Len(a) + i \in 1..Len(w)
        BY <3>3, <3>4
      <4>3. QED
        BY <3>1, <4>1, <4>2
    <3>6. ReplaceAll(Join(v, r), old, new) = Join(v, z)
      BY <1>1, <3>4, <3>5 DEF z
    <3>7. Join(v, r) \in Text /\ Join(w, r) = Join(a, Join(v, r)) /\ Join(w, z) = Join(a, Join(v, z))
      <4>1. Join(v, r) \in Text
        BY JoinText
      <4>2. Join(Join(a, v), r) = Join(a, Join(v, r))
        BY <3>3, JoinAssociative
      <4>3. Join(Join(a, v), z) = Join(a, Join(v, z))
        BY <1>0, <3>3, JoinAssociative
      <4>4. QED
        BY <3>1, <4>1, <4>2, <4>3
    <3>8. ReplaceAll(Join(a, Join(v, r)), old, new) = Join(a, ReplaceAll(Join(v, r), old, new))
      <4>1. ASSUME NEW t \in Text PROVE Join(a, Join(v, r)) # Join(old, t)
        <5>1. Join(old, t)[1] = old[1] /\ Join(a, Join(v, r))[1] = b
          BY <3>3, <3>7, JoinStarts
        <5>2. QED
          BY <3>2, <5>1
      <4>2. QED
        BY <3>2, <3>7, <4>1, ReplaceOther DEF a
    <3>9. QED
      BY <3>6, <3>7, <3>8
  <2>3. QED
    BY <2>1, <2>2
<1>2. Len(c) \in T
  <2>1. Len(c) \in Nat
    BY TextLength
  <2> HIDE DEF T
  <2>2. QED
    BY <1>1, <2>1, StrongInduction
<1>3. QED
  BY <1>2

-----------------------------------------------------------------------------
(* The replacements of the proxy                                           *)

\* A link l to the root h, as the proxy finds it in a page ...
LinkTo(l, h) == Join(Sym(l), Sym(h))

\* ... and the same link with the prefix p put in.
Led(l, h, p) == Join(Join(Sym(l), p), Sym(h))

\* The first two replacements of replace_relative_html_links put the prefix in ...
PutIn(s, l, h, p) == ReplaceAll(s, LinkTo(l, h), Led(l, h, p))

\* ... and the other two take it back from links that begin with h twice.
TakeBack(s, l, h, p) == ReplaceAll(s, Join(Led(l, h, p), Sym(h)), Join(LinkTo(l, h), Sym(h)))

\* A prefix as the replacements for l and h need it: it begins with h, and nothing
\* in it looks like a link of their kind.
Leads(l, h, p) ==
  /\ l \in Symbols /\ h \in Symbols /\ l # h
  /\ p \in Text /\ Starts(p, h) /\ Without(p, l)

\* A link is its two symbols.
LEMMA LinkText ==
  ASSUME NEW l \in Symbols, NEW h \in Symbols
  PROVE  /\ LinkTo(l, h) \in Text /\ Len(LinkTo(l, h)) = 2 /\ LinkTo(l, h) # <<>>
         /\ LinkTo(l, h)[1] = l /\ LinkTo(l, h)[2] = h
<1> DEFINE x == Sym(l)
           y == Sym(h)
<1>1. x \in Text /\ Len(x) = 1 /\ x[1] = l /\ x # <<>> /\ y \in Text /\ Len(y) = 1 /\ y[1] = h
  BY SymText
<1> HIDE DEF x, y
<1>2. 1 \in 1..Len(x) /\ 1 \in 1..Len(y)
  BY <1>1
<1>3. Join(x, y) \in Text /\ Len(Join(x, y)) = Len(x) + Len(y)
  BY <1>1, JoinText
<1>4. Join(x, y)[1] = x[1] /\ Join(x, y)[Len(x) + 1] = y[1]
  BY <1>1, <1>2, JoinLeft, JoinRight
<1>5. Join(x, y) # <<>>
  BY <1>1, JoinIsEmpty
<1>6. QED
  BY <1>1, <1>3, <1>4, <1>5 DEF LinkTo, x, y

\* A link with the prefix is longer, and begins as it did without.
LEMMA LedText ==
  ASSUME NEW l, NEW h, NEW p, Leads(l, h, p)
  PROVE  /\ Led(l, h, p) \in Text /\ Led(l, h, p) # <<>> /\ Len(Led(l, h, p)) \in Nat /\ Len(Led(l, h, p)) >= 3
         /\ Led(l, h, p)[1] = l /\ Led(l, h, p)[2] = h
<1> DEFINE x == Sym(l)
           y == Sym(h)
           z == Join(x, p)
<1>1. x \in Text /\ Len(x) = 1 /\ x[1] = l /\ x # <<>> /\ y \in Text /\ Len(y) = 1 /\ y[1] = h
  BY SymText DEF Leads
<1> HIDE DEF x, y
<1>2. p \in Text /\ p # <<>> /\ Len(p) \in Nat \ {0} /\ p[1] = h
  BY NotEmpty DEF Leads, Starts
<1>3. z \in Text /\ Len(z) = Len(x) + Len(p)
  BY <1>1, <1>2, JoinText
<1>4. z[1] = x[1] /\ z[Len(x) + 1] = p[1]
  <2>1. 1 \in 1..Len(x) /\ 1 \in 1..Len(p)
    BY <1>1, <1>2
  <2>2. QED
    BY <1>1, <1>2, <2>1, JoinLeft, JoinRight
<1> HIDE DEF z
<1>5. Join(z, y) \in Text /\ Len(Join(z, y)) = Len(z) + Len(y)
  BY <1>1, <1>3, JoinText
<1>6. Join(z, y)[1] = z[1] /\ Join(z, y)[2] = z[2]
  <2>1. 1 \in 1..Len(z) /\ 2 \in 1..Len(z)
    BY <1>1, <1>2, <1>3
  <2>2. QED
    BY <1>1, <1>3, <2>1, JoinLeft
<1>7. Join(z, y) # <<>> /\ Len(Join(z, y)) \in Nat /\ Len(Join(z, y)) >= 3
  <2>1. Len(Join(z, y)) \in Nat /\ Len(Join(z, y)) >= 3
    BY <1>1, <1>2, <1>3, <1>5
  <2>2. QED
    BY <1>5, <2>1, TextLength
<1>8. QED
  BY <1>1, <1>2, <1>4, <1>5, <1>6, <1>7 DEF Led, x, y, z

\* So do the pattern by which it is found again and what takes its place.
LEMMA BackText ==
  ASSUME NEW l, NEW h, NEW p, Leads(l, h, p), NEW led, led = Join(Led(l, h, p), Sym(h)),
         NEW link, link = Join(LinkTo(l, h), Sym(h))
  PROVE  /\ led \in Text /\ led # <<>> /\ Len(led) = Len(Led(l, h, p)) + 1 /\ Len(led) >= 2
         /\ led[1] = l /\ led[2] = h /\ led[Len(Led(l, h, p)) + 1] = h
         /\ link \in Text /\ link # <<>> /\ link[1] = l
<1> DEFINE x == Led(l, h, p)
           y == Sym(h)
           z == LinkTo(l, h)
<1>1. /\ x \in Text /\ x # <<>> /\ Len(x) \in Nat /\ Len(x) >= 3 /\ x[1] = l /\ x[2] = h
      /\ y \in Text /\ Len(y) = 1 /\ y[1] = h
      /\ z \in Text /\ z # <<>> /\ z[1] = l
  BY SymText, LinkText, LedText DEF Leads
<1> HIDE DEF x, y, z
<1>2. led = Join(x, y) /\ link = Join(z, y)
  BY DEF x, y, z
<1>3. led \in Text /\ Len(led) = Len(x) + Len(y)
  BY <1>1, <1>2, JoinText
<1>4. link \in Text /\ link # <<>> /\ link[1] = l
  BY <1>1, <1>2, JoinText, JoinStarts
<1>5. led # <<>> /\ led[1] = l
  BY <1>1, <1>2, JoinStarts
<1>6. led[2] = h /\ led[Len(x) + 1] = h
  <2>1. 2 \in 1..Len(x) /\ 1 \in 1..Len(y)
    BY <1>1
  <2>2. Join(x, y)[2] = x[2]
    BY <1>1, <2>1, JoinLeft
  <2>3. Join(x, y)[Len(x) + 1] = y[1]
    BY <1>1, <2>1, JoinRight
  <2>4. QED
    BY <1>1, <1>2, <2>2, <2>3
<1>7. QED
  BY <1>1, <1>3, <1>4, <1>5, <1>6 DEF x

\* What putting the prefix in does to a text that begins with a link, with another
\* symbol, or with anything that has no link in it; the beginning stays as it was.
LEMMA PutInSteps ==
  ASSUME NEW l, NEW h, NEW p, Leads(l, h, p), NEW t \in Text
  PROVE  /\ PutIn(t, l, h, p) \in Text
         /\ \A a : Starts(PutIn(t, l, h, p), a) <=> Starts(t, a)
         /\ PutIn(Join(LinkTo(l, h), t), l, h, p) = Join(Led(l, h, p), PutIn(t, l, h, p))
         /\ \A a \in Symbols : ~(a = l /\ Starts(t, h)) =>
              PutIn(Join(Sym(a), t), l, h, p) = Join(Sym(a), PutIn(t, l, h, p))
         /\ \A c \in Text : Without(c, l) => PutIn(Join(c, t), l, h, p) = Join(c, PutIn(t, l, h, p))
<1> DEFINE old == LinkTo(l, h)
           new == Led(l, h, p)
<1>1. old \in Text /\ Len(old) = 2 /\ old # <<>> /\ old[1] = l /\ old[2] = h
  BY LinkText DEF Leads
<1>2. new \in Text /\ new # <<>> /\ new[1] = l
  BY LedText
<1> HIDE DEF old, new
<1>3. \A s : PutIn(s, l, h, p) = ReplaceAll(s, old, new)
  BY DEF PutIn, old, new
<1>4. ReplaceAll(t, old, new) \in Text
  BY <1>1, <1>2, ReplaceType
<1>5. \A a : Starts(ReplaceAll(t, old, new), a) <=> Starts(t, a)
  BY <1>1, <1>2, ReplaceFirst
<1>6. ReplaceAll(Join(old, t), old, new) = Join(new, ReplaceAll(t, old, new))
  BY <1>1, <1>2, ReplaceMatch
<1>7. ASSUME NEW a \in Symbols, ~(a = l /\ Starts(t, h))
      PROVE  ReplaceAll(Join(Sym(a), t), old, new) = Join(Sym(a), ReplaceAll(t, old, new))
  BY <1>1, <1>2, <1>7, ReplaceSymbol
<1>8. ASSUME NEW c \in Text, Without(c, l)
      PROVE  ReplaceAll(Join(c, t), old, new) = Join(c, ReplaceAll(t, old, new))
  BY <1>1, <1>2, <1>8, ReplacePass DEF Without
<1>9. QED
  BY <1>3, <1>4, <1>5, <1>6, <1>7, <1>8 DEF old, new

\* The same for taking it back, but for the links themselves.
LEMMA TakeBackSteps ==
  ASSUME NEW l, NEW h, NEW p, Leads(l, h, p), NEW t \in Text
  PROVE  /\ TakeBack(t, l, h, p) \in Text
         /\ \A a : Starts(TakeBack(t, l, h, p), a) <=> Starts(t, a)
         /\ \A a \in Symbols : ~(a = l /\ Starts(t, h)) =>
              TakeBack(Join(Sym(a), t), l, h, p) = Join(Sym(a), TakeBack(t, l, h, p))
         /\ \A c \in Text : Without(c, l) => TakeBack(Join(c, t), l, h, p) = Join(c, TakeBack(t, l, h, p))
<1> DEFINE old == Join(Led(l, h, p), Sym(h))
           new == Join(LinkTo(l, h), Sym(h))
<1>1. old \in Text /\ Len(old) >= 2 /\ old # <<>> /\ old[1] = l /\ old[2] = h
  BY BackText
<1>2. new \in Text /\ new # <<>> /\ new[1] = l
  BY BackText
<1> HIDE DEF old, new
<1>3. \A s : TakeBack(s, l, h, p) = ReplaceAll(s, old, new)
  BY DEF TakeBack, old, new
<1>4. ReplaceAll(t, old, new) \in Text
  BY <1>1, <1>2, ReplaceType
<1>5. \A a : Starts(ReplaceAll(t, old, new), a) <=> Starts(t, a)
  BY <1>1, <1>2, ReplaceFirst
<1>7. ASSUME NEW a \in Symbols, ~(a = l /\ Starts(t, h))
      PROVE  ReplaceAll(Join(Sym(a), t), old, new) = Join(Sym(a), ReplaceAll(t, old, new))
  BY <1>1, <1>2, <1>7, ReplaceSymbol
<1>8. ASSUME NEW c \in Text, Without(c, l)
      PROVE  ReplaceAll(Join(c, t), old, new) = Join(c, ReplaceAll(t, old, new))
  BY <1>1, <1>2, <1>8, ReplacePass DEF Without
<1>9. QED
  BY <1>3, <1>4, <1>5, <1>7, <1>8

\* Behind a link that now has the prefix comes another h: it named another host, and
\* gets its old form back.
LEMMA TakenBack ==
  ASSUME NEW l, NEW h, NEW p, Leads(l, h, p), NEW t \in Text, Starts(t, h)
  PROVE  TakeBack(Join(Led(l, h, p), t), l, h, p) = Join(LinkTo(l, h), TakeBack(t, l, h, p))
<1> DEFINE x == Led(l, h, p)
           y == Sym(h)
           z == LinkTo(l, h)
           old == Join(x, y)
           new == Join(z, y)
<1>1. /\ x \in Text /\ y \in Text /\ z \in Text /\ h \in Symbols
  BY SymText, LinkText, LedText DEF Leads
<1>2. old \in Text /\ old # <<>> /\ new \in Text
  BY BackText
<1>3. PICK v \in Text : t = Join(Sym(t[1]), v)
  BY FirstAndRest DEF Starts
<1>4. t = Join(y, v)
  BY <1>3 DEF Starts
<1>5. TakeBack(v, l, h, p) \in Text /\ TakeBack(t, l, h, p) = Join(y, TakeBack(v, l, h, p))
  BY <1>1, <1>4, TakeBackSteps DEF Leads
<1> HIDE DEF x, y, z
<1>6. Join(x, t) = Join(old, v)
  BY <1>1, <1>4, JoinAssociative
<1>7. ReplaceAll(Join(old, v), old, new) = Join(new, ReplaceAll(v, old, new))
  <2> HIDE DEF old, new
  <2>1. QED
    BY <1>2, ReplaceMatch
<1>8. TakeBack(Join(x, t), l, h, p) = Join(new, TakeBack(v, l, h, p))
  BY <1>6, <1>7 DEF TakeBack, x, y, z
<1>9. Join(new, TakeBack(v, l, h, p)) = Join(z, Join(y, TakeBack(v, l, h, p)))
  BY <1>1, <1>5, JoinAssociative
<1>10. QED
  BY <1>5, <1>8, <1>9 DEF x, z

\* The prefix and what follows, without the symbol in front of them.
LEMMA LedFirst ==
  ASSUME NEW l, NEW h, NEW p, Leads(l, h, p), NEW t \in Text
  PROVE  /\ Join(p, Sym(h)) \in Text /\ Without(Join(p, Sym(h)), l)
         /\ Join(Led(l, h, p), t) = Join(Sym(l), Join(Join(p, Sym(h)), t))
<1> DEFINE x == Sym(l)
           y == Sym(h)
           w == Join(p, y)
<1>1. x \in Text /\ y \in Text /\ p \in Text /\ Without(y, l)
  BY SymText, SymWithout DEF Leads
<1> HIDE DEF x, y
<1>2. w \in Text /\ Without(w, l)
  BY <1>1, JoinText, JoinWithout DEF Leads
<1>3. Join(Join(x, p), y) = Join(x, w)
  BY <1>1, JoinAssociative
<1> HIDE DEF w
<1>4. Join(Join(x, w), t) = Join(x, Join(w, t))
  BY <1>1, <1>2, JoinAssociative
<1>5. QED
  BY <1>2, <1>3, <1>4 DEF Led, x, y, w

\* Nothing of the kind follows: the link keeps its prefix.
LEMMA NotTakenBack ==
  ASSUME NEW l, NEW h, NEW p, Leads(l, h, p), NEW t \in Text, ~Starts(t, h)
  PROVE  TakeBack(Join(Led(l, h, p), t), l, h, p) = Join(Led(l, h, p), TakeBack(t, l, h, p))
<1> DEFINE x == Led(l, h, p)
           w == Join(p, Sym(h))
           old == Join(x, Sym(h))
           new == Join(LinkTo(l, h), Sym(h))
           u == Join(w, t)
<1>1. l \in Symbols /\ x \in Text /\ Len(x) \in Nat
  BY LedText DEF Leads
<1>2. w \in Text /\ Without(w, l) /\ Join(x, t) = Join(Sym(l), u)
  BY LedFirst
<1>3. /\ old \in Text /\ old # <<>> /\ Len(old) = Len(x) + 1 /\ old[Len(x) + 1] = h
      /\ new \in Text
  BY BackText
<1>4. TakeBack(t, l, h, p) \in Text /\ TakeBack(u, l, h, p) = Join(w, TakeBack(t, l, h, p))
  BY <1>2, TakeBackSteps
<1>5. \A s : TakeBack(s, l, h, p) = ReplaceAll(s, old, new)
  BY DEF TakeBack
<1> HIDE DEF x, w, old, new
<1>6. u \in Text
  BY <1>2, JoinText
<1>7. ASSUME NEW r \in Text, Join(x, t) = Join(old, r) PROVE FALSE
  <2>1. Len(Join(x, t)) = Len(x) + Len(t) /\ Len(Join(old, r)) = Len(old) + Len(r) /\ Len(t) \in Nat /\ Len(r) \in Nat
    BY <1>1, <1>3, JoinText, TextLength
  <2>2. Len(t) >= 1
    BY <1>1, <1>3, <1>7, <2>1
  <2>3. t # <<>> /\ 1 \in 1..Len(t) /\ Len(x) + 1 \in 1..Len(old)
    BY <1>1, <1>3, <2>1, <2>2, TextLength
  <2>4. Join(x, t)[Len(x) + 1] = t[1]
    BY <1>1, <2>3, JoinRight
  <2>5. Join(old, r)[Len(x) + 1] = h
    BY <1>3, <2>3, JoinLeft
  <2>6. QED
    BY <1>7, <2>3, <2>4, <2>5 DEF Starts
<1> HIDE DEF u
<1>8. ReplaceAll(Join(Sym(l), u), old, new) = Join(Sym(l), ReplaceAll(u, old, new))
  BY <1>1, <1>2, <1>3, <1>6, <1>7, ReplaceOther
<1>9. Join(x, TakeBack(t, l, h, p)) = Join(Sym(l), Join(w, TakeBack(t, l, h, p)))
  BY <1>4, LedFirst DEF x, w
<1>10. QED
  BY <1>2, <1>4, <1>5, <1>8, <1>9 DEF x

\* The two kinds of links do not get into each other's way.
Apart(l, h, p, m, k, q) ==
  /\ Leads(l, h, p) /\ Leads(m, k, q)
  /\ l # m /\ h # m /\ k # l /\ Without(p, m) /\ Without(q, l)

\* The four replacements in the order of the code.
RewriteAll(s, l, h, p, m, k, q) ==
  TakeBack(TakeBack(PutIn(PutIn(s, l, h, p), m, k, q), l, h, p), m, k, q)

\* A link of one kind has nothing in it of the other kind.
LEMMA LinkWithout ==
  ASSUME NEW l, NEW h, NEW p, Leads(l, h, p), NEW m, m # l, m # h, Without(p, m)
  PROVE  /\ LinkTo(l, h) \in Text /\ Without(LinkTo(l, h), m)
         /\ Led(l, h, p) \in Text /\ Without(Led(l, h, p), m)
<1> DEFINE x == Sym(l)
           y == Sym(h)
<1>1. x \in Text /\ y \in Text /\ p \in Text /\ Without(x, m) /\ Without(y, m)
  BY SymText, SymWithout DEF Leads
<1> HIDE DEF x, y
<1>2. Join(x, y) \in Text /\ Without(Join(x, y), m)
  BY <1>1, JoinText, JoinWithout
<1>3. Join(x, p) \in Text /\ Without(Join(x, p), m)
  BY <1>1, JoinText, JoinWithout
<1>4. Join(Join(x, p), y) \in Text /\ Without(Join(Join(x, p), y), m)
  BY <1>1, <1>3, JoinText, JoinWithout
<1>5. QED
  BY <1>2, <1>4 DEF LinkTo, Led, x, y

\* What the replacements make of a text that begins with a link of the first kind ...
LEMMA RewriteFirstLink ==
  ASSUME NEW l, NEW h, NEW p, NEW m, NEW k, NEW q, Apart(l, h, p, m, k, q), NEW t \in Text
  PROVE  RewriteAll(Join(LinkTo(l, h), t), l, h, p, m, k, q) =
           Join(IF Starts(t, h) THEN LinkTo(l, h) ELSE Led(l, h, p), RewriteAll(t, l, h, p, m, k, q))
<1> DEFINE link == LinkTo(l, h)
           led  == Led(l, h, p)
           t1   == PutIn(t, l, h, p)
           t2   == PutIn(t1, m, k, q)
           t3   == TakeBack(t2, l, h, p)
           c    == IF Starts(t, h) THEN link ELSE led
<1>1. Leads(l, h, p) /\ Leads(m, k, q)
  BY DEF Apart
<1>2. link \in Text /\ Without(link, m) /\ led \in Text /\ Without(led, m)
  BY LinkWithout DEF Apart
<1>3. t1 \in Text /\ (Starts(t1, h) <=> Starts(t, h)) /\ PutIn(Join(link, t), l, h, p) = Join(led, t1)
  BY <1>1, PutInSteps
<1> HIDE DEF t1
<1>4. t2 \in Text /\ (Starts(t2, h) <=> Starts(t1, h)) /\ PutIn(Join(led, t1), m, k, q) = Join(led, t2)
  BY <1>1, <1>2, <1>3, PutInSteps
<1> HIDE DEF t2
<1>5. t3 \in Text
  BY <1>1, <1>4, TakeBackSteps
<1>6. TakeBack(Join(led, t2), l, h, p) = Join(c, t3)
  BY <1>1, <1>3, <1>4, TakenBack, NotTakenBack
<1> HIDE DEF t3
<1>7. c \in Text /\ Without(c, m)
  BY <1>2
<1> HIDE DEF c
<1>8. TakeBack(Join(c, t3), m, k, q) = Join(c, TakeBack(t3, m, k, q))
  BY <1>1, <1>5, <1>7, TakeBackSteps
<1>9. QED
  BY <1>3, <1>4, <1>6, <1>8 DEF RewriteAll, t1, t2, t3, c

\* ... of the second kind ...
LEMMA RewriteSecondLink ==
  ASSUME NEW l, NEW h, NEW p, NEW m, NEW k, NEW q, Apart(l, h, p, m, k, q), NEW t \in Text
  PROVE  RewriteAll(Join(LinkTo(m, k), t), l, h, p, m, k, q) =
           Join(IF Starts(t, k) THEN LinkTo(m, k) ELSE Led(m, k, q), RewriteAll(t, l, h, p, m, k, q))
<1> DEFINE link == LinkTo(m, k)
           led  == Led(m, k, q)
           t1   == PutIn(t, l, h, p)
           t2   == PutIn(t1, m, k, q)
           t3   == TakeBack(t2, l, h, p)
<1>1. Leads(l, h, p) /\ Leads(m, k, q)
  BY DEF Apart
<1>2. link \in Text /\ Without(link, l) /\ led \in Text /\ Without(led, l)
  BY LinkWithout DEF Apart
<1>3. t1 \in Text /\ (Starts(t1, k) <=> Starts(t, k)) /\ PutIn(Join(link, t), l, h, p) = Join(link, t1)
  BY <1>1, <1>2, PutInSteps
<1> HIDE DEF t1
<1>4. t2 \in Text /\ (Starts(t2, k) <=> Starts(t1, k)) /\ PutIn(Join(link, t1), m, k, q) = Join(led, t2)
  BY <1>1, <1>3, PutInSteps
<1> HIDE DEF t2
<1>5. t3 \in Text /\ (Starts(t3, k) <=> Starts(t2, k)) /\ TakeBack(Join(led, t2), l, h, p) = Join(led, t3)
  BY <1>1, <1>2, <1>4, TakeBackSteps
<1> HIDE DEF t3
<1>6. TakeBack(Join(led, t3), m, k, q) =
        Join(IF Starts(t, k) THEN link ELSE led, TakeBack(t3, m, k, q))
  BY <1>1, <1>3, <1>4, <1>5, TakenBack, NotTakenBack
<1>7. QED
  BY <1>3, <1>4, <1>5, <1>6 DEF RewriteAll, t1, t2, t3

\* ... or with neither.
LEMMA RewriteOther ==
  ASSUME NEW l, NEW h, NEW p, NEW m, NEW k, NEW q, Apart(l, h, p, m, k, q), NEW t \in Text,
         NEW a \in Symbols, ~(a = l /\ Starts(t, h)), ~(a = m /\ Starts(t, k))
  PROVE  RewriteAll(Join(Sym(a), t), l, h, p, m, k, q) = Join(Sym(a), RewriteAll(t, l, h, p, m, k, q))
<1> DEFINE t1   == PutIn(t, l, h, p)
           t2   == PutIn(t1, m, k, q)
           t3   == TakeBack(t2, l, h, p)
<1>1. Leads(l, h, p) /\ Leads(m, k, q)
  BY DEF Apart
<1>2. t1 \in Text /\ (\A b : Starts(t1, b) <=> Starts(t, b)) /\ PutIn(Join(Sym(a), t), l, h, p) = Join(Sym(a), t1)
  BY <1>1, PutInSteps
<1> HIDE DEF t1
<1>3. t2 \in Text /\ (\A b : Starts(t2, b) <=> Starts(t1, b)) /\ PutIn(Join(Sym(a), t1), m, k, q) = Join(Sym(a), t2)
  BY <1>1, <1>2, PutInSteps
<1> HIDE DEF t2
<1>4. t3 \in Text /\ (\A b : Starts(t3, b) <=> Starts(t2, b)) /\ TakeBack(Join(Sym(a), t2), l, h, p) = Join(Sym(a), t3)
  BY <1>1, <1>2, <1>3, TakeBackSteps
<1> HIDE DEF t3
<1>5. TakeBack(Join(Sym(a), t3), m, k, q) = Join(Sym(a), TakeBack(t3, m, k, q))
  BY <1>1, <1>2, <1>3, <1>4, TakeBackSteps
<1>6. QED
  BY <1>2, <1>3, <1>4, <1>5 DEF RewriteAll, t1, t2, t3

\* There is nothing to rewrite in an empty text.
LEMMA RewriteEmpty ==
  ASSUME NEW l, NEW h, NEW p, NEW m, NEW k, NEW q, Apart(l, h, p, m, k, q)
  PROVE  RewriteAll(<<>>, l, h, p, m, k, q) = <<>>
<1>1. ASSUME NEW a, NEW b, NEW c, Leads(a, b, c) PROVE PutIn(<<>>, a, b, c) = <<>> /\ TakeBack(<<>>, a, b, c) = <<>>
  <2>1. LinkTo(a, b) \in Text /\ LinkTo(a, b) # <<>> /\ Led(a, b, c) \in Text
    BY <1>1, LinkText, LedText DEF Leads
  <2>2. /\ Join(Led(a, b, c), Sym(b)) \in Text /\ Join(Led(a, b, c), Sym(b)) # <<>>
        /\ Join(LinkTo(a, b), Sym(b)) \in Text
    BY <1>1, BackText
  <2>3. QED
    BY <2>1, <2>2, ReplaceEmpty DEF PutIn, TakeBack
<1>2. QED
  BY <1>1 DEF RewriteAll, Apart

-----------------------------------------------------------------------------
(* What the rewriting is for                                               *)

\* The symbols that begin a link to the root.
IsPair(a, b) == <<a, b>> \in {<<"link", "/">>, <<"url", "%">>}

\* At n, Relinked puts the prefix in.
IsRootLink(body, n) ==
  /\ n > 1
  /\ IsPair(body[n - 1], body[n])
  /\ n < Len(body) => body[n + 1] # body[n]

\* What Relinked adds at each position ...
RelinkedWord(body, p) ==
  [n \in 1..Len(body) |->
     IF ~IsRootLink(body, n) THEN Sym(body[n])
     ELSE IF body[n] = "/" THEN Join(p, Root) ELSE Join(Encoded(p), <<"%">>)]

\* ... all of which it stops at.
OneStep(body) == [n \in 1..Len(body) |-> 1]

\* The right-hand side of the recursive definition in Relinked.
RelinkedRest(body, p, f) ==
  [n \in 1..(Len(body) + 1) |->
     IF n > Len(body) THEN <<>>
     ELSE (IF ~(/\ n > 1
                /\ <<body[n - 1], body[n]>> \in {<<"link", "/">>, <<"url", "%">>}
                /\ n < Len(body) => body[n + 1] # body[n]) THEN <<body[n]>>
           ELSE IF body[n] = "/" THEN p \o Root ELSE Encoded(p) \o <<"%">>) \o f[n + 1]]

\* Relinked is a function that solves its recursive definition.
LEMMA RelinkedIsRest ==
  ASSUME NEW body, NEW p
  PROVE  Relinked(body, p) = (CHOOSE f : f = RelinkedRest(body, p, f))[1]
BY DEF Relinked, RelinkedRest

\* Relinked gets on by one symbol at a time.
LEMMA OneSteps == ASSUME NEW body \in Text PROVE IsSteps(Len(body), OneStep(body))
<1>1. Len(body) \in Nat
  BY TextLength
<1>2. QED
  BY <1>1 DEF IsSteps, OneStep

\* What Relinked computes is a walk through the text.
LEMMA RelinkedIsWalk ==
  ASSUME NEW body \in Text, NEW p
  PROVE  \E f : /\ IsWalk(1, Len(body), RelinkedWord(body, p), OneStep(body), f)
                /\ Relinked(body, p) = f[1]
<1> DEFINE L == Len(body)
           word == RelinkedWord(body, p)
           step == OneStep(body)
           W(n) == IF ~IsRootLink(body, n) THEN Sym(body[n])
                   ELSE IF body[n] = "/" THEN Join(p, Root) ELSE Join(Encoded(p), <<"%">>)
           At1(f, n) == IF n > L THEN <<>> ELSE Join(word[n], f[n + step[n]])
           At2(f, n) == IF n > L THEN <<>> ELSE Join(W(n), f[n + 1])
<1>1. L \in Nat
  BY TextLength
<1>2. ASSUME NEW f, NEW n \in 1..(L + 1) PROVE At1(f, n) = At2(f, n)
  <2>1. CASE n > L
    BY <2>1
  <2>2. CASE ~(n > L)
    <3>1. n \in 1..L
      BY <1>1, <2>2
    <3>2. word[n] = W(n) /\ step[n] = 1
      BY <3>1 DEF RelinkedWord, OneStep
    <3> HIDE DEF word, W, step
    <3>3. QED
      BY <2>2, <3>2
  <2>3. QED
    BY <2>1, <2>2
<1>3. ASSUME NEW f PROVE RelinkedRest(body, p, f) = [n \in 1..(L + 1) |-> At2(f, n)]
  BY Zenon DEF RelinkedRest, Join, IsRootLink, IsPair, Sym
<1>4. ASSUME NEW f PROVE IsWalk(1, L, word, step, f) <=> f = RelinkedRest(body, p, f)
  <2>1. IsWalk(1, L, word, step, f) <=> f = [n \in 1..(L + 1) |-> At1(f, n)]
    BY DEF IsWalk
  <2>2. [n \in 1..(L + 1) |-> At1(f, n)] = [n \in 1..(L + 1) |-> At2(f, n)]
    <3> HIDE DEF At1, At2
    <3>1. QED
      BY <1>2
  <2> HIDE DEF At1, At2
  <2>3. QED
    BY <1>3, <2>1, <2>2
<1>5. PICK f : IsWalk(1, L, word, step, f)
  BY <1>1, OneSteps, WalkExists
<1> DEFINE r == CHOOSE h : h = RelinkedRest(body, p, h)
<1> HIDE DEF word, step
<1>6. r = RelinkedRest(body, p, r)
  BY <1>4, <1>5
<1>7. Relinked(body, p) = r[1]
  BY RelinkedIsRest
<1> HIDE DEF r
<1>8. QED
  BY <1>4, <1>6, <1>7 DEF word, step

\* Behind c, Relinked goes on as if c had not been there, unless a link begins in c
\* and ends behind it.
LEMMA RelinkedFrom ==
  ASSUME NEW c \in Text, NEW r \in Text, NEW p, NEW f, c # <<>>, r # <<>> => ~IsPair(c[Len(c)], r[1]),
         IsWalk(1, Len(Join(c, r)), RelinkedWord(Join(c, r), p), OneStep(Join(c, r)), f)
  PROVE  f[Len(c) + 1] = Relinked(r, p)
<1> DEFINE b == Join(c, r)
           L == Len(b)
           M == Len(r)
           d == Len(c)
           word == RelinkedWord(b, p)
           step == OneStep(b)
           word2 == RelinkedWord(r, p)
           step2 == OneStep(r)
<1>1. L \in Nat /\ M \in Nat /\ d \in Nat \ {0} /\ L = d + M /\ b \in Text
  BY TextLength, JoinText
<1>2. PICK g : IsWalk(1, M, word2, step2, g) /\ Relinked(r, p) = g[1]
  BY RelinkedIsWalk
<1>3. IsSteps(L, step) /\ IsSteps(M, step2)
  BY <1>1, OneSteps
<1> HIDE DEF b, L, M, d
<1>4. ASSUME NEW n \in 1..M PROVE word2[n] = word[d + n] /\ step2[n] = step[d + n]
  <2>1. d + n \in 1..L /\ n \in 1..Len(r)
    BY <1>1 DEF M
  <2>2. \A i \in 1..M : b[d + i] = r[i]
    BY JoinRight DEF b, d, M
  <2>3. b[d] = c[d]
    <3>1. d \in 1..d
      BY <1>1
    <3>2. QED
      BY <3>1, JoinLeft DEF b, d
  <2>4. IsRootLink(b, d + n) <=> IsRootLink(r, n)
    <3>1. CASE n = 1
      <4>1. r # <<>>
        BY <2>1, TextLength
      <4>2. d + 1 - 1 = d /\ ~(1 > 1) /\ 1 \in 1..M
        BY <1>1, <3>1
      <4>3. b[d + 1 - 1] = c[Len(c)] /\ b[d + 1] = r[1]
        BY <2>2, <2>3, <4>2 DEF d
      <4>4. ~IsRootLink(b, d + 1)
        <5>1. ~IsPair(b[d + 1 - 1], b[d + 1])
          <6>1. ~IsPair(c[Len(c)], r[1])
            BY <4>1
          <6>2. QED
            BY <4>3, <6>1
        <5>2. QED
          BY <1>1, <5>1 DEF IsRootLink
      <4>5. ~IsRootLink(r, 1)
        BY <4>2 DEF IsRootLink
      <4>6. QED
        BY <3>1, <4>4, <4>5
    <3>2. CASE n # 1
      <4>1. n - 1 \in 1..M /\ d + n - 1 = d + (n - 1) /\ n > 1 /\ d + n > 1
        BY <1>1, <3>2
      <4>2. b[d + n - 1] = r[n - 1] /\ b[d + n] = r[n]
        BY <2>2, <4>1
      <4>3. d + n < L <=> n < M
        BY <1>1
      <4>4. ASSUME n < M PROVE b[d + n + 1] = r[n + 1]
        <5>1. n + 1 \in 1..M /\ d + n + 1 = d + (n + 1)
          BY <1>1, <4>4
        <5>2. QED
          BY <2>2, <5>1
      <4>5. IsPair(b[d + n - 1], b[d + n]) <=> IsPair(r[n - 1], r[n])
        BY <4>2
      <4>6. (d + n < L => b[d + n + 1] # b[d + n]) <=> (n < M => r[n + 1] # r[n])
        BY <4>2, <4>3, <4>4
      <4>7. IsRootLink(b, d + n) <=> IsPair(b[d + n - 1], b[d + n]) /\ (d + n < L => b[d + n + 1] # b[d + n])
        BY <1>1, <4>1 DEF IsRootLink, L
      <4>8. IsRootLink(r, n) <=> IsPair(r[n - 1], r[n]) /\ (n < M => r[n + 1] # r[n])
        BY <4>1 DEF IsRootLink, M
      <4>9. QED
        BY <4>5, <4>6, <4>7, <4>8
    <3>3. QED
      BY <3>1, <3>2
  <2>5. word2[n] = word[d + n]
    BY <2>1, <2>2, <2>4 DEF RelinkedWord, L, M
  <2>6. step2[n] = step[d + n]
    BY <2>1 DEF OneStep, L, M
  <2>7. QED
    BY <2>5, <2>6
<1> HIDE DEF word, step, word2, step2
<1>5. IsWalk(1, L, word, step, f)
  BY DEF L, b, word, step
<1>6. \A n \in 1..(M + 1) : g[n] = f[d + n]
  <2>1. L \in Nat /\ M \in Nat /\ d \in Nat /\ L = d + M
    BY <1>1
  <2>2. \A n \in 1..M : word2[n] = word[d + n] /\ step2[n] = step[d + n]
    BY <1>4
  <2>3. QED
    BY <1>2, <1>3, <1>5, <2>1, <2>2, WalkShift, SMTT(30)
<1>7. g[1] = f[d + 1]
  BY <1>1, <1>6, IsFirst
<1>8. QED
  BY <1>2, <1>7 DEF d

\* There is nothing to do in an empty text.
LEMMA RelinkedEmpty == ASSUME NEW p PROVE Relinked(<<>>, p) = <<>>
<1>1. <<>> \in Text /\ Len(<<>>) = 0
  BY EmptySeq DEF Text
<1>2. PICK f : /\ IsWalk(1, Len(<<>>), RelinkedWord(<<>>, p), OneStep(<<>>), f)
               /\ Relinked(<<>>, p) = f[1]
  BY <1>1, RelinkedIsWalk
<1>3. f[0 + 1] = <<>>
  BY <1>1, <1>2, IsFirst, WalkPointwise
<1>4. QED
  BY <1>2, <1>3

\* Relinked keeps a symbol that does not begin a link.
LEMMA RelinkedOther ==
  ASSUME NEW a \in Symbols, NEW r \in Text, NEW p, r # <<>> => ~IsPair(a, r[1])
  PROVE  Relinked(Join(Sym(a), r), p) = Join(Sym(a), Relinked(r, p))
<1> DEFINE c == Sym(a)
           body == Join(c, r)
<1>1. c \in Text /\ Len(c) = 1 /\ c[1] = a /\ c # <<>>
  BY SymText
<1> HIDE DEF c
<1>2. body \in Text /\ Len(body) = 1 + Len(r) /\ Len(r) \in Nat /\ body[1] = a
  BY <1>1, JoinText, JoinStarts, TextLength
<1>3. PICK f : /\ IsWalk(1, Len(body), RelinkedWord(body, p), OneStep(body), f)
               /\ Relinked(body, p) = f[1]
  BY <1>2, RelinkedIsWalk
<1>4. 1 \in 1..Len(body)
  BY <1>2
<1>5. f[1] = Join(RelinkedWord(body, p)[1], f[1 + OneStep(body)[1]])
  <2> HIDE DEF body
  <2>1. QED
    BY <1>2, <1>3, <1>4, IsFirst, WalkPointwise
<1>6. RelinkedWord(body, p)[1] = c /\ OneStep(body)[1] = 1
  BY <1>2, <1>4 DEF RelinkedWord, OneStep, IsRootLink, c
<1>7. f[Len(c) + 1] = Relinked(r, p)
  BY <1>1, <1>3, RelinkedFrom
<1>8. QED
  BY <1>1, <1>3, <1>5, <1>6, <1>7 DEF c

\* Relinked puts the prefix in if the link names no other host.
LEMMA RelinkedLink ==
  ASSUME NEW l \in Symbols, NEW h \in Symbols, NEW r \in Text, NEW p, NEW pre,
         IsPair(l, h), r # <<>> => ~IsPair(h, r[1]),
         pre = IF h = "/" THEN Join(p, Root) ELSE Join(Encoded(p), <<"%">>)
  PROVE  Relinked(Join(LinkTo(l, h), r), p) =
           Join(Sym(l), Join(IF Starts(r, h) THEN Sym(h) ELSE pre, Relinked(r, p)))
<1> DEFINE c == LinkTo(l, h)
           body == Join(c, r)
           word == RelinkedWord(body, p)
<1>1. c \in Text /\ Len(c) = 2 /\ c # <<>> /\ c[1] = l /\ c[2] = h
  BY LinkText
<1> HIDE DEF c
<1>2. body \in Text /\ Len(body) = 2 + Len(r) /\ Len(r) \in Nat
  BY <1>1, JoinText, TextLength
<1>3. body[1] = l /\ body[2] = h
  <2>1. 1 \in 1..Len(c) /\ 2 \in 1..Len(c)
    BY <1>1
  <2>2. QED
    BY <1>1, <2>1, JoinLeft
<1>4. PICK f : /\ IsWalk(1, Len(body), word, OneStep(body), f)
               /\ Relinked(body, p) = f[1]
  BY <1>2, RelinkedIsWalk
<1>5. f[Len(c) + 1] = Relinked(r, p)
  BY <1>1, <1>4, RelinkedFrom
<1>6. 2 < Len(body) <=> r # <<>>
  BY <1>2, TextLength
<1>7. r # <<>> => body[3] = r[1]
  <2> SUFFICES ASSUME r # <<>> PROVE body[3] = r[1]
    OBVIOUS
  <2>1. 1 \in 1..Len(r) /\ Len(c) + 1 = 3
    BY <1>1, NotEmpty
  <2>2. body[Len(c) + 1] = r[1]
    BY <1>1, <2>1, JoinRight
  <2>3. QED
    BY <2>1, <2>2
<1> HIDE DEF body
<1>8. 1 \in 1..Len(body) /\ 2 \in 1..Len(body) /\ OneStep(body)[1] = 1 /\ OneStep(body)[2] = 1
  BY <1>2 DEF OneStep
<1>9. IsRootLink(body, 2) <=> ~Starts(r, h)
  <2>1. 2 > 1 /\ 2 - 1 = 1 /\ 2 + 1 = 3
    OBVIOUS
  <2>2. QED
    BY <1>3, <1>6, <1>7, <2>1 DEF IsRootLink, Starts
<1>10. word[1] = Sym(l)
  BY <1>3, <1>8 DEF RelinkedWord, IsRootLink
<1>11. word[2] = IF Starts(r, h) THEN Sym(h) ELSE pre
  BY <1>3, <1>8, <1>9 DEF RelinkedWord
<1> HIDE DEF word
<1>12. f[1] = Join(word[1], f[1 + OneStep(body)[1]]) /\ f[2] = Join(word[2], f[2 + OneStep(body)[2]])
  BY <1>2, <1>4, <1>8, IsFirst, WalkPointwise
<1>13. 1 + OneStep(body)[1] = 2 /\ 2 + OneStep(body)[2] = Len(c) + 1
  BY <1>1, <1>8
<1>14. QED
  BY <1>4, <1>5, <1>10, <1>11, <1>12, <1>13 DEF body, c

\* The two kinds of links.
LEMMA Pairs == \A a, b : IsPair(a, b) <=> (a = "link" /\ b = "/") \/ (a = "url" /\ b = "%")
BY DEF IsPair

\* The same, in the form that the replacements have.
LEMMA RelinkedAt ==
  ASSUME NEW l, NEW h, NEW p, NEW q, Leads(l, h, q), IsPair(l, h), NEW t \in Text, Relinked(t, p) \in Text,
         q = IF h = "/" THEN p ELSE Encoded(p)
  PROVE  Relinked(Join(LinkTo(l, h), t), p) =
           Join(IF Starts(t, h) THEN LinkTo(l, h) ELSE Led(l, h, q), Relinked(t, p))
<1> DEFINE x == Sym(l)
           y == Sym(h)
           z == Relinked(t, p)
           pre == Join(q, y)
<1>1. l \in Symbols /\ h \in Symbols /\ x \in Text /\ y \in Text
  BY SymText DEF Leads
<1>2. \A b : ~IsPair(h, b)
  BY Pairs
<1>3. Relinked(Join(LinkTo(l, h), t), p) = Join(x, Join(IF Starts(t, h) THEN y ELSE pre, z))
  <2> HIDE DEF x, y, z, pre
  <2>1. pre = IF h = "/" THEN Join(p, Root) ELSE Join(Encoded(p), <<"%">>)
    BY Pairs DEF pre, y, Sym, Root
  <2>2. Relinked(Join(LinkTo(l, h), t), p) =
          Join(Sym(l), Join(IF Starts(t, h) THEN Sym(h) ELSE pre, Relinked(t, p)))
    BY <1>1, <1>2, <2>1, RelinkedLink
  <2>3. QED
    BY <2>2 DEF x, y, z
<1> HIDE DEF x, y, z
<1>4. Join(LinkTo(l, h), z) = Join(x, Join(y, z))
  <2>1. Join(Join(x, y), z) = Join(x, Join(y, z))
    BY <1>1, JoinAssociative DEF z
  <2>2. QED
    BY <2>1 DEF LinkTo, x, y
<1>5. Join(Led(l, h, q), z) = Join(x, Join(pre, z))
  BY LedFirst DEF x, y, z
<1> HIDE DEF pre
<1>6. QED
  BY <1>3, <1>4, <1>5 DEF z

\* A text begins with a link to the root ...
BeginsWithLink(w) ==
  \E l, h \in Symbols, t \in Text : w = Join(LinkTo(l, h), t) /\ Len(t) < Len(w) /\ IsPair(l, h)

\* ... or with a symbol that does not begin one.
BeginsOtherwise(w) ==
  \E a \in Symbols, r \in Text : w = Join(Sym(a), r) /\ Len(r) < Len(w) /\ (r # <<>> => ~IsPair(a, r[1]))

\* Every text that is not empty does one or the other.
LEMMA LinkOrNot ==
  ASSUME NEW w \in Text, w # <<>>
  PROVE  BeginsWithLink(w) \/ BeginsOtherwise(w)
<1> DEFINE a == w[1]
<1>1. a \in Symbols
  BY FirstAndRest
<1>2. PICK r \in Text : w = Join(Sym(a), r) /\ Len(r) = Len(w) - 1
  BY FirstAndRest
<1> HIDE DEF a
<1>3. Len(r) \in Nat /\ Len(w) \in Nat /\ Len(r) < Len(w)
  BY <1>2, TextLength
<1>4. CASE r # <<>> => ~IsPair(a, r[1])
  BY <1>1, <1>2, <1>3, <1>4 DEF BeginsOtherwise
<1>5. CASE r # <<>> /\ IsPair(a, r[1])
  <2> DEFINE h == r[1]
             x == Sym(a)
             y == Sym(h)
  <2>1. h \in Symbols
    BY <1>5, FirstAndRest
  <2>2. PICK t \in Text : r = Join(y, t) /\ Len(t) = Len(r) - 1
    BY <1>5, FirstAndRest
  <2>3. IsPair(a, h)
    BY <1>5
  <2> HIDE DEF h
  <2>4. x \in Text /\ y \in Text
    BY <1>1, <2>1, SymText
  <2>5. w = Join(x, Join(y, t))
    BY <1>2, <2>2
  <2> HIDE DEF x, y
  <2>6. w = Join(Join(x, y), t)
    BY <2>4, <2>5, JoinAssociative
  <2>7. w = Join(LinkTo(a, h), t)
    BY <2>6 DEF LinkTo, x, y
  <2>8. Len(t) < Len(w)
    BY <1>3, <2>2, TextLength
  <2>9. QED
    BY <1>1, <2>1, <2>3, <2>7, <2>8 DEF BeginsWithLink
<1>6. QED
  BY <1>4, <1>5

\* By induction on the length of the page: the four replacements do what the
\* rewriting is for, and never make the page shorter.
LEMMA RewriteIsRelinked ==
  ASSUME NEW p \in Text, NEW q, q = Encoded(p), Apart("link", "/", p, "url", "%", q), NEW s \in Text
  PROVE  /\ RewriteAll(s, "link", "/", p, "url", "%", q) = Relinked(s, p)
         /\ Relinked(s, p) \in Text
         /\ Len(Relinked(s, p)) >= Len(s)
<1> DEFINE R(w) == RewriteAll(w, "link", "/", p, "url", "%", q)
           Q(w) == Relinked(w, p)
           Good(w) == R(w) = Q(w) /\ Q(w) \in Text /\ Len(Q(w)) >= Len(w)
           T == {n \in Nat : \A w \in Text : Len(w) = n => Good(w)}
<1>1. Good(<<>>)
  <2>1. R(<<>>) = <<>> /\ Q(<<>>) = <<>>
    BY RewriteEmpty, RelinkedEmpty
  <2>2. <<>> \in Text /\ Len(<<>>) = 0
    BY EmptySeq DEF Text
  <2> HIDE DEF R, Q
  <2>3. QED
    BY <2>1, <2>2
<1>2. ASSUME NEW l, NEW h, NEW i, NEW t \in Text, Good(t),
             <<l, h, i>> \in {<<"link", "/", p>>, <<"url", "%", q>>}
      PROVE  Good(Join(LinkTo(l, h), t))
  <2> DEFINE w == Join(LinkTo(l, h), t)
             c == IF Starts(t, h) THEN LinkTo(l, h) ELSE Led(l, h, i)
             z == Q(t)
  <2>1. Leads(l, h, i) /\ IsPair(l, h)
    BY <1>2, Pairs DEF Apart
  <2>2. i = IF h = "/" THEN p ELSE Encoded(p)
    BY <1>2
  <2>3. Q(w) = Join(c, z)
    <3>1. Relinked(t, p) \in Text
      BY <1>2
    <3>2. QED
      BY <2>1, <2>2, <3>1, RelinkedAt
  <2>4. R(w) = Join(c, R(t))
    <3>1. CASE l = "link" /\ h = "/" /\ i = p
      BY <3>1, RewriteFirstLink
    <3>2. CASE l = "url" /\ h = "%" /\ i = q
      BY <3>2, RewriteSecondLink
    <3>3. QED
      BY <1>2, <3>1, <3>2
  <2>5. c \in Text /\ Len(c) >= 2 /\ LinkTo(l, h) \in Text /\ Len(LinkTo(l, h)) = 2 /\ Len(c) \in Nat
    BY <2>1, LinkText, LedText DEF Leads
  <2>6. z \in Text /\ Len(z) >= Len(t) /\ Len(t) \in Nat /\ Len(z) \in Nat /\ R(t) = z
    BY <1>2, TextLength
  <2> HIDE DEF c, z, R, Q
  <2>7. Join(c, z) \in Text /\ Len(Join(c, z)) = Len(c) + Len(z)
    BY <2>5, <2>6, JoinText
  <2>8. Len(w) = 2 + Len(t)
    <3>1. Len(Join(LinkTo(l, h), t)) = Len(LinkTo(l, h)) + Len(t)
      BY <2>5, JoinText
    <3>2. QED
      BY <2>5, <3>1
  <2> HIDE DEF w
  <2>9. QED
    BY <2>3, <2>4, <2>5, <2>6, <2>7, <2>8 DEF w
<1>3. ASSUME NEW a \in Symbols, NEW t \in Text, Good(t), ~(t # <<>> /\ IsPair(a, t[1]))
      PROVE  Good(Join(Sym(a), t))
  <2> DEFINE c == Sym(a)
             w == Join(c, t)
             z == Q(t)
  <2>1. Q(w) = Join(c, z)
    BY <1>3, RelinkedOther
  <2>2. R(w) = Join(c, R(t))
    BY <1>3, Pairs, RewriteOther DEF Starts
  <2>3. c \in Text /\ Len(c) = 1
    BY SymText
  <2>4. z \in Text /\ Len(z) >= Len(t) /\ Len(t) \in Nat /\ Len(z) \in Nat /\ R(t) = z
    BY <1>3, TextLength
  <2> HIDE DEF c, z, R, Q
  <2>5. Join(c, z) \in Text /\ Len(Join(c, z)) = Len(c) + Len(z)
    BY <2>3, <2>4, JoinText
  <2>6. Len(w) = 1 + Len(t)
    BY <2>3, JoinText
  <2> HIDE DEF w
  <2>7. QED
    BY <2>1, <2>2, <2>3, <2>4, <2>5, <2>6 DEF w, c
<1> HIDE DEF Good
<1>4. ASSUME NEW n \in Nat, \A m \in Nat : m < n => m \in T PROVE n \in T
  <2> SUFFICES ASSUME NEW w \in Text, Len(w) = n PROVE Good(w)
    OBVIOUS
  <2>0. ASSUME NEW v \in Text, Len(v) < n PROVE Good(v)
    BY <1>4, <2>0, TextLength
  <2>1. CASE w = <<>>
    BY <1>1, <2>1
  <2>2. CASE w # <<>>
    <3>1. CASE BeginsOtherwise(w)
      BY <1>3, <2>0, <3>1 DEF BeginsOtherwise
    <3>2. CASE BeginsWithLink(w)
      <4>1. PICK l \in Symbols, h \in Symbols, t \in Text : w = Join(LinkTo(l, h), t) /\ Len(t) < Len(w) /\ IsPair(l, h)
        BY <3>2 DEF BeginsWithLink
      <4>2. Good(t)
        BY <2>0, <4>1
      <4>3. (l = "link" /\ h = "/") \/ (l = "url" /\ h = "%")
        BY <4>1, Pairs
      <4>4. QED
        BY <1>2, <4>1, <4>2, <4>3
    <3>3. QED
      BY <2>2, <3>1, <3>2, LinkOrNot
  <2>3. QED
    BY <2>1, <2>2
<1>5. Len(s) \in T
  <2>1. Len(s) \in Nat
    BY TextLength
  <2> HIDE DEF T
  <2>2. QED
    BY <1>4, <2>1, StrongInduction
<1>6. QED
  BY <1>5 DEF Good

-----------------------------------------------------------------------------
(* Pages under a prefix                                                    *)

\* Encoding makes texts of texts, symbol by symbol.
LEMMA EncodedText ==
  ASSUME NEW p \in Text
  PROVE  Encoded(p) \in Text /\ Len(Encoded(p)) = Len(p)
<1>1. Len(p) \in Nat /\ \A n \in 1..Len(p) : p[n] \in Symbols
  BY TextLength, ElementOfSeq DEF Text
<1>2. \A n \in 1..Len(p) : (IF p[n] = "/" THEN "%" ELSE p[n]) \in Symbols
  BY <1>1, HandlersAssumption
<1>3. Encoded(p) \in [1..Len(p) -> Symbols]
  BY <1>2 DEF Encoded
<1>4. QED
  BY <1>1, <1>3 DEF Text

\* A prefix that begins with a slash and has no link in it, and its encoded form, are
\* what the replacements need.
LEMMA PrefixApart ==
  ASSUME NEW p \in Text, Starts(p, "/"), Without(p, "link"), Without(p, "url")
  PROVE  Apart("link", "/", p, "url", "%", Encoded(p))
<1>1. Encoded(p) \in Text /\ Len(Encoded(p)) = Len(p) /\ Encoded(p) # <<>>
  BY EncodedText, TextLength DEF Starts
<1>2. \A n \in 1..Len(p) : Encoded(p)[n] = IF p[n] = "/" THEN "%" ELSE p[n]
  BY DEF Encoded
<1>3. 1 \in 1..Len(p)
  BY NotEmpty DEF Starts
<1> DEFINE q == Encoded(p)
<1> HIDE DEF q
<1>4. Starts(q, "%") /\ Without(q, "link") /\ Without(q, "url")
  BY <1>1, <1>2, <1>3 DEF Starts, Without, q
<1>5. \A a \in {"link", "url", "/", "%"} : a \in Symbols
  BY HandlersAssumption
<1>6. Leads("link", "/", p) /\ Leads("url", "%", q)
  BY <1>1, <1>4, <1>5 DEF Leads, q
<1>7. QED
  BY <1>4, <1>6 DEF Apart, q

\* The patterns that the code puts together are those of RewriteAll.
LEMMA ProxyReplacements ==
  ASSUME NEW body, NEW p \in Text
  PROVE  replace_relative_html_links(body, p) =
           IF p \in {<<>>, Root} THEN body ELSE RewriteAll(body, "link", "/", p, "url", "%", Encoded(p))
<1> DEFINE q == Encoded(p)
<1>1. "link" \in Symbols /\ "url" \in Symbols /\ "/" \in Symbols /\ "%" \in Symbols
  BY HandlersAssumption
<1>2. q \in Text
  BY EncodedText
<1> HIDE DEF q
<1>3. ASSUME NEW l \in Symbols, NEW h \in Symbols, NEW i \in Text
      PROVE  /\ <<l, h>> = LinkTo(l, h)
             /\ <<l, h, h>> = Join(LinkTo(l, h), Sym(h))
             /\ <<l>> \o i \o <<h>> = Led(l, h, i)
             /\ <<l>> \o i \o <<h, h>> = Join(Led(l, h, i), Sym(h))
  <2> DEFINE x == Sym(l)
             y == Sym(h)
             v == Join(x, i)
  <2>1. <<l, h>> = Join(x, y) /\ <<h, h>> = Join(y, y)
    BY Pair
  <2>2. <<l, h, h>> = <<l, h>> \o <<h>>
    OBVIOUS
  <2>3. <<l>> \o i \o <<h>> = Join(v, y) /\ <<l>> \o i \o <<h, h>> = Join(v, <<h, h>>)
    BY DEF Join, Sym
  <2>4. x \in Text /\ y \in Text
    BY SymText
  <2>5. <<l, h>> \o <<h>> = Join(Join(x, y), y)
    BY <2>1 DEF Join, Sym
  <2> HIDE DEF x, y
  <2>6. v \in Text
    BY <2>4, JoinText
  <2> HIDE DEF v
  <2>7. Join(v, Join(y, y)) = Join(Join(v, y), y)
    BY <2>4, <2>6, JoinAssociative
  <2>8. <<l>> \o i \o <<h, h>> = Join(Join(v, y), y)
    BY <2>1, <2>3, <2>7
  <2>9. Led(l, h, i) = Join(v, y) /\ LinkTo(l, h) = Join(x, y) /\ y = Sym(h)
    BY DEF Led, LinkTo, x, y, v
  <2>10. QED
    BY <2>1, <2>2, <2>3, <2>5, <2>8, <2>9
<1>4. /\ <<"link", "/">> = LinkTo("link", "/")
      /\ <<"link", "/", "/">> = Join(LinkTo("link", "/"), Sym("/"))
      /\ <<"link">> \o p \o <<"/">> = Led("link", "/", p)
      /\ <<"link">> \o p \o <<"/", "/">> = Join(Led("link", "/", p), Sym("/"))
  BY <1>1, <1>3
<1>5. /\ <<"url", "%">> = LinkTo("url", "%")
      /\ <<"url", "%", "%">> = Join(LinkTo("url", "%"), Sym("%"))
      /\ <<"url">> \o q \o <<"%">> = Led("url", "%", q)
      /\ <<"url">> \o q \o <<"%", "%">> = Join(Led("url", "%", q), Sym("%"))
  BY <1>1, <1>2, <1>3
<1>6. replace_relative_html_links(body, p) =
        IF p \in {<<>>, Root} THEN body
        ELSE ReplaceAll(ReplaceAll(ReplaceAll(ReplaceAll(body, <<"link", "/">>, <<"link">> \o p \o <<"/">>),
                                              <<"url", "%">>, <<"url">> \o q \o <<"%">>),
                                   <<"link">> \o p \o <<"/", "/">>, <<"link", "/", "/">>),
                        <<"url">> \o q \o <<"%", "%">>, <<"url", "%", "%">>)
  BY DEF replace_relative_html_links, Root, q
<1>7. RewriteAll(body, "link", "/", p, "url", "%", q) =
        ReplaceAll(ReplaceAll(ReplaceAll(ReplaceAll(body, <<"link", "/">>, <<"link">> \o p \o <<"/">>),
                                              <<"url", "%">>, <<"url">> \o q \o <<"%">>),
                                   <<"link">> \o p \o <<"/", "/">>, <<"link", "/", "/">>),
                        <<"url">> \o q \o <<"%", "%">>, <<"url", "%", "%">>)
  BY <1>4, <1>5, Zenon DEF RewriteAll, PutIn, TakeBack
<1>8. QED
  BY <1>6, <1>7, Zenon DEF q

\* Without a prefix there is nothing to put in.
LEMMA RelinkedNowhere ==
  ASSUME NEW s \in Text
  PROVE  Relinked(s, <<>>) = s
<1> DEFINE T == {n \in Nat : \A w \in Text : Len(w) = n => Relinked(w, <<>>) = w}
<1>1. ASSUME NEW l \in Symbols, NEW h \in Symbols, IsPair(l, h), NEW t \in Text, Relinked(t, <<>>) = t
      PROVE  Relinked(Join(LinkTo(l, h), t), <<>>) = Join(LinkTo(l, h), t)
  <2> DEFINE x == Sym(l)
             y == Sym(h)
  <2>1. x \in Text /\ y \in Text
    BY SymText
  <2>2. y = IF h = "/" THEN Join(<<>>, Root) ELSE Join(Encoded(<<>>), <<"%">>)
    <3>1. Encoded(<<>>) = <<>>
      BY EmptySeq, EncodedText, TextLength DEF Text
    <3>2. Root = Sym("/") /\ <<"%">> = Sym("%")
      BY DEF Root, Sym
    <3>3. Join(<<>>, Root) = Sym("/") /\ Join(<<>>, <<"%">>) = Sym("%")
      BY <3>2, HandlersAssumption, SymText, JoinEmpty
    <3>4. QED
      BY <1>1, <3>1, <3>3, Pairs
  <2>3. \A b : ~IsPair(h, b)
    BY <1>1, Pairs
  <2> HIDE DEF x, y
  <2>4. Relinked(Join(LinkTo(l, h), t), <<>>) =
          Join(Sym(l), Join(IF Starts(t, h) THEN Sym(h) ELSE y, Relinked(t, <<>>)))
    BY <1>1, <2>2, <2>3, RelinkedLink
  <2>5. Relinked(Join(LinkTo(l, h), t), <<>>) = Join(x, Join(y, t))
    BY <1>1, <2>4 DEF x, y
  <2>6. Join(Join(x, y), t) = Join(x, Join(y, t))
    BY <2>1, JoinAssociative
  <2>7. QED
    BY <2>5, <2>6 DEF LinkTo, x, y
<1>2. ASSUME NEW n \in Nat, \A m \in Nat : m < n => m \in T PROVE n \in T
  <2> SUFFICES ASSUME NEW w \in Text, Len(w) = n PROVE Relinked(w, <<>>) = w
    OBVIOUS
  <2>1. ASSUME NEW v \in Text, Len(v) < n PROVE Relinked(v, <<>>) = v
    BY <1>2, <2>1, TextLength
  <2>2. CASE w = <<>>
    BY <2>2, RelinkedEmpty
  <2>3. CASE w # <<>>
    <3>1. CASE BeginsOtherwise(w)
      BY <2>1, <3>1, RelinkedOther DEF BeginsOtherwise
    <3>2. CASE BeginsWithLink(w)
      <4>1. PICK l \in Symbols, h \in Symbols, t \in Text : w = Join(LinkTo(l, h), t) /\ Len(t) < Len(w) /\ IsPair(l, h)
        BY <3>2 DEF BeginsWithLink
      <4>2. Relinked(t, <<>>) = t
        BY <2>1, <4>1
      <4>3. QED
        BY <1>1, <4>1, <4>2
    <3>3. QED
      BY <2>3, <3>1, <3>2, LinkOrNot
  <2>4. QED
    BY <2>2, <2>3
<1>3. Len(s) \in T
  <2>1. Len(s) \in Nat
    BY TextLength
  <2> HIDE DEF T
  <2>2. QED
    BY <1>2, <2>1, StrongInduction
<1>4. QED
  BY <1>3

\* The replacements make texts of texts, whatever the prefix.
LEMMA ReplacedType ==
  ASSUME NEW s \in Text, NEW p \in Text, p # <<>>
  PROVE  RewriteAll(s, "link", "/", p, "url", "%", Encoded(p)) \in Text
<1> DEFINE q == Encoded(p)
<1>1. q \in Text
  BY EncodedText
<1>2. "link" \in Symbols /\ "url" \in Symbols /\ "/" \in Symbols /\ "%" \in Symbols
  BY HandlersAssumption
<1> HIDE DEF q
<1>3. ASSUME NEW l \in Symbols, NEW h \in Symbols, NEW i \in Text, NEW w \in Text
      PROVE  PutIn(w, l, h, i) \in Text /\ TakeBack(w, l, h, i) \in Text
  <2> DEFINE x == Sym(l)
             y == Sym(h)
             v == Join(x, i)
             link == Join(x, y)
             led == Join(v, y)
  <2>1. x \in Text /\ x # <<>> /\ y \in Text
    BY SymText
  <2> HIDE DEF x, y
  <2>2. v \in Text /\ v # <<>> /\ link \in Text /\ link # <<>>
    BY <2>1, JoinText, JoinIsEmpty
  <2> HIDE DEF v, link
  <2>3. led \in Text /\ led # <<>> /\ Join(link, y) \in Text
    BY <2>1, <2>2, JoinText, JoinIsEmpty
  <2> HIDE DEF led
  <2>4. Join(led, y) \in Text /\ Join(led, y) # <<>>
    BY <2>1, <2>3, JoinText, JoinIsEmpty
  <2>5. ReplaceAll(w, link, led) \in Text /\ ReplaceAll(w, Join(led, y), Join(link, y)) \in Text
    BY <2>2, <2>3, <2>4, ReplaceType
  <2>6. QED
    BY <2>5 DEF PutIn, TakeBack, LinkTo, Led, x, y, v, link, led
<1>4. QED
  BY <1>1, <1>2, <1>3 DEF RewriteAll, q

\* Rewriting makes texts of texts, whatever the prefix.
LEMMA PageText ==
  ASSUME NEW s \in Text, NEW p \in Text
  PROVE  replace_relative_html_links(s, p) \in Text
BY ProxyReplacements, ReplacedType

\* Under a prefix that looks like no link, the code does with every page what the
\* rewriting is for, and makes it no shorter.
LEMMA PageRelinked ==
  ASSUME LinklessPrefixes, NEW s \in Text, NEW p \in Prefixes \cup {<<>>}
  PROVE  /\ replace_relative_html_links(s, p) = IF p # Root THEN Relinked(s, p) ELSE s
         /\ Len(replace_relative_html_links(s, p)) >= Len(s)
<1>1. p \in Text
  BY HandlersAssumption, EmptySeq DEF Text
<1>2. CASE p \in {<<>>, Root}
  <2>1. replace_relative_html_links(s, p) = s
    BY <1>1, <1>2, ProxyReplacements
  <2>2. QED
    BY <1>2, <2>1, RelinkedNowhere, TextLength
<1>3. CASE p \notin {<<>>, Root}
  <2>1. Starts(p, "/") /\ Without(p, "link") /\ Without(p, "url")
    BY <1>3, PrefixAssumption DEF Starts, Without, LinklessPrefixes
  <2>2. Apart("link", "/", p, "url", "%", Encoded(p))
    BY <1>1, <2>1, PrefixApart
  <2>3. replace_relative_html_links(s, p) = RewriteAll(s, "link", "/", p, "url", "%", Encoded(p))
    BY <1>1, <1>3, ProxyReplacements
  <2>4. QED
    BY <1>1, <1>3, <2>2, <2>3, RewriteIsRelinked
<1>4. QED
  BY <1>2, <1>3

-----------------------------------------------------------------------------
(* Types                                                                   *)

\* Besides the types: a text that is about to be compressed is one that compress
\* takes.
TypeInv ==
  /\ TypeOK
  /\ pc = "compress" => res.text \in Texts \cup {<<"text">>}

\* What the server writes itself is a text.
LEMMA OwnText == <<"text">> \in Text /\ <<>> \in Text /\ Root \in Text /\ \A t \in Texts : t \in Text
<1>1. "text" \in Symbols /\ "/" \in Symbols
  BY HandlersAssumption
<1>2. Sym("text") \in Text /\ Sym("/") \in Text
  BY <1>1, SymText
<1>3. <<>> \in Text /\ \A t \in Texts : t \in Text
  BY HandlersAssumption, EmptySeq DEF Text
<1>4. QED
  BY <1>2, <1>3 DEF Sym, Root

\* The target asked for upstream is a text.
LEMMA ForwardedText ==
  ASSUME NEW t \in Text, NEW p \in Text
  PROVE  Forwarded(t, p) \in Text
<1> DEFINE rest == SubSeq(t, Len(p) + 1, Len(t))
<1>1. Len(t) \in Nat /\ Len(p) \in Nat /\ \A i \in 1..Len(t) : t[i] \in Symbols
  BY TextLength, ElementOfSeq DEF Text
<1>2. rest \in Text
  <2>1. \A i \in (Len(p) + 1)..Len(t) : t[i] \in Symbols
    BY <1>1
  <2>2. QED
    BY <1>1, <2>1, SubSeqProperties DEF Text
<1> HIDE DEF rest
<1>3. Join(Root, rest) \in Text
  BY <1>2, OwnText, JoinText
<1>4. QED
  BY <1>2, <1>3 DEF Forwarded, rest, Join

\* Upstream pages are texts, and so is what is asked for before one has come.
LEMMA PageIsText == ASSUME ProxyInv PROVE page.text \in Text
<1>1. CASE page \in Pages
  BY <1>1, HandlersAssumption DEF Text
<1>2. CASE page = NoPage
  <2>1. page.text = <<>>
    BY <1>2 DEF NoPage
  <2>2. QED
    BY <2>1, OwnText
<1>3. QED
  BY <1>1, <1>2 DEF ProxyInv

\* A response the server has just made has a text and its length.
LEMMA FreshType ==
  ASSUME NEW body \in Text, NEW status, NEW html, NEW location, res' = Response(status, html, location, body)
  PROVE  res'.content_length \in Nat /\ res'.text \in Text /\ res'.text = body
<1>1. res'.content_length = Len(body) /\ res'.text = body
  BY DEF Response
<1>2. QED
  BY <1>1, TextLength

\* handle_request returns a response it has made.
LEMMA OwnAnswerType ==
  ASSUME NEW status, NEW body \in Texts \cup {<<"text">>}, Returns(Response(status, FALSE, <<>>, body))
  PROVE  /\ res'.content_length \in Nat /\ res'.text \in Seq(Symbols)
         /\ res'.text \in Texts \cup {<<"text">>}
         /\ pc' \in {"returned", "compress"}
BY OwnText, FreshType DEF Returns, Text

\* Every variable starts with a value of its type.
LEMMA TypeInit == Init => TypeInv
<1> SUFFICES ASSUME Init PROVE TypeInv
  OBVIOUS
<1>1. res.content_length = 0 /\ res.text = <<>> /\ pc = "new" /\ size = 0
  BY EmptySeq DEF Init, Empty, Response
<1>2. node \in Worlds
  BY DEF Init, Worlds, Nodes
<1>3. <<>> \in Seq(Symbols)
  BY EmptySeq
<1>4. request \in [method : {"GET", "HEAD"}, accepts_gzip : BOOLEAN, target : Seq(Symbols)]
  BY <1>3 DEF Init
<1>5. handler \in Kinds /\ url_prefix = <<>> /\ invalid_config \in BOOLEAN /\ keep_alive \in BOOLEAN
  BY DEF Init, Kinds
<1>6. /\ text \in Texts /\ linux_path \in {"linux_dir", "below"} /\ disturbed \in BOOLEAN
      /\ forwarded = <<>> /\ failed \in {"none", "connect", "read", "shutdown"}
  BY DEF Init
<1>7. QED
  BY <1>1, <1>2, <1>3, <1>4, <1>5, <1>6 DEF TypeInv, TypeOK

\* Every step keeps the types: lengths are those of texts or what compress says,
\* and rewriting, redirecting and forwarding make texts of texts.
LEMMA TypeNext == FramingInv /\ ProxyInv /\ TypeInv /\ [Next]_vars => TypeInv'
<1> SUFFICES ASSUME FramingInv, ProxyInv, TypeInv, [Next]_vars PROVE TypeInv'
  OBVIOUS
<1>0. ResponseOK /\ StepOfHandler /\ TypeOK
  BY DEF FramingInv, TypeInv
<1>1. ASSUME NEW k \in Kinds, NEW b \in Blocks, NEW p \in Prefixes, Construct(k, b, p) PROVE TypeInv'
  <2>1. invalid_config' \in BOOLEAN /\ keep_alive' \in BOOLEAN
    BY <1>1 DEF Construct, KeepsAlive
  <2>2. QED
    BY <1>0, <1>1, <2>1, HandlersAssumption DEF Construct, TypeInv, TypeOK, files, proxy
<1>2. ASSUME NEW m \in {"GET", "HEAD"}, NEW gz \in BOOLEAN, NEW t \in Tails, GetResponse(m, gz, t) PROVE TypeInv'
  <2>1. url_prefix \o t \in Seq(Symbols)
    BY <1>0, HandlersAssumption, ConcatProperties DEF TypeOK
  <2>2. request' = [method |-> m, accepts_gzip |-> gz, target |-> url_prefix \o t]
    BY <1>2 DEF GetResponse
  <2>3. request' \in [method : {"GET", "HEAD"}, accepts_gzip : BOOLEAN, target : Seq(Symbols)]
    BY <2>1, <2>2
  <2>4. QED
    BY <1>0, <1>2, <2>3 DEF GetResponse, TypeInv, TypeOK, object, files, proxy
<1>3. CASE AnswerAtOnce
  BY <1>0, <1>3, OwnAnswerType DEF AnswerAtOnce, Plain, not_found_error, TypeInv, TypeOK, object, files, proxy
<1>4. CASE SetConnection
  BY <1>0, <1>4 DEF SetConnection, ResponseOK, FieldNames, TypeInv, TypeOK, object, files, proxy
<1>5. CASE FileSystemChanges
  BY <1>0, <1>5 DEF FileSystemChanges, TypeInv, TypeOK, object, proxy
<1>6. CASE DirExists \/ DirIsDirectory \/ PathExists \/ PathIsFile
  BY <1>0, <1>6, OwnAnswerType DEF DirExists, DirIsDirectory, PathExists, PathIsFile, Throws, Plain, not_found_error,
       internal_server_error, TypeInv, TypeOK, object, files, proxy
<1>7. CASE OpenFile
  <2>1. Len(text) \in Nat
    BY <1>0, OwnText, TextLength DEF TypeOK
  <2>2. QED
    BY <1>0, <1>7, <2>1 DEF OpenFile, Throws, TypeInv, TypeOK, object, proxy
<1>8. CASE ReadFile
  <2>1. text \in Texts \cup {<<"text">>}
    BY <1>0 DEF TypeOK
  <2>2. QED
    BY <1>0, <1>8, <2>1, OwnAnswerType DEF ReadFile, TypeInv, TypeOK, object, files, proxy
<1>9. CASE Compress
  <2>1. GzipLength(res.text) \in Nat
    BY <1>9, HandlersAssumption DEF Compress, TypeInv
  <2>2. res'.content_length \in Nat /\ res'.text = res.text
    BY <1>0, <1>9, <2>1 DEF Compress, ResponseOK, FieldNames, TypeOK
  <2>3. QED
    BY <1>0, <1>9, <2>2 DEF Compress, TypeInv, TypeOK, object, files, proxy
<1>10. CASE PrepareRequest
  <2>1. Forwarded(request.target, url_prefix) \in Seq(Symbols)
    BY <1>0, ForwardedText DEF TypeOK, Text
  <2>2. forwarded' \in Seq(Symbols)
    BY <1>0, <1>10, <2>1 DEF PrepareRequest, TypeOK
  <2>3. QED
    BY <1>0, <1>10, <2>2, OwnAnswerType DEF PrepareRequest, Plain, internal_server_error, TypeInv, TypeOK, object, files
<1>11. CASE UpstreamUnreachable
  BY <1>0, <1>11, OwnAnswerType DEF UpstreamUnreachable, Plain, internal_server_error, TypeInv, TypeOK, object, files
<1>12. ASSUME NEW p \in Pages, UpstreamAnswers(p) PROVE TypeInv'
  <2>1. p.text \in Seq(Symbols)
    BY HandlersAssumption
  <2>2. res'.content_length = 0 /\ res'.text = p.text
    BY <1>12 DEF UpstreamAnswers, Response
  <2>3. QED
    BY <1>0, <1>12, <2>1, <2>2 DEF UpstreamAnswers, TypeInv, TypeOK, object, files
<1>13. CASE UpstreamReadFails
  <2>1. res'.content_length = 0 /\ res'.text = <<>> /\ <<>> \in Seq(Symbols)
    BY <1>13, EmptySeq DEF UpstreamReadFails, Empty, Response
  <2>2. QED
    BY <1>0, <1>13, <2>1 DEF UpstreamReadFails, TypeInv, TypeOK, object, files
<1>14. ASSUME NEW ec, ShutdownUpstream(ec) PROVE TypeInv'
  <2>1. CASE ec \in {"ok", "not_connected"}
    <3>1. res'.content_length = Len(res.text) /\ res'.text = res.text /\ Len(res.text) \in Nat
      BY <1>0, <1>14, <2>1, TextLength DEF ShutdownUpstream, ResponseOK, FieldNames, TypeOK, Text
    <3>2. QED
      BY <1>0, <1>14, <2>1, <3>1 DEF ShutdownUpstream, TypeInv, TypeOK, object, files
  <2>2. CASE ec \notin {"ok", "not_connected"}
    BY <1>0, <1>14, <2>2, OwnAnswerType DEF ShutdownUpstream, Plain, internal_server_error, TypeInv, TypeOK, object, files
  <2>3. QED
    BY <2>1, <2>2
<1>15. CASE AdaptResponse
  <2>1. /\ res' = [res EXCEPT !.location = <<Redirected(res.location[1])>>]
           \/ res' = [res EXCEPT !.text = replace_relative_html_links(res.text, url_prefix)]
           \/ res' = res
        /\ pc' = "returned"
    BY <1>0, <1>15 DEF AdaptResponse, Returns, StepOfHandler
  <2>2. replace_relative_html_links(res.text, url_prefix) \in Seq(Symbols)
    BY <1>0, PageText DEF TypeOK, Text
  <2>3. res'.content_length = res.content_length /\ res'.text \in Seq(Symbols)
    BY <1>0, <2>1, <2>2 DEF ResponseOK, FieldNames, TypeOK
  <2>4. QED
    BY <1>0, <1>15, <2>1, <2>3 DEF AdaptResponse, TypeInv, TypeOK, object, files, proxy
<1>16. CASE Over \/ UNCHANGED vars
  BY <1>0, <1>16 DEF Over, vars, object, files, proxy, TypeInv, TypeOK
<1>17. QED
  BY <1>1, <1>2, <1>3, <1>4, <1>5, <1>6, <1>7, <1>8, <1>9, <1>10, <1>11, <1>12, <1>13, <1>14, <1>15, <1>16 DEF Next

\* Every value has its type throughout, and compress only gets texts it takes.
THEOREM TypeInvariance == Spec => []TypeInv
BY TypeInit, TypeNext, FramingInvariance, ProxyInvariance, PTL DEF Spec

\* Every value has its type throughout a call.
THEOREM TypeCorrect == Spec => []TypeOK
<1>1. TypeInv => TypeOK
  BY DEF TypeInv
<1>2. QED
  BY <1>1, TypeInvariance, PTL

-----------------------------------------------------------------------------
(* The pages that reach the client                                         *)

\* What becomes of a page on its way: it is read, its length is fixed, and then it
\* is rewritten.
PageInv ==
  /\ url_prefix \in Prefixes \cup {<<>>}
  /\ pc = "new" \/ handler = "ProxyRequest" => ~res.gzipped
  /\ pc \in {"shutdown", "adapt"} /\ failed = "none" => res.text = page.text /\ res.html = page.html
  /\ pc = "adapt" => res.content_length = Len(res.text)
  /\ pc \in {"returned", "answered"} /\ handler = "ProxyRequest" => res.content_length <= Len(res.text)
  /\ pc \in {"returned", "answered"} /\ handler = "ProxyRequest" /\ res.status = "ok" /\ failed = "none" =>
       /\ res.text = IF page.html THEN replace_relative_html_links(page.text, url_prefix) ELSE page.text
       /\ res.content_length = Len(page.text)

\* Nothing has come from upstream.
LEMMA PageInit == Init => PageInv
BY DEF Init, PageInv, Empty, Response

\* An answer of the handler's own is no page.
LEMMA PageOwnAnswer ==
  ASSUME PageInv, NEW status \in Statuses, NEW body \in Text, Returns(Response(status, FALSE, <<>>, body)),
         UNCHANGED <<handler, url_prefix>>, handler = "ProxyRequest" => status # "ok"
  PROVE  PageInv'
<1>1. res'.content_length = Len(body) /\ res'.text = body /\ ~res'.gzipped /\ res'.status = status
  BY DEF Returns, Response
<1>2. Len(body) \in Nat /\ pc' \in {"returned", "compress"}
  BY TextLength DEF Returns
<1>3. QED
  BY <1>1, <1>2 DEF PageInv

\* Steps of other handlers, and those before the exchange.
LEMMA PageElsewhere ==
  ASSUME PageInv, UNCHANGED <<handler, url_prefix, res>>,
         pc' \notin {"new", "shutdown", "adapt", "returned", "answered"}
  PROVE  PageInv'
BY DEF PageInv

\* Every step keeps track of what has become of the page.
LEMMA PageNext == LinklessPrefixes /\ FramingInv /\ ProxyInv /\ TypeInv /\ PageInv /\ [Next]_vars => PageInv'
<1> SUFFICES ASSUME LinklessPrefixes, FramingInv, ProxyInv, TypeInv, PageInv, [Next]_vars PROVE PageInv'
  OBVIOUS
<1>0. ResponseOK /\ StepOfHandler /\ TypeOK
  BY DEF FramingInv, TypeInv
<1>1. ASSUME NEW k, NEW b, NEW p \in Prefixes, Construct(k, b, p) PROVE PageInv'
  BY <1>1 DEF Construct, PageInv
<1>2. ASSUME NEW m, NEW gz, NEW t, GetResponse(m, gz, t) PROVE PageInv'
  BY <1>2, PageElsewhere DEF GetResponse, object
<1>3. CASE AnswerAtOnce
  BY <1>3, PageOwnAnswer, OwnText DEF AnswerAtOnce, Plain, not_found_error, EchoKinds, Statuses, object
<1>4. CASE SetConnection
  <2>1. /\ res'.content_length = res.content_length /\ res'.text = res.text /\ res'.gzipped = res.gzipped
        /\ res'.status = res.status
    BY <1>0, <1>4 DEF SetConnection, ResponseOK, FieldNames
  <2>2. QED
    BY <1>4, <2>1 DEF SetConnection, PageInv, object, proxy
<1>5. CASE FileSystemChanges
  BY <1>5, PageElsewhere DEF FileSystemChanges, object
<1>6. CASE DirExists \/ DirIsDirectory \/ PathExists \/ PathIsFile \/ OpenFile \/ ReadFile
  <2>1. handler # "ProxyRequest"
    BY <1>0, <1>6 DEF DirExists, DirIsDirectory, PathExists, PathIsFile, OpenFile, ReadFile, StepOfHandler, FileKinds
  <2>2. text \in Text
    BY <1>0, OwnText DEF TypeOK
  <2>3. QED
    BY <1>6, <2>1, <2>2, PageOwnAnswer, PageElsewhere, OwnText DEF DirExists, DirIsDirectory, PathExists, PathIsFile,
         OpenFile, ReadFile, Throws, Plain, not_found_error, internal_server_error, Statuses, object
<1>7. CASE Compress
  BY <1>0, <1>7 DEF Compress, StepOfHandler, FileKinds, PageInv, object
<1>8. CASE PrepareRequest
  BY <1>8, PageOwnAnswer, PageElsewhere, OwnText DEF PrepareRequest, Plain, internal_server_error, Statuses, object
<1>9. CASE UpstreamUnreachable
  BY <1>9, PageOwnAnswer, OwnText DEF UpstreamUnreachable, Plain, internal_server_error, Statuses, object
<1>10. ASSUME NEW p \in Pages, UpstreamAnswers(p) PROVE PageInv'
  <2>1. res'.text = p.text /\ res'.html = p.html /\ ~res'.gzipped /\ page' = p
    BY <1>10 DEF UpstreamAnswers, Response
  <2>2. QED
    BY <1>10, <2>1 DEF UpstreamAnswers, PageInv, object
<1>11. CASE UpstreamReadFails
  BY <1>11 DEF UpstreamReadFails, Empty, Response, PageInv, object
<1>12. ASSUME NEW ec, ShutdownUpstream(ec) PROVE PageInv'
  <2>1. CASE ec \in {"ok", "not_connected"}
    <3>1. /\ res'.content_length = Len(res'.text) /\ res'.text = res.text /\ res'.html = res.html
          /\ res'.gzipped = res.gzipped
      BY <1>0, <1>12, <2>1 DEF ShutdownUpstream, ResponseOK, FieldNames
    <3>2. QED
      BY <1>12, <2>1, <3>1 DEF ShutdownUpstream, PageInv, object
  <2>2. CASE ec \notin {"ok", "not_connected"}
    BY <1>12, <2>2, PageOwnAnswer, OwnText DEF ShutdownUpstream, Plain, internal_server_error, Statuses, object
  <2>3. QED
    BY <2>1, <2>2
<1>13. CASE AdaptResponse
  <2> DEFINE old == res.text
             new == replace_relative_html_links(old, url_prefix)
  <2>1. handler = "ProxyRequest" /\ pc' = "returned" /\ UNCHANGED <<handler, url_prefix, page, failed>>
    BY <1>0, <1>13 DEF AdaptResponse, StepOfHandler, Returns, object, proxy
  <2>2. old \in Text /\ new \in Text
    BY <1>0, PageText DEF TypeOK, Text
  <2>3. Len(new) >= Len(old) /\ Len(new) \in Nat /\ Len(old) \in Nat
    BY <2>2, PageRelinked, TextLength DEF PageInv
  <2>4. res.content_length = Len(old) /\ (failed = "none" => old = page.text /\ res.html = page.html)
    BY <1>13 DEF AdaptResponse, PageInv
  <2>5. CASE res.status = "redirect" /\ res.location # <<>>
    <3>1. res' = [res EXCEPT !.location = <<Redirected(res.location[1])>>]
      BY <1>13, <2>5 DEF AdaptResponse, Returns
    <3>2. /\ res'.status = "redirect" /\ res'.text = old /\ res'.content_length = res.content_length
          /\ res'.gzipped = res.gzipped
      BY <1>0, <2>5, <3>1 DEF ResponseOK, FieldNames
    <3>3. QED
      BY <2>1, <2>3, <2>4, <3>2 DEF PageInv
  <2>6. CASE ~(res.status = "redirect" /\ res.location # <<>>)
    <3>1. res' = IF res.html THEN [res EXCEPT !.text = new] ELSE res
      BY <1>13, <2>6 DEF AdaptResponse, Returns
    <3>2. /\ res'.text = IF res.html THEN new ELSE old
          /\ res'.content_length = res.content_length /\ res'.gzipped = res.gzipped
      BY <1>0, <3>1 DEF ResponseOK, FieldNames
    <3>3. res'.content_length <= Len(res'.text)
      BY <2>3, <2>4, <3>2
    <3>4. failed = "none" =>
            res'.text = IF page.html THEN replace_relative_html_links(page.text, url_prefix) ELSE page.text
      BY <2>4, <3>2
    <3>5. failed = "none" => res'.content_length = Len(page.text)
      BY <2>4, <3>2
    <3>6. QED
      BY <2>1, <3>2, <3>3, <3>4, <3>5 DEF PageInv
  <2>7. QED
    BY <2>5, <2>6
<1>14. CASE Over \/ UNCHANGED vars
  BY <1>14 DEF Over, vars, object, proxy, PageInv
<1>15. QED
  BY <1>1, <1>2, <1>3, <1>4, <1>5, <1>6, <1>7, <1>8, <1>9, <1>10, <1>11, <1>12, <1>13, <1>14 DEF Next

\* Under prefixes that look like no link, what has become of a page is known
\* throughout.
THEOREM PageInvariance == ASSUME LinklessPrefixes PROVE Spec => []PageInv
<1>1. FramingInv /\ ProxyInv /\ TypeInv /\ PageInv /\ [Next]_vars => PageInv'
  BY PageNext
<1>2. QED
  BY <1>1, PageInit, FramingInvariance, ProxyInvariance, TypeInvariance, PTL DEF Spec

\* Under prefixes that look like no link, the client always gets at least as many
\* bytes as were announced, although pages are rewritten after their length was
\* fixed.
THEOREM MissingBytesTheorem == ASSUME LinklessPrefixes PROVE Spec => []NoMissingBytes
<1>1. FramingInv /\ TypeInv /\ PageInv => NoMissingBytes
  BY DEF FramingInv, Framed, TypeInv, TypeOK, PageInv, NoMissingBytes, BodyLength
<1>2. QED
  BY <1>1, FramingInvariance, TypeInvariance, PageInvariance, PTL

\* Under prefixes that look like no link, the four replacements lead every link to
\* the root back to the proxy, and change nothing else in a page, of which the client
\* gets as many bytes as the upstream page had.
THEOREM LinksTheorem == ASSUME LinklessPrefixes PROVE Spec => []LinksRewritten
<1>1. ProxyInv /\ PageInv => LinksRewritten
  <2> SUFFICES ASSUME ProxyInv, PageInv PROVE LinksRewritten
    OBVIOUS
  <2>1. page.text \in Text /\ url_prefix \in Prefixes \cup {<<>>}
    BY PageIsText DEF PageInv
  <2>2. replace_relative_html_links(page.text, url_prefix) =
          IF url_prefix # Root THEN Relinked(page.text, url_prefix) ELSE page.text
    BY <2>1, PageRelinked
  <2>3. QED
    BY <2>2 DEF PageInv, LinksRewritten, Received
<1>2. QED
  BY <1>1, ProxyInvariance, PageInvariance, PTL
=============================================================================
