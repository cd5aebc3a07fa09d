------------------------------ MODULE HttpExport ------------------------------
(***************************************************************************)
(* The HTTP exporter serving source paths:                                 *)
(* crates/fourtou-adapters/src/exports/http_server.rs.                     *)
(*                                                                         *)
(* One handler task runs per request. It is suspended at every await, and  *)
(* an action below runs it from the await it is suspended at to the next:  *)
(*                                                                         *)
(*   idle --Accept--> list --> text --> complete        directory listing  *)
(*                      |                                                  *)
(*                      +--> head --> read --> stream --> complete         *)
(*                                                   +--> aborted          *)
(*                                                                         *)
(* and from any of them to complete with an error page, or to gone when    *)
(* the client disconnects. The upstream changes between any two steps.     *)
(***************************************************************************)
EXTENDS HttpSource, Sequences

CONSTANTS
    Requests,        \* the requests clients make
    Aliases,         \* the first path segments clients ask for
    Paths,           \* the normalised paths below an alias
    Sources,         \* the configured sources
    HttpSources,     \* those of them AnySource dispatches to HttpSource
    AliasedSources   \* the exporter's `sources` vector

ASSUME ExportAssumption ==
    /\ HttpSources \subseteq Sources
    /\ AliasedSources \in Seq([alias : Aliases, source : Sources])

VARIABLES
    upstream,  \* what each upstream URL holds now
    req,       \* the request line of each request
    pc,        \* the await each handler is suspended at, or how it ended
    headers,   \* the Content-Length that serve_file has put in its headers
    resp,      \* the response head the handler has returned
    sent,      \* bytes of a file body relayed to the client
    heard,     \* history: the answer each upstream call of a request got
    seen       \* history: what its URL has held since a request was accepted

vars == <<upstream, req, pc, headers, resp, sent, heard, seen>>

Urls    == HttpSources \X Paths
Request == [alias : Aliases, path : Paths, method : {"GET", "HEAD"}]
Calls   == {"list", "head", "read"}

Waiting == {"list", "text", "head", "read"}
Ended   == {"complete", "aborted", "gone"}

Silence == [status |-> "none", content |-> Absent]

-------------------------------------------------------------------------------
(* Responses. An error page carries no content of the source.              *)

Response == [status  : {0, 200, 404, 500},
             kind    : {"none", "listing", "headers", "file", "error"},
             content : Content \cup {Absent},
             length  : Nat \cup {None}]

Reply(status, kind, content, length) ==
    [status |-> status, kind |-> kind, content |-> content, length |-> length]

NoResponse  == Reply(0, "none", Absent, None)
ErrorReply(status) == Reply(status, "error", Absent, None)

\* Faulty variants: a 502 no other place knows of; every error a 404.
FailureReply_BadGateway(error) ==
    Reply(IF error = "FileNotFound" THEN 404 ELSE 502, "error", Absent, None)

FailureReply_AlwaysNotFound(error) == ErrorReply(404)

\* FileNotFound becomes a 404, every other error of the source a 500.
FailureReply(error) ==
    ErrorReply(IF error = "FileNotFound" THEN 404 ELSE 500)

-------------------------------------------------------------------------------
(* Routing: an alias given twice keeps the source inserted last.           *)

Mounted == {AliasedSources[i].alias : i \in DOMAIN AliasedSources}

sources == [a \in Mounted |->
    AliasedSources[CHOOSE i \in DOMAIN AliasedSources :
        /\ AliasedSources[i].alias = a
        /\ \A j \in DOMAIN AliasedSources :
              AliasedSources[j].alias = a => j <= i].source]

ServedByHttp(r) ==
    /\ req[r].alias \in Mounted
    /\ sources[req[r].alias] \in HttpSources

Url(r) == <<sources[req[r].alias], req[r].path>>

-------------------------------------------------------------------------------
Init ==
    /\ upstream \in [Urls -> Node]
    /\ req \in [Requests -> Request]
    /\ pc = [r \in Requests |-> "idle"]
    /\ headers = [r \in Requests |-> None]
    /\ resp = [r \in Requests |-> NoResponse]
    /\ sent = [r \in Requests |-> 0]
    /\ heard = [r \in Requests |-> [c \in Calls |-> Silence]]
    /\ seen = [r \in Requests |-> {}]

\* The handler goes on to another await, or returns its response.
Await(r, where) ==
    /\ pc' = [pc EXCEPT ![r] = where]
    /\ UNCHANGED resp

Return(r, reply, where) ==
    /\ pc' = [pc EXCEPT ![r] = where]
    /\ resp' = [resp EXCEPT ![r] = reply]

Hear(r, call, a) == heard' = [heard EXCEPT ![r][call] = a]

\* handle_source_path up to its first await. The port's placeholders answer
\* at once with an error that is not FileNotFound.
Accept(r) ==
    /\ pc[r] = "idle"
    /\ \/ /\ req[r].alias \notin Mounted
          /\ Return(r, ErrorReply(404), "complete")
          /\ UNCHANGED seen
       \/ /\ req[r].alias \in Mounted
          /\ sources[req[r].alias] \notin HttpSources
          /\ Return(r, FailureReply("SourceNotFound"), "complete")
          /\ UNCHANGED seen
       \/ /\ ServedByHttp(r)
          /\ Await(r, "list")
          /\ seen' = [seen EXCEPT ![r] = {upstream[Url(r)]}]
    /\ UNCHANGED <<upstream, req, headers, sent, heard>>

\* Faulty variant: any error of the index request falls back to the file.
ListAnswered_AnyErrorIsFile(r, a) ==
    /\ pc[r] = "list"
    /\ Hear(r, "list", a)
    /\ Await(r, IF ListError(a) = "Ok" THEN "text" ELSE "head")
    /\ UNCHANGED <<upstream, req, headers, sent, seen>>

\* Faulty variant: an index request that failed is sent again.
ListAnswered_Retries(r, a) ==
    /\ pc[r] = "list"
    /\ Hear(r, "list", a)
    /\ Await(r, CASE ListError(a) = "Ok"           -> "text"
                 [] ListError(a) = "FileNotFound" -> "head"
                 [] OTHER                         -> "list")
    /\ UNCHANGED <<upstream, req, headers, sent, seen>>

\* The index request is answered. "Not found" means "not a directory": the
\* path is tried as a file.
ListAnswered(r, a) ==
    /\ pc[r] = "list"
    /\ Hear(r, "list", a)
    /\ \/ ListError(a) = "Ok" /\ Await(r, "text")
       \/ ListError(a) = "FileNotFound" /\ Await(r, "head")
       \/ /\ ListError(a) \notin {"Ok", "FileNotFound"}
          /\ Return(r, FailureReply(ListError(a)), "complete")
    /\ UNCHANGED <<upstream, req, headers, sent, seen>>

\* The whole body of the index has arrived: whatever it is, it is parsed and
\* rendered as a listing.
ListTextRead(r) ==
    /\ pc[r] = "text"
    /\ Return(r, Reply(200, "listing", heard[r]["list"].content, None), "complete")
    /\ UNCHANGED <<upstream, req, headers, sent, heard, seen>>

ListTextFailed(r) ==
    /\ pc[r] = "text"
    /\ Hear(r, "list", Failed)
    /\ Return(r, FailureReply(TextError), "complete")
    /\ UNCHANGED <<upstream, req, headers, sent, seen>>

\* serve_file: the answer to HEAD gives the headers. A HEAD request ends here.
HeadAnswered(r, a, length) ==
    /\ pc[r] = "head"
    /\ Hear(r, "head", a)
    /\ \/ /\ MetadataError(a) # "Ok"
          /\ Return(r, FailureReply(MetadataError(a)), "complete")
          /\ UNCHANGED headers
       \/ /\ MetadataError(a) = "Ok"
          /\ req[r].method = "HEAD"
          /\ Return(r, Reply(200, "headers", a.content, length), "complete")
          /\ headers' = [headers EXCEPT ![r] = length]
       \/ /\ MetadataError(a) = "Ok"
          /\ req[r].method = "GET"
          /\ Await(r, "read")
          /\ headers' = [headers EXCEPT ![r] = length]
    /\ UNCHANGED <<upstream, req, sent, seen>>

\* Faulty variant: a size that is not known is announced as zero.
ReadAnswered_SizeZero(r, a) ==
    /\ pc[r] = "read"
    /\ Hear(r, "read", a)
    /\ ReadError(a) = "Ok"
    /\ Return(r, Reply(200, "file", a.content,
                       IF headers[r] = None THEN 0 ELSE headers[r]), "stream")
    /\ UNCHANGED <<upstream, req, headers, sent, seen>>

\* serve_file: the answer to the second GET starts the body, under the
\* headers built from the HEAD before it.
ReadAnswered(r, a) ==
    /\ pc[r] = "read"
    /\ Hear(r, "read", a)
    /\ \/ /\ ReadError(a) # "Ok"
          /\ Return(r, FailureReply(ReadError(a)), "complete")
       \/ /\ ReadError(a) = "Ok"
          /\ Return(r, Reply(200, "file", a.content, headers[r]), "stream")
    /\ UNCHANGED <<upstream, req, headers, sent, seen>>

-------------------------------------------------------------------------------
(* The body of a file response. hyper writes no more than the announced    *)
(* length and ends the response when it has; a body that ends short of it, *)
(* and any stream error, closes the connection instead.                    *)

AllWritten(r) == resp[r].length # None /\ sent[r] = resp[r].length
AllRead(r)    == sent[r] = Length[resp[r].content]

Finish(r, where) ==
    /\ pc' = [pc EXCEPT ![r] = where]
    /\ UNCHANGED <<upstream, req, headers, resp, sent, heard, seen>>

StreamChunk(r) ==
    /\ pc[r] = "stream"
    /\ ~AllWritten(r) /\ ~AllRead(r)
    /\ sent' = [sent EXCEPT ![r] = @ + 1]
    /\ UNCHANGED <<upstream, req, pc, headers, resp, heard, seen>>

StreamEnded(r) ==
    /\ pc[r] = "stream"
    /\ AllWritten(r) \/ (AllRead(r) /\ resp[r].length = None)
    /\ Finish(r, "complete")

StreamShort(r) ==
    /\ pc[r] = "stream"
    /\ ~AllWritten(r) /\ AllRead(r) /\ resp[r].length # None
    /\ Finish(r, "aborted")

\* Faulty variant: the body stream ends at an error instead of passing it on.
StreamFailed_Swallowed(r) ==
    /\ pc[r] = "stream"
    /\ ~AllWritten(r)
    /\ Finish(r, "complete")

\* The upstream connection breaks or the client's total timeout runs out.
StreamFailed(r) ==
    /\ pc[r] = "stream"
    /\ ~AllWritten(r)
    /\ Finish(r, "aborted")

\* The client disconnects: the handler's future or its body is dropped.
Disconnect(r) ==
    /\ pc[r] \in Waiting \cup {"stream"}
    /\ Finish(r, "gone")

\* The upstream's owner adds, replaces or removes what a URL holds.
Publish(u, node) ==
    /\ upstream[u] # node
    /\ upstream' = [upstream EXCEPT ![u] = node]
    /\ seen' = [r \in Requests |->
                  IF pc[r] \in Waiting /\ Url(r) = u THEN seen[r] \cup {node}
                                                     ELSE seen[r]]
    /\ UNCHANGED <<req, pc, headers, resp, sent, heard>>

-------------------------------------------------------------------------------
(* The specification.                                                      *)

\* What the upstream may answer to a call of r made now.
UpstreamAnswers(r) ==
    IF ServedByHttp(r) THEN Answers(upstream[Url(r)]) ELSE {}

Handle(r) ==
    \/ Accept(r)
    \/ \E a \in UpstreamAnswers(r) : ListAnswered(r, a)
    \/ ListTextRead(r)
    \/ ListTextFailed(r)
    \/ \E a \in UpstreamAnswers(r) :
          \E length \in AnnouncedLengths(a) : HeadAnswered(r, a, length)
    \/ \E a \in UpstreamAnswers(r) : ReadAnswered(r, a)
    \/ StreamChunk(r)
    \/ StreamEnded(r)
    \/ StreamShort(r)
    \/ StreamFailed(r)
    \/ Disconnect(r)

Next ==
    \/ \E r \in Requests : Handle(r)
    \/ \E u \in Urls, node \in Node : Publish(u, node)

Spec == Init /\ [][Next]_vars

\* Faulty variant: a timeout on reaching the server, none on the body.
TimedOut_ConnectOnly(r) ==
    \/ ListAnswered(r, Failed)
    \/ HeadAnswered(r, Failed, None)
    \/ ReadAnswered(r, Failed)

\* reqwest's total timeout ends the wait for an answer and for an index body.
TimedOut(r) ==
    \/ ListAnswered(r, Failed)
    \/ ListTextFailed(r)
    \/ HeadAnswered(r, Failed, None)
    \/ ReadAnswered(r, Failed)

\* The runtime polls every spawned task, and every call has its timeout.
\* Nothing is assumed of the upstream, of the client or of body streaming.
FairSpec ==
    /\ Spec
    /\ \A r \in Requests : WF_vars(Accept(r)) /\ WF_vars(TimedOut(r))

-------------------------------------------------------------------------------
(* Properties.                                                             *)

\* Every variable keeps its type; in particular the handler never answers
\* with a status or a body outside the ones the code builds.
TypeOK ==
    /\ upstream \in [Urls -> Node]
    /\ req \in [Requests -> Request]
    /\ pc \in [Requests -> {"idle", "stream"} \cup Waiting \cup Ended]
    /\ headers \in [Requests -> Nat \cup {None}]
    /\ resp \in [Requests -> Response]
    /\ sent \in [Requests -> Nat]
    /\ heard \in [Requests -> [Calls -> Answer \cup {Silence}]]
    /\ seen \in [Requests -> SUBSET Node]

\* A path of an HTTP source is answered 404 only when the upstream said 404
\* twice in this request, to the index request and to a later call, so the
\* URL did hold nothing at some moment of it: no error, timeout or single
\* missed answer is ever turned into "not found".
NotFoundConfirmedTwice ==
    \A r \in Requests :
        resp[r].status = 404 /\ ServedByHttp(r) =>
            /\ heard[r]["list"] = Missing
            /\ Missing \in {heard[r]["head"], heard[r]["read"]}
            /\ Absent \in seen[r]

\* A listing is rendered only from a page the URL really held while the
\* request was running, arrived in full: a refused, broken off or timed out
\* index request never shows as an (empty or partial) directory.
ListingIsSnapshot ==
    \A r \in Requests :
        resp[r].kind = "listing" =>
            /\ resp[r].content \in seen[r] \ {Absent}
            /\ heard[r]["list"] = Found(resp[r].content)

\* A 500 is always somebody else's failure: a placeholder source, or an
\* upstream call of this request that failed or (the index request only)
\* was refused. An upstream that merely changes never causes one.
ServerErrorExplained ==
    \A r \in Requests :
        resp[r].status = 500 =>
            \/ ~ServedByHttp(r)
            \/ heard[r]["list"] \in {Failed} \cup Refusals
            \/ Failed \in {heard[r]["head"], heard[r]["read"]}

\* A body that ended well is complete in the sense its head announced: as
\* long as the announced length, or without one as long as the upstream's
\* body. An interrupted stream is never passed off as a whole one.
NoSilentTruncation ==
    \A r \in Requests :
        pc[r] = "complete" /\ resp[r].kind = "file" =>
            IF resp[r].length = None THEN AllRead(r) ELSE AllWritten(r)

\* The length comes from HEAD and the body from a later GET. The client gets
\* the whole body of a response that ended well whenever the two answers
\* were about the same content: only a change, or a refusal of one of the two
\* calls or of both with different pages, can cut it.
WholeUnlessChangedBetween ==
    \A r \in Requests :
        /\ pc[r] = "complete"
        /\ resp[r].kind = "file"
        /\ heard[r]["head"].content = heard[r]["read"].content
        => AllRead(r)

\* serve_file is reached only through a 404 to the index request for the same
\* URL, so a file is served (or described to HEAD) only when the URL held
\* nothing earlier in this very request.
FileOnlyAfterMissing ==
    \A r \in Requests :
        resp[r].kind \in {"file", "headers"} =>
            /\ heard[r]["list"] = Missing
            /\ Absent \in seen[r]

\* Every request gets its response head, however the upstream behaves: each
\* of the at most three upstream calls is bounded by the client's timeout.
EveryRequestAnswered ==
    \A r \in Requests : pc[r] = "idle" ~> pc[r] \in Ended \cup {"stream"}

\* How far a handler has got.
Stage(await) ==
    CASE await = "idle"             -> 0
      [] await = "list"             -> 1
      [] await \in {"text", "head"} -> 2
      [] await = "read"             -> 3
      [] await = "stream"           -> 4
      [] OTHER                      -> 5

\* No request is worked on for ever, and none is started over: each step of a
\* handler takes it to a later await, so no upstream call is made twice, or
\* relays one byte more of a body that has only so many. What its client was
\* told, once the response head is out, never changes.
HandlersAdvance ==
    [][\A r \in Requests :
          /\ resp[r] # NoResponse => resp'[r] = resp[r]
          /\ \/ Stage(pc[r]) < Stage(pc'[r])
             \/ /\ pc[r] = "stream" /\ pc'[r] = "stream"
                /\ sent[r] < sent'[r] /\ sent'[r] <= Length[resp[r].content]
             \/ UNCHANGED <<pc[r], headers[r], resp[r], sent[r], heard[r]>>]_vars

-------------------------------------------------------------------------------
(* The inductive invariant: what a handler knows at each await, and what   *)
(* the body of a file response is bound by.                                *)

Knows(r) ==
    /\ pc[r] \in {"idle"} \cup Waiting => resp[r] = NoResponse /\ sent[r] = 0
    /\ pc[r] \in Waiting => ServedByHttp(r) /\ upstream[Url(r)] \in seen[r]
    /\ pc[r] = "text" =>
          /\ heard[r]["list"] = Found(heard[r]["list"].content)
          /\ heard[r]["list"].content \in seen[r] \ {Absent}
    /\ pc[r] \in {"head", "read"} =>
          heard[r]["list"] = Missing /\ Absent \in seen[r]
    /\ pc[r] = "read" => headers[r] \in AnnouncedLengths(heard[r]["head"])

AwaitInv == \A r \in Requests : Knows(r)

BodyInv ==
    \A r \in Requests :
        /\ pc[r] = "stream" => resp[r].kind = "file"
        /\ resp[r].kind = "file" =>
              /\ resp[r].content \in Content
              /\ resp[r].content = heard[r]["read"].content
              /\ sent[r] <= Length[resp[r].content]
              /\ resp[r].length \in AnnouncedLengths(heard[r]["head"])

\* What every step preserves; the safety properties above are parts of it or
\* follow from it.
HandlerInv ==
    /\ TypeOK
    /\ AwaitInv
    /\ BodyInv
    /\ NotFoundConfirmedTwice
    /\ ListingIsSnapshot
    /\ ServerErrorExplained
    /\ NoSilentTruncation
    /\ FileOnlyAfterMissing

-------------------------------------------------------------------------------
(* What the repository's comments and docs say, and the code does not do.  *)

\* http_server.rs:234 "It's a directory - return listing".
ListingsAreOfDirectories ==
    \A r \in Requests :
        resp[r].kind = "listing" => resp[r].content \in Dirs

\* ports/source.rs: read_file yields the file's content "or an error if the
\* file cannot be read". Here: a file body is content the URL has held, not
\* the page of an upstream error.
FileBodiesAreFileContent ==
    \A r \in Requests :
        resp[r].kind = "file" => resp[r].content \in seen[r]

===============================================================================
