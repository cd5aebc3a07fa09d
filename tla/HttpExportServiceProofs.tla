------------------------ MODULE HttpExportServiceProofs ------------------------
(* Proof that HttpExport implements FileService, for any requests, sources *)
(* and contents: each step of the handler is one of the service, or none.  *)
EXTENDS HttpExportService, HttpExportProofs

USE DEF Service!Elsewhere, Service!NoReply, Service!Error, Service!Head

\* The service that is stepped through agrees with the handler's variables.
LEMMA PhaseMoves ==
    ASSUME TypeOK, NEW r \in Requests, NEW where, pc' = [pc EXCEPT ![r] = where]
    PROVE  Phase' = [Phase EXCEPT ![r] = PhaseOf(where)]
BY DEF Phase, TypeOK

LEMMA TargetStays == ASSUME req' = req PROVE Target' = Target
BY DEF Target, ServedByHttp, Url, Mounted, sources

\* Nothing is being listed before and after a step that is not about "text".
LEMMA ChosenStays ==
    ASSUME TypeOK, NEW r \in Requests, NEW where, pc' = [pc EXCEPT ![r] = where],
           \A q \in Requests \ {r} : heard'[q] = heard[q],
           pc[r] # "text", where # "text"
    PROVE  Chosen' = Chosen
BY DEF Chosen, TypeOK

LEMMA ChosenCleared ==
    ASSUME TypeOK, NEW r \in Requests, NEW where, pc' = [pc EXCEPT ![r] = where],
           \A q \in Requests \ {r} : heard'[q] = heard[q],
           where # "text"
    PROVE  Chosen' = [Chosen EXCEPT ![r] = Absent]
BY DEF Chosen, TypeOK

LEMMA InitMaps == Init => Service!Init
<1> SUFFICES ASSUME Init PROVE Service!Init
  OBVIOUS
<1>1. upstream \in [Urls -> (Content \ ErrorPages) \cup {Absent}]
  BY ContentAssumption DEF Init, Node, Content
<1>2. Target \in [Requests -> Urls \cup {<<>>}]
  BY DEF Init, Target, ServedByHttp, Url, Urls, Request
<1>3. QED
  BY <1>1, <1>2 DEF Init, Service!Init, Phase, PhaseOf, Chosen, NoResponse, Reply

\* What an answer to a request served by an HTTP source says of its URL.
LEMMA AnswerShown ==
    ASSUME HandlerInv, NEW r \in Requests, NEW a \in UpstreamAnswers(r)
    PROVE  /\ Target[r] = Url(r) /\ Url(r) \in Urls
           /\ ListError(a) = "Ok" =>
                 a = Found(upstream[Url(r)]) /\ upstream[Url(r)] # Absent
           /\ MetadataError(a) = "Ok" =>
                 /\ a.content \in Service!Shown(r)
                 /\ a.content \in Content
                 /\ AnnouncedLengths(a) = Service!Lengths(a.content)
           /\ "FileNotFound" \in {ListError(a), MetadataError(a)} =>
                 upstream[Url(r)] = Absent
<1>1. /\ ServedByHttp(r)
      /\ a \in Answers(upstream[Url(r)])
      /\ upstream[Url(r)] \in Node /\ Url(r) \in Urls
  BY UpstreamAnswersTyped, UrlTyped DEF HandlerInv
<1>2. QED
  BY <1>1, ContentAssumption
     DEF Answers, Failed, Refusals, Missing, Found, ListError, MetadataError,
         Target, Service!Shown, Service!Lengths, AnnouncedLengths, Content, Node

LEMMA AcceptMaps ==
    ASSUME HandlerInv, NEW r \in Requests, Accept(r)
    PROVE  Service!Begin(r) \/ Service!SendElsewhere(r)
<1> USE DEF HandlerInv
<1>1. Phase[r] = "idle" /\ Target' = Target /\ Chosen' = Chosen
  <2>1. Target' = Target
    BY TargetStays DEF Accept
  <2>2. Chosen' = Chosen
    BY DEF Accept, Chosen, Await, Return, TypeOK
  <2>3. QED
    BY <2>1, <2>2 DEF Accept, Phase, PhaseOf
<1>2. CASE ServedByHttp(r)
  <2>1. Target[r] # <<>>
    BY <1>2 DEF Target, Url
  <2>2. Phase' = [Phase EXCEPT ![r] = "pending"]
    BY <1>2, PhaseMoves DEF Accept, Await, ServedByHttp, PhaseOf
  <2>3. QED
    BY <1>1, <1>2, <2>1, <2>2
       DEF Accept, Await, ServedByHttp, Service!Begin, Service!Becomes
<1>3. CASE ~ServedByHttp(r)
  <2>1. Target[r] = <<>>
    BY <1>3 DEF Target
  <2>2. Phase' = [Phase EXCEPT ![r] = "complete"]
    BY <1>3, PhaseMoves DEF Accept, Return, PhaseOf
  <2>3. \/ resp' = [resp EXCEPT ![r] = ErrorReply(404)]
        \/ resp' = [resp EXCEPT ![r] = ErrorReply(500)]
    BY <1>3 DEF Accept, Return, FailureReply
  <2>4. QED
    BY <1>1, <1>3, <2>1, <2>2, <2>3
       DEF Accept, Service!SendElsewhere, Service!Becomes, Service!Replies,
           ErrorReply, Reply
<1>4. QED
  BY <1>2, <1>3

\* A handler that gives up answers as the service does: not found while the
\* URL holds nothing, else a failure.
LEMMA FailureMaps ==
    ASSUME HandlerInv, NEW r \in Requests, NEW error,
           pc[r] \in Waiting,
           error = "FileNotFound" =>
              /\ pc[r] \in {"head", "read"}
              /\ upstream[Target[r]] = Absent,
           Return(r, FailureReply(error), "complete"),
           \A q \in Requests \ {r} : heard'[q] = heard[q],
           UNCHANGED <<upstream, req, headers, sent>>
    PROVE  Service!SendNotFound(r) \/ Service!SendFailure(r)
<1> USE DEF HandlerInv
<1>1. Phase' = [Phase EXCEPT ![r] = "complete"]
  BY PhaseMoves DEF Return, PhaseOf
<1>2. Chosen' = [Chosen EXCEPT ![r] = Absent] /\ Target' = Target
  BY ChosenCleared, TargetStays DEF Return
<1>3. CASE error = "FileNotFound"
  <2>1. Chosen' = Chosen
    BY <1>3, ChosenStays DEF Return
  <2>2. Phase[r] \in {"pending", "announced"}
    BY <1>3 DEF Phase, PhaseOf
  <2>3. resp' = [resp EXCEPT ![r] = ErrorReply(404)]
    BY <1>3 DEF Return, FailureReply
  <2>4. QED
    BY <1>1, <1>2, <1>3, <2>1, <2>2, <2>3
       DEF Service!SendNotFound, Service!Becomes, Service!Replies, ErrorReply,
           Reply
<1>4. CASE error # "FileNotFound"
  <2>1. Phase[r] \in {"pending", "listed", "announced"}
    BY DEF Phase, PhaseOf, Waiting
  <2>2. resp' = [resp EXCEPT ![r] = ErrorReply(500)]
    BY <1>4 DEF Return, FailureReply
  <2>3. QED
    BY <1>1, <1>2, <2>1, <2>2
       DEF Service!SendFailure, Service!Becomes, Service!Replies, ErrorReply,
           Reply
<1>5. QED
  BY <1>3, <1>4

LEMMA ListAnsweredMaps ==
    ASSUME HandlerInv, NEW r \in Requests, NEW a \in UpstreamAnswers(r),
           ListAnswered(r, a)
    PROVE  \/ Service!Choose(r) \/ Service!SendFailure(r)
           \/ UNCHANGED Service!vars
<1> USE DEF HandlerInv
<1>1. Phase[r] = "pending" /\ Target' = Target
  BY TargetStays DEF ListAnswered, Phase, PhaseOf
<1>2. CASE ListError(a) = "Ok"
  <2>1. Phase' = [Phase EXCEPT ![r] = "listed"]
    BY <1>2, PhaseMoves DEF ListAnswered, Await, PhaseOf
  <2>2. a.content = upstream[Target[r]] /\ upstream[Target[r]] # Absent
    BY <1>2, AnswerShown DEF Found
  <2>3. Chosen' = [Chosen EXCEPT ![r] = a.content]
    BY <1>2 DEF ListAnswered, Await, Hear, Chosen, TypeOK, Calls
  <2>4. QED
    BY <1>1, <1>2, <2>1, <2>2, <2>3
       DEF ListAnswered, Await, Service!Choose, Service!Becomes
<1>3. CASE ListError(a) = "FileNotFound"
  <2>1. Phase' = Phase
    BY <1>3 DEF ListAnswered, Await, Phase, PhaseOf, TypeOK
  <2>2. Chosen' = Chosen
    BY <1>3, ChosenStays DEF ListAnswered, Await, Hear, TypeOK
  <2>3. QED
    BY <1>1, <1>3, <2>1, <2>2 DEF ListAnswered, Await, Service!vars
<1>4. CASE ListError(a) \notin {"Ok", "FileNotFound"}
  <2>1. Service!SendNotFound(r) \/ Service!SendFailure(r)
    BY <1>4, FailureMaps DEF ListAnswered, Hear, Waiting, TypeOK
  <2>2. ~Service!SendNotFound(r)
    BY <1>4 DEF ListAnswered, Return, FailureReply, ErrorReply, Reply,
                Service!SendNotFound, Service!Replies, TypeOK
  <2>3. QED
    BY <2>1, <2>2
<1>5. QED
  BY <1>2, <1>3, <1>4

LEMMA ListTextMaps ==
    ASSUME HandlerInv, NEW r \in Requests, ListTextRead(r) \/ ListTextFailed(r)
    PROVE  \/ Service!SendListing(r)
           \/ Service!SendNotFound(r) \/ Service!SendFailure(r)
<1> USE DEF HandlerInv
<1>1. CASE ListTextRead(r)
  <2>1. Phase[r] = "listed" /\ Target' = Target
    BY <1>1, TargetStays DEF ListTextRead, Phase, PhaseOf
  <2>2. Phase' = [Phase EXCEPT ![r] = "complete"]
    BY <1>1, PhaseMoves DEF ListTextRead, Return, PhaseOf
  <2>3. Chosen' = [Chosen EXCEPT ![r] = Absent]
    BY <1>1, ChosenCleared DEF ListTextRead, Return
  <2>4. Chosen[r] = heard[r]["list"].content
    BY <1>1 DEF ListTextRead, Chosen
  <2>5. QED
    BY <1>1, <2>1, <2>2, <2>3, <2>4
       DEF ListTextRead, Return, Reply, Service!SendListing, Service!Becomes,
           Service!Replies
<1>2. CASE ListTextFailed(r)
  BY <1>2, FailureMaps DEF ListTextFailed, TextError, Hear, Waiting, TypeOK
<1>3. QED
  BY <1>1, <1>2

LEMMA HeadAnsweredMaps ==
    ASSUME HandlerInv, NEW r \in Requests, NEW a \in UpstreamAnswers(r),
           NEW length \in AnnouncedLengths(a), HeadAnswered(r, a, length)
    PROVE  \/ Service!SendNotFound(r) \/ Service!SendFailure(r)
           \/ /\ Phase[r] = "pending"
              /\ \E c \in Service!Shown(r) : \E l \in Service!Lengths(c) :
                    Service!Announce(r, l) \/ Service!SendHeaders(r, c, l)
<1> USE DEF HandlerInv
<1>1. /\ Phase[r] = "pending" /\ Target' = Target
      /\ \A q \in Requests \ {r} : heard'[q] = heard[q]
  BY TargetStays DEF HeadAnswered, Phase, PhaseOf, Hear, TypeOK
<1>2. CASE MetadataError(a) # "Ok"
  BY <1>1, <1>2, FailureMaps, AnswerShown DEF HeadAnswered, Waiting
<1>3. CASE MetadataError(a) = "Ok"
  <2>1. a.content \in Service!Shown(r) /\ length \in Service!Lengths(a.content)
    BY <1>3, AnswerShown
  <2>2. CASE req[r].method = "HEAD"
    <3>1. Phase' = [Phase EXCEPT ![r] = "complete"] /\ Chosen' = Chosen
      BY <1>1, <1>3, <2>2, PhaseMoves, ChosenStays
         DEF HeadAnswered, Return, PhaseOf
    <3>2. Service!SendHeaders(r, a.content, length)
      BY <1>1, <1>3, <2>2, <3>1
         DEF HeadAnswered, Return, Reply, Service!SendHeaders, Service!Becomes,
             Service!Replies
    <3>3. QED
      BY <1>1, <2>1, <3>2
  <2>3. CASE req[r].method # "HEAD"
    <3>1. Phase' = [Phase EXCEPT ![r] = "announced"] /\ Chosen' = Chosen
      BY <1>1, <1>3, <2>3, PhaseMoves, ChosenStays
         DEF HeadAnswered, Await, PhaseOf
    <3>2. Service!Announce(r, length)
      BY <1>1, <1>3, <2>3, <3>1
         DEF HeadAnswered, Await, Service!Announce, Service!Becomes
    <3>3. QED
      BY <1>1, <2>1, <3>2
  <2>4. QED
    BY <2>2, <2>3
<1>4. QED
  BY <1>2, <1>3

LEMMA ReadAnsweredMaps ==
    ASSUME HandlerInv, NEW r \in Requests, NEW a \in UpstreamAnswers(r),
           ReadAnswered(r, a)
    PROVE  \/ Service!SendNotFound(r) \/ Service!SendFailure(r)
           \/ /\ Phase[r] = "announced"
              /\ \E c \in Service!Shown(r) : Service!SendFile(r, c)
<1> USE DEF HandlerInv
<1>1. /\ Phase[r] = "announced" /\ Target' = Target
      /\ \A q \in Requests \ {r} : heard'[q] = heard[q]
  BY TargetStays DEF ReadAnswered, Phase, PhaseOf, Hear, TypeOK
<1>2. CASE ReadError(a) # "Ok"
  BY <1>1, <1>2, FailureMaps, AnswerShown DEF ReadAnswered, ReadError, Waiting
<1>3. CASE ReadError(a) = "Ok"
  <2>1. Phase' = [Phase EXCEPT ![r] = "stream"] /\ Chosen' = Chosen
    BY <1>1, <1>3, PhaseMoves, ChosenStays DEF ReadAnswered, Return, PhaseOf
  <2>2. Service!SendFile(r, a.content)
    BY <1>1, <1>3, <2>1
       DEF ReadAnswered, Return, Reply, Service!SendFile, Service!Becomes,
           Service!Replies
  <2>3. QED
    BY <1>1, <1>3, <2>2, AnswerShown DEF ReadError
<1>4. QED
  BY <1>2, <1>3

LEMMA BodyMaps ==
    ASSUME HandlerInv, NEW r \in Requests,
           \/ StreamChunk(r) \/ StreamEnded(r) \/ StreamShort(r)
           \/ StreamFailed(r) \/ Disconnect(r)
    PROVE  Service!SendBytes(r) \/ Service!EndBody(r) \/ Service!Leave(r)
<1> USE DEF HandlerInv
<1>1. Target' = Target
  BY TargetStays
     DEF StreamChunk, StreamEnded, StreamShort, StreamFailed, Disconnect, Finish
<1>2. CASE StreamChunk(r)
  <2>1. sent[r] # None
    BY ContentAssumption DEF TypeOK
  <2>2. QED
    BY <1>1, <1>2, <2>1
       DEF StreamChunk, AllWritten, AllRead, Phase, PhaseOf, Chosen,
           Service!SendBytes
<1>3. CASE Disconnect(r)
  <2>1. Phase' = [Phase EXCEPT ![r] = "gone"]
    BY <1>3, PhaseMoves DEF Disconnect, Finish, PhaseOf
  <2>2. Chosen' = [Chosen EXCEPT ![r] = Absent]
    BY <1>3, ChosenCleared DEF Disconnect, Finish
  <2>3. Phase[r] \in {"pending", "listed", "announced", "stream"}
    BY <1>3 DEF Disconnect, Phase, PhaseOf, Waiting
  <2>4. QED
    BY <1>1, <1>3, <2>1, <2>2, <2>3
       DEF Disconnect, Finish, Service!Leave, Service!Becomes
<1>4. CASE StreamEnded(r) \/ StreamShort(r) \/ StreamFailed(r)
  <2>1. PICK where \in {"complete", "aborted"} :
           /\ pc[r] = "stream" /\ Finish(r, where)
           /\ where = "complete" => StreamEnded(r)
    BY <1>4 DEF StreamEnded, StreamShort, StreamFailed
  <2>2. Phase[r] = "stream" /\ Phase' = [Phase EXCEPT ![r] = where]
    BY <2>1, PhaseMoves DEF Finish, Phase, PhaseOf
  <2>3. Chosen' = Chosen
    BY <2>1, ChosenStays DEF Finish
  <2>4. CASE where = "aborted"
    BY <1>1, <2>1, <2>2, <2>3, <2>4 DEF Finish, Service!EndBody, Service!Becomes
  <2>5. CASE where = "complete"
    <3>1. sent[r] = IF resp[r].length = None THEN Length[resp[r].content]
                                             ELSE resp[r].length
      BY <2>1, <2>5 DEF StreamEnded, AllWritten, AllRead
    <3>2. QED
      BY <1>1, <2>1, <2>2, <2>3, <2>5, <3>1
         DEF Finish, Service!EndBody, Service!Becomes
  <2>6. QED
    BY <2>1, <2>4, <2>5
<1>5. QED
  BY <1>2, <1>3, <1>4

LEMMA PublishMaps ==
    ASSUME NEW u \in Urls, NEW node \in Node, Publish(u, node)
    PROVE  \E n \in (Content \ ErrorPages) \cup {Absent} : Service!Change(u, n)
<1>1. node \in (Content \ ErrorPages) \cup {Absent}
  BY ContentAssumption DEF Node, Content
<1>2. Service!Change(u, node)
  BY TargetStays DEF Publish, Service!Change, Phase, Chosen
<1>3. QED
  BY <1>1, <1>2

\* HttpExport implements FileService.
THEOREM HandlerImplementsService == Spec => ImplementsFileService
<1>1. HandlerInv /\ [Next]_vars => [Service!Next]_(Service!vars)
  <2> SUFFICES ASSUME HandlerInv, [Next]_vars
               PROVE  [Service!Next]_(Service!vars)
    OBVIOUS
  <2>1. CASE UNCHANGED vars
    BY <2>1, TargetStays DEF vars, Service!vars, Phase, Chosen
  <2>2. ASSUME NEW r \in Requests, Accept(r) PROVE Service!Next
    BY <2>2, AcceptMaps DEF Service!Next, Service!Serve
  <2>3. ASSUME NEW r \in Requests, NEW a \in UpstreamAnswers(r), ListAnswered(r, a)
        PROVE  [Service!Next]_(Service!vars)
    BY <2>3, ListAnsweredMaps DEF Service!Next, Service!Serve
  <2>4. ASSUME NEW r \in Requests, ListTextRead(r) \/ ListTextFailed(r)
        PROVE  Service!Next
    BY <2>4, ListTextMaps DEF Service!Next, Service!Serve
  <2>5. ASSUME NEW r \in Requests, NEW a \in UpstreamAnswers(r),
               NEW length \in AnnouncedLengths(a), HeadAnswered(r, a, length)
        PROVE  Service!Next
    BY <2>5, HeadAnsweredMaps DEF Service!Next, Service!Serve
  <2>6. ASSUME NEW r \in Requests, NEW a \in UpstreamAnswers(r), ReadAnswered(r, a)
        PROVE  Service!Next
    BY <2>6, ReadAnsweredMaps DEF Service!Next, Service!Serve
  <2>7. ASSUME NEW r \in Requests,
               \/ StreamChunk(r) \/ StreamEnded(r) \/ StreamShort(r)
               \/ StreamFailed(r) \/ Disconnect(r)
        PROVE  Service!Next
    BY <2>7, BodyMaps DEF Service!Next, Service!Serve
  <2>8. ASSUME NEW u \in Urls, NEW node \in Node, Publish(u, node)
        PROVE  Service!Next
    BY <2>8, PublishMaps DEF Service!Next
  <2>9. QED
    BY <2>1, <2>2, <2>3, <2>4, <2>5, <2>6, <2>7, <2>8 DEF Next, Handle
<1>2. QED
  BY <1>1, InitMaps, Inductive, PTL DEF Spec, Service!Spec, ImplementsFileService

===============================================================================
