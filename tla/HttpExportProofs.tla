--------------------------- MODULE HttpExportProofs ---------------------------
(* Proofs about HttpExport, for any set of requests, aliases, paths,       *)
(* sources and contents.                                                   *)
EXTENDS HttpExport, TLAPS

-------------------------------------------------------------------------------
(* Lemmas about the upstream's answers.                                    *)

\* Every answer the upstream may give is an Answer.
LEMMA AnswersTyped ==
    ASSUME NEW node \in Node, NEW a \in Answers(node)
    PROVE  a \in Answer
BY DEF Answers, Answer, Failed, Refusals, Missing, Found, Node, Content

\* An announced length is a number of bytes or missing.
LEMMA LengthsTyped ==
    ASSUME NEW a, NEW length \in AnnouncedLengths(a)
    PROVE  length \in Nat \cup {None}
BY ContentAssumption DEF AnnouncedLengths

\* A request served by an HTTP source has a URL of the upstream.
LEMMA UrlTyped ==
    ASSUME TypeOK, NEW r \in Requests, ServedByHttp(r)
    PROVE  /\ Url(r) \in Urls
           /\ upstream[Url(r)] \in Node
<1>1. Url(r) \in Urls
  BY DEF TypeOK, ServedByHttp, Url, Urls, Request
<1>2. QED
  BY <1>1 DEF TypeOK

\* What a handler hears is an answer to the URL's present content.
LEMMA UpstreamAnswersTyped ==
    ASSUME TypeOK, NEW r \in Requests, NEW a \in UpstreamAnswers(r)
    PROVE  /\ ServedByHttp(r)
           /\ a \in Answer
           /\ a \in Answers(upstream[Url(r)])
<1>1. ServedByHttp(r) /\ a \in Answers(upstream[Url(r)])
  BY DEF UpstreamAnswers
<1>2. QED
  BY <1>1, UrlTyped, AnswersTyped

-------------------------------------------------------------------------------
(* Type correctness.                                                       *)

\* Hearing an answer keeps the history typed.
LEMMA HearTyped ==
    ASSUME TypeOK, NEW r \in Requests, NEW call \in Calls, NEW a \in Answer,
           Hear(r, call, a)
    PROVE  heard' \in [Requests -> [Calls -> Answer \cup {Silence}]]
BY DEF TypeOK, Hear

\* Suspending and returning keep pc and resp typed.
LEMMA ReturnTyped ==
    ASSUME TypeOK, NEW r \in Requests, NEW reply \in Response,
           NEW where \in {"stream"} \cup Waiting \cup Ended,
           Return(r, reply, where) \/ Await(r, where)
    PROVE  /\ pc' \in [Requests -> {"idle", "stream"} \cup Waiting \cup Ended]
           /\ resp' \in [Requests -> Response]
BY DEF TypeOK, Return, Await

\* The replies the handler builds are responses.
LEMMA RepliesTyped ==
    /\ NoResponse \in Response
    /\ \A status \in {404, 500} : ErrorReply(status) \in Response
    /\ \A error : FailureReply(error) \in Response
    /\ \A kind \in {"listing", "headers", "file"}, c \in Content \cup {Absent},
         length \in Nat \cup {None} : Reply(200, kind, c, length) \in Response
BY DEF NoResponse, ErrorReply, FailureReply, Reply, Response

THEOREM TypeCorrect == Spec => []TypeOK
<1>1. Init => TypeOK
  BY RepliesTyped DEF Init, TypeOK, Silence
<1>2. TypeOK /\ [Next]_vars => TypeOK'
  <2> SUFFICES ASSUME TypeOK, [Next]_vars PROVE TypeOK'
    OBVIOUS
  <2>1. ASSUME NEW r \in Requests, Accept(r) PROVE TypeOK'
    <3>1. /\ pc' \in [Requests -> {"idle", "stream"} \cup Waiting \cup Ended]
          /\ resp' \in [Requests -> Response]
      BY <2>1, ReturnTyped, RepliesTyped DEF Accept, Waiting, Ended
    <3>2. seen' \in [Requests -> SUBSET Node]
      BY <2>1, UrlTyped DEF Accept, TypeOK
    <3>3. QED
      BY <2>1, <3>1, <3>2 DEF Accept, TypeOK
  <2>2. ASSUME NEW r \in Requests, NEW a \in UpstreamAnswers(r), ListAnswered(r, a)
        PROVE  TypeOK'
    <3>1. heard' \in [Requests -> [Calls -> Answer \cup {Silence}]]
      BY <2>2, HearTyped, UpstreamAnswersTyped DEF ListAnswered, Calls
    <3>2. /\ pc' \in [Requests -> {"idle", "stream"} \cup Waiting \cup Ended]
          /\ resp' \in [Requests -> Response]
      BY <2>2, ReturnTyped, RepliesTyped DEF ListAnswered, Waiting, Ended
    <3>3. QED
      BY <2>2, <3>1, <3>2 DEF ListAnswered, TypeOK
  <2>3. ASSUME NEW r \in Requests, ListTextRead(r) PROVE TypeOK'
    <3>1. heard[r]["list"].content \in Content \cup {Absent}
      BY DEF TypeOK, Calls, Answer, Silence
    <3>2. /\ pc' \in [Requests -> {"idle", "stream"} \cup Waiting \cup Ended]
          /\ resp' \in [Requests -> Response]
      BY <2>3, <3>1, ReturnTyped, RepliesTyped DEF ListTextRead, Waiting, Ended
    <3>3. QED
      BY <2>3, <3>2 DEF ListTextRead, TypeOK
  <2>4. ASSUME NEW r \in Requests, ListTextFailed(r) PROVE TypeOK'
    <3>1. heard' \in [Requests -> [Calls -> Answer \cup {Silence}]]
      BY <2>4, HearTyped DEF ListTextFailed, Calls, Failed, Answer
    <3>2. /\ pc' \in [Requests -> {"idle", "stream"} \cup Waiting \cup Ended]
          /\ resp' \in [Requests -> Response]
      BY <2>4, ReturnTyped, RepliesTyped DEF ListTextFailed, Waiting, Ended
    <3>3. QED
      BY <2>4, <3>1, <3>2 DEF ListTextFailed, TypeOK
  <2>5. ASSUME NEW r \in Requests, NEW a \in UpstreamAnswers(r),
               NEW length \in AnnouncedLengths(a), HeadAnswered(r, a, length)
        PROVE  TypeOK'
    <3>1. a \in Answer /\ a.content \in Content \cup {Absent}
      BY UpstreamAnswersTyped DEF Answer
    <3>2. length \in Nat \cup {None}
      BY LengthsTyped
    <3>3. heard' \in [Requests -> [Calls -> Answer \cup {Silence}]]
      BY <2>5, <3>1, HearTyped DEF HeadAnswered, Calls
    <3>4. /\ pc' \in [Requests -> {"idle", "stream"} \cup Waiting \cup Ended]
          /\ resp' \in [Requests -> Response]
      BY <2>5, <3>1, <3>2, ReturnTyped, RepliesTyped
         DEF HeadAnswered, Waiting, Ended
    <3>5. headers' \in [Requests -> Nat \cup {None}]
      BY <2>5, <3>2 DEF HeadAnswered, TypeOK
    <3>6. QED
      BY <2>5, <3>3, <3>4, <3>5 DEF HeadAnswered, TypeOK
  <2>6. ASSUME NEW r \in Requests, NEW a \in UpstreamAnswers(r), ReadAnswered(r, a)
        PROVE  TypeOK'
    <3>1. a \in Answer /\ a.content \in Content \cup {Absent}
      BY UpstreamAnswersTyped DEF Answer
    <3>2. headers[r] \in Nat \cup {None}
      BY DEF TypeOK
    <3>3. heard' \in [Requests -> [Calls -> Answer \cup {Silence}]]
      BY <2>6, <3>1, HearTyped DEF ReadAnswered, Calls
    <3>4. /\ pc' \in [Requests -> {"idle", "stream"} \cup Waiting \cup Ended]
          /\ resp' \in [Requests -> Response]
      BY <2>6, <3>1, <3>2, ReturnTyped, RepliesTyped DEF ReadAnswered, Ended
    <3>5. QED
      BY <2>6, <3>3, <3>4 DEF ReadAnswered, TypeOK
  <2>7. ASSUME NEW r \in Requests, StreamChunk(r) PROVE TypeOK'
    BY <2>7 DEF StreamChunk, TypeOK
  <2>8. ASSUME NEW r \in Requests,
               StreamEnded(r) \/ StreamShort(r) \/ StreamFailed(r) \/ Disconnect(r)
        PROVE  TypeOK'
    BY <2>8 DEF StreamEnded, StreamShort, StreamFailed, Disconnect, Finish,
                TypeOK, Ended
  <2>9. ASSUME NEW u \in Urls, NEW node \in Node, Publish(u, node) PROVE TypeOK'
    <3>1. upstream' \in [Urls -> Node]
      BY <2>9 DEF Publish, TypeOK
    <3>2. seen' \in [Requests -> SUBSET Node]
      BY <2>9 DEF Publish, TypeOK
    <3>3. QED
      BY <2>9, <3>1, <3>2 DEF Publish, TypeOK
  <2>10. CASE UNCHANGED vars
    BY <2>10 DEF vars, TypeOK
  <2>11. QED
    BY <2>1, <2>2, <2>3, <2>4, <2>5, <2>6, <2>7, <2>8, <2>9, <2>10
       DEF Next, Handle
<1>3. QED
  BY <1>1, <1>2, PTL DEF Spec

-------------------------------------------------------------------------------
(* The inductive invariant.                                                *)

\* What an answer tells about the URL, and which error each call makes of it.
LEMMA UpstreamAnswersMean ==
    ASSUME TypeOK, NEW r \in Requests, NEW a \in UpstreamAnswers(r)
    PROVE  /\ a \in Answer
           /\ ServedByHttp(r)
           /\ a = Missing => upstream[Url(r)] = Absent
           /\ ListError(a) = "Ok" =>
                 /\ a = Found(a.content)
                 /\ a.content = upstream[Url(r)]
                 /\ a.content # Absent
           /\ ListError(a) = "FileNotFound" => a = Missing
           /\ ListError(a) \notin {"Ok", "FileNotFound"} => a \in {Failed} \cup Refusals
           /\ MetadataError(a) = "FileNotFound" => a = Missing
           /\ MetadataError(a) \notin {"Ok", "FileNotFound"} => a = Failed
           /\ MetadataError(a) = "Ok" => a.content \in Content
           /\ ReadError(a) = MetadataError(a)
<1>1. /\ ServedByHttp(r)
      /\ a \in Answer
      /\ a \in Answers(upstream[Url(r)])
  BY UpstreamAnswersTyped
<1>2. CASE a = Failed
  BY <1>1, <1>2 DEF Failed, Missing, ListError, MetadataError, ReadError
<1>3. CASE a \in Refusals
  BY <1>1, <1>3 DEF Refusals, Missing, ListError, MetadataError, ReadError, Content
<1>4. CASE upstream[Url(r)] = Absent /\ a = Missing
  BY <1>1, <1>4 DEF Missing, ListError, MetadataError, ReadError
<1>5. CASE upstream[Url(r)] # Absent /\ a = Found(upstream[Url(r)])
  <2>1. upstream[Url(r)] \in Content
    BY <1>1, <1>5, UrlTyped DEF Node, Content
  <2>2. QED
    BY <1>1, <1>5, <2>1 DEF Found, Missing, ListError, MetadataError, ReadError
<1>6. QED
  BY <1>1, <1>2, <1>3, <1>4, <1>5 DEF Answers

\* FileNotFound gives a 404 error page, any other error a 500 one.
LEMMA FailureRepliesMean ==
    /\ FailureReply("FileNotFound").status = 404
    /\ \A error :
          /\ error # "FileNotFound" => FailureReply(error).status = 500
          /\ FailureReply(error).kind = "error"
BY DEF FailureReply, ErrorReply, Reply

\* What a handler knows is left alone by a step that leaves alone its
\* variables and what the upstream holds.
LEMMA KnowsUntouched ==
    ASSUME NEW q \in Requests, Knows(q), UNCHANGED <<upstream, req>>,
           UNCHANGED <<pc[q], headers[q], resp[q], sent[q], heard[q], seen[q]>>
    PROVE  Knows(q)'
BY DEF Knows, ServedByHttp, Url

\* Every step preserves the inductive invariant.
LEMMA HandlerInvStep == HandlerInv /\ TypeOK' /\ [Next]_vars => HandlerInv'
<1> SUFFICES ASSUME HandlerInv, TypeOK', [Next]_vars PROVE HandlerInv'
  OBVIOUS
<1> TypeOK /\ AwaitInv
  BY DEF HandlerInv
<1>1. ASSUME NEW r \in Requests, Accept(r)
     PROVE  HandlerInv'
  <2>1. AwaitInv'
    <3>1. ASSUME NEW q \in Requests, q # r PROVE Knows(q)'
      BY <1>1, <3>1, KnowsUntouched
         DEF AwaitInv, TypeOK, Accept, Return, Await, ErrorReply, FailureReply
    <3>2. Knows(r)'
      <4>1. ServedByHttp(r)' = ServedByHttp(r) /\ Url(r)' = Url(r)
        BY <1>1 DEF Accept, ServedByHttp, Url
      <4>2. CASE pc'[r] = "complete"
        BY <1>1, <4>2 DEF Accept, Knows, Waiting
      <4>3. CASE ServedByHttp(r) /\ Await(r, "list") /\ seen'[r] = {upstream[Url(r)]}
        BY <1>1, <4>1, <4>3 DEF Accept, Await, AwaitInv, Knows, TypeOK
      <4>4. QED
        BY <1>1, <4>2, <4>3 DEF Accept, Return, TypeOK
    <3>3. QED
      BY <3>1, <3>2 DEF AwaitInv
  <2>a. /\ UNCHANGED <<upstream, req, headers, sent, heard>>
        /\ \A q \in Requests : q # r =>
              pc'[q] = pc[q] /\ resp'[q] = resp[q] /\ seen'[q] = seen[q]
    BY <1>1 DEF Accept, Return, Await, TypeOK
  <2>b. \/ resp'[r].kind = "none" /\ resp'[r].status = 0 /\ pc'[r] = "list"
        \/ resp'[r].kind = "error" /\ pc'[r] = "complete" /\ ~ServedByHttp(r)
    <3>1. resp[r].kind = "none" /\ resp[r].status = 0
      BY <1>1 DEF Accept, AwaitInv, Knows, Waiting, NoResponse, Reply
    <3>2. QED
      BY <1>1, <3>1, FailureRepliesMean
         DEF Accept, Return, Await, ErrorReply, Reply, ServedByHttp, TypeOK
  <2>c. \A q \in Requests : ServedByHttp(q)' = ServedByHttp(q)
    BY <2>a DEF ServedByHttp
  <2>2. BodyInv'
    BY <2>a, <2>b DEF HandlerInv, BodyInv
  <2>3. NotFoundConfirmedTwice'
    BY <2>a, <2>b, <2>c DEF HandlerInv, NotFoundConfirmedTwice
  <2>4. ListingIsSnapshot'
    BY <2>a, <2>b DEF HandlerInv, ListingIsSnapshot
  <2>5. ServerErrorExplained'
    BY <2>a, <2>b, <2>c DEF HandlerInv, ServerErrorExplained
  <2>6. NoSilentTruncation'
    BY <2>a, <2>b DEF HandlerInv, NoSilentTruncation, AllRead, AllWritten
  <2>7. FileOnlyAfterMissing'
    BY <2>a, <2>b DEF HandlerInv, FileOnlyAfterMissing
  <2>8. QED
    BY <2>1, <2>2, <2>3, <2>4, <2>5, <2>6, <2>7 DEF HandlerInv
<1>2. ASSUME NEW r \in Requests, NEW a \in UpstreamAnswers(r), ListAnswered(r, a)
     PROVE  HandlerInv'
  <2>1. AwaitInv'
    <3>1. ASSUME NEW q \in Requests, q # r PROVE Knows(q)'
      BY <1>2, <3>1, KnowsUntouched
         DEF AwaitInv, TypeOK, ListAnswered, Return, Await, Hear
    <3>2. Knows(r)'
      <4>1. ServedByHttp(r)' = ServedByHttp(r) /\ Url(r)' = Url(r)
        BY <1>2 DEF ListAnswered, ServedByHttp, Url
      <4>2. heard'[r]["list"] = a
        BY <1>2 DEF ListAnswered, Hear, TypeOK, Calls
      <4>3. CASE ListError(a) = "Ok" /\ Await(r, "text")
        BY <1>2, <4>1, <4>2, <4>3, UpstreamAnswersMean
           DEF ListAnswered, Await, AwaitInv, Knows, Waiting, TypeOK
      <4>4. CASE ListError(a) = "FileNotFound" /\ Await(r, "head")
        BY <1>2, <4>1, <4>2, <4>4, UpstreamAnswersMean
           DEF ListAnswered, Await, AwaitInv, Knows, Waiting, TypeOK
      <4>5. CASE Return(r, FailureReply(ListError(a)), "complete")
        BY <4>5 DEF Return, Knows, Waiting, TypeOK
      <4>6. QED
        BY <1>2, <4>3, <4>4, <4>5 DEF ListAnswered
    <3>3. QED
      BY <3>1, <3>2 DEF AwaitInv
  <2>2. BodyInv'
    BY <1>2, UpstreamAnswersMean, FailureRepliesMean
       DEF HandlerInv, TypeOK, ListAnswered, Return, Await, Hear, BodyInv,
           AwaitInv, Knows, Waiting, Reply, NoResponse
  <2>3. NotFoundConfirmedTwice'
    BY <1>2, UpstreamAnswersMean, FailureRepliesMean
       DEF HandlerInv, TypeOK, ListAnswered, Return, Await, Hear,
           NotFoundConfirmedTwice, AwaitInv, Knows, Waiting, ServedByHttp,
           Reply, NoResponse
  <2>4. ListingIsSnapshot'
    BY <1>2, UpstreamAnswersMean, FailureRepliesMean
       DEF HandlerInv, TypeOK, ListAnswered, Return, Await, Hear,
           ListingIsSnapshot, AwaitInv, Knows, Waiting, Reply, NoResponse
  <2>5. ServerErrorExplained'
    BY <1>2, UpstreamAnswersMean, FailureRepliesMean
       DEF HandlerInv, TypeOK, ListAnswered, Return, Await, Hear,
           ServerErrorExplained, AwaitInv, Knows, Waiting, ServedByHttp, Reply,
           NoResponse
  <2>6. NoSilentTruncation'
    BY <1>2, UpstreamAnswersMean, FailureRepliesMean
       DEF HandlerInv, TypeOK, ListAnswered, Return, Await, Hear,
           NoSilentTruncation, AwaitInv, Knows, Waiting, Ended, Reply,
           NoResponse, AllRead, AllWritten
  <2>7. FileOnlyAfterMissing'
    BY <1>2, UpstreamAnswersMean, FailureRepliesMean
       DEF HandlerInv, TypeOK, ListAnswered, Return, Await, Hear,
           FileOnlyAfterMissing, AwaitInv, Knows, Waiting, Reply, NoResponse
  <2>8. QED
    BY <2>1, <2>2, <2>3, <2>4, <2>5, <2>6, <2>7 DEF HandlerInv
<1>3. ASSUME NEW r \in Requests, ListTextRead(r)
     PROVE  HandlerInv'
  <2>1. AwaitInv'
    <3>1. ASSUME NEW q \in Requests, q # r PROVE Knows(q)'
      BY <1>3, <3>1, KnowsUntouched DEF AwaitInv, TypeOK, ListTextRead, Return
    <3>2. Knows(r)'
      BY <1>3
         DEF AwaitInv, TypeOK, ListTextRead, Return, Knows, Waiting, Ended,
             ServedByHttp, Url
    <3>3. QED
      BY <3>1, <3>2 DEF AwaitInv
  <2>2. BodyInv'
    BY <1>3
       DEF HandlerInv, TypeOK, ListTextRead, Return, BodyInv, AwaitInv, Knows,
           Waiting, Reply, NoResponse
  <2>3. NotFoundConfirmedTwice'
    BY <1>3
       DEF HandlerInv, TypeOK, ListTextRead, Return, NotFoundConfirmedTwice,
           AwaitInv, Knows, Waiting, ServedByHttp, Reply, NoResponse
  <2>4. ListingIsSnapshot'
    BY <1>3
       DEF HandlerInv, TypeOK, ListTextRead, Return, ListingIsSnapshot,
           AwaitInv, Knows, Waiting, Reply, NoResponse
  <2>5. ServerErrorExplained'
    BY <1>3
       DEF HandlerInv, TypeOK, ListTextRead, Return, ServerErrorExplained,
           AwaitInv, Knows, Waiting, ServedByHttp, Reply, NoResponse
  <2>6. NoSilentTruncation'
    BY <1>3
       DEF HandlerInv, TypeOK, ListTextRead, Return, NoSilentTruncation,
           AwaitInv, Knows, Waiting, Ended, Reply, NoResponse, AllRead,
           AllWritten
  <2>7. FileOnlyAfterMissing'
    BY <1>3
       DEF HandlerInv, TypeOK, ListTextRead, Return, FileOnlyAfterMissing,
           AwaitInv, Knows, Waiting, Reply, NoResponse
  <2>8. QED
    BY <2>1, <2>2, <2>3, <2>4, <2>5, <2>6, <2>7 DEF HandlerInv
<1>4. ASSUME NEW r \in Requests, ListTextFailed(r)
     PROVE  HandlerInv'
  <2>1. AwaitInv'
    <3>1. ASSUME NEW q \in Requests, q # r PROVE Knows(q)'
      BY <1>4, <3>1, KnowsUntouched
         DEF AwaitInv, TypeOK, ListTextFailed, Return, Hear, TextError,
             FailureReply, ErrorReply
    <3>2. Knows(r)'
      BY <1>4
         DEF AwaitInv, TypeOK, ListTextFailed, Return, Hear, TextError,
             FailureReply, ErrorReply, Knows, Waiting, Ended, ServedByHttp, Url
    <3>3. QED
      BY <3>1, <3>2 DEF AwaitInv
  <2>2. BodyInv'
    BY <1>4
       DEF HandlerInv, TypeOK, ListTextFailed, Return, Hear, TextError,
           FailureReply, ErrorReply, BodyInv, AwaitInv, Knows, Waiting, Reply,
           NoResponse
  <2>3. NotFoundConfirmedTwice'
    BY <1>4
       DEF HandlerInv, TypeOK, ListTextFailed, Return, Hear, TextError,
           FailureReply, ErrorReply, NotFoundConfirmedTwice, AwaitInv, Knows,
           Waiting, ServedByHttp, Reply, NoResponse
  <2>4. ListingIsSnapshot'
    BY <1>4
       DEF HandlerInv, TypeOK, ListTextFailed, Return, Hear, TextError,
           FailureReply, ErrorReply, ListingIsSnapshot, AwaitInv, Knows,
           Waiting, Reply, NoResponse
  <2>5. ServerErrorExplained'
    BY <1>4
       DEF HandlerInv, TypeOK, ListTextFailed, Return, Hear, TextError,
           FailureReply, ErrorReply, ServerErrorExplained, AwaitInv, Knows,
           Waiting, ServedByHttp, Reply, NoResponse
  <2>6. NoSilentTruncation'
    BY <1>4
       DEF HandlerInv, TypeOK, ListTextFailed, Return, Hear, TextError,
           FailureReply, ErrorReply, NoSilentTruncation, AwaitInv, Knows,
           Waiting, Ended, Reply, NoResponse, AllRead, AllWritten
  <2>7. FileOnlyAfterMissing'
    BY <1>4
       DEF HandlerInv, TypeOK, ListTextFailed, Return, Hear, TextError,
           FailureReply, ErrorReply, FileOnlyAfterMissing, AwaitInv, Knows,
           Waiting, Reply, NoResponse
  <2>8. QED
    BY <2>1, <2>2, <2>3, <2>4, <2>5, <2>6, <2>7 DEF HandlerInv
<1>5. ASSUME NEW r \in Requests, NEW a \in UpstreamAnswers(r),
            NEW length \in AnnouncedLengths(a), HeadAnswered(r, a, length)
     PROVE  HandlerInv'
  <2>1. AwaitInv'
    <3>1. ASSUME NEW q \in Requests, q # r PROVE Knows(q)'
      BY <1>5, <3>1, KnowsUntouched
         DEF AwaitInv, TypeOK, HeadAnswered, Return, Await, Hear
    <3>2. Knows(r)'
      <4>1. ServedByHttp(r)' = ServedByHttp(r) /\ Url(r)' = Url(r)
        BY <1>5 DEF HeadAnswered, ServedByHttp, Url
      <4>2. heard'[r]["head"] = a /\ heard'[r]["list"] = heard[r]["list"]
        BY <1>5 DEF HeadAnswered, Hear, TypeOK, Calls
      <4>3. CASE Await(r, "read") /\ headers'[r] = length
        BY <1>5, <4>1, <4>2, <4>3
           DEF HeadAnswered, Await, AwaitInv, Knows, Waiting, TypeOK
      <4>4. CASE pc'[r] = "complete"
        BY <4>4 DEF Knows, Waiting
      <4>5. QED
        BY <1>5, <4>3, <4>4 DEF HeadAnswered, Return, TypeOK
    <3>3. QED
      BY <3>1, <3>2 DEF AwaitInv
  <2>2. BodyInv'
    BY <1>5, UpstreamAnswersMean, FailureRepliesMean
       DEF HandlerInv, TypeOK, HeadAnswered, Return, Await, Hear, BodyInv,
           AwaitInv, Knows, Waiting, Reply, NoResponse
  <2>3. NotFoundConfirmedTwice'
    BY <1>5, UpstreamAnswersMean, FailureRepliesMean
       DEF HandlerInv, TypeOK, HeadAnswered, Return, Await, Hear,
           NotFoundConfirmedTwice, AwaitInv, Knows, Waiting, ServedByHttp,
           Reply, NoResponse
  <2>4. ListingIsSnapshot'
    BY <1>5, UpstreamAnswersMean, FailureRepliesMean
       DEF HandlerInv, TypeOK, HeadAnswered, Return, Await, Hear,
           ListingIsSnapshot, AwaitInv, Knows, Waiting, Reply, NoResponse
  <2>5. ServerErrorExplained'
    BY <1>5, UpstreamAnswersMean, FailureRepliesMean
       DEF HandlerInv, TypeOK, HeadAnswered, Return, Await, Hear,
           ServerErrorExplained, AwaitInv, Knows, Waiting, ServedByHttp, Reply,
           NoResponse
  <2>6. NoSilentTruncation'
    BY <1>5, UpstreamAnswersMean, FailureRepliesMean
       DEF HandlerInv, TypeOK, HeadAnswered, Return, Await, Hear,
           NoSilentTruncation, AwaitInv, Knows, Waiting, Ended, Reply,
           NoResponse, AllRead, AllWritten
  <2>7. FileOnlyAfterMissing'
    BY <1>5, UpstreamAnswersMean, FailureRepliesMean
       DEF HandlerInv, TypeOK, HeadAnswered, Return, Await, Hear,
           FileOnlyAfterMissing, AwaitInv, Knows, Waiting, Reply, NoResponse
  <2>8. QED
    BY <2>1, <2>2, <2>3, <2>4, <2>5, <2>6, <2>7 DEF HandlerInv
<1>6. ASSUME NEW r \in Requests, NEW a \in UpstreamAnswers(r), ReadAnswered(r, a)
     PROVE  HandlerInv'
  <2>1. AwaitInv'
    <3>1. ASSUME NEW q \in Requests, q # r PROVE Knows(q)'
      BY <1>6, <3>1, KnowsUntouched
         DEF AwaitInv, TypeOK, ReadAnswered, Return, Hear
    <3>2. Knows(r)'
      BY <1>6, UpstreamAnswersMean, FailureRepliesMean
         DEF AwaitInv, TypeOK, ReadAnswered, Return, Hear, Knows, Waiting,
             Ended, ServedByHttp, Url
    <3>3. QED
      BY <3>1, <3>2 DEF AwaitInv
  <2>2. BodyInv'
    <3>1. ASSUME ReadError(a) = "Ok" PROVE sent[r] <= Length[a.content]
      <4>1. a.content \in Content
        BY <3>1, UpstreamAnswersMean
      <4>2. sent[r] = 0
        BY <1>6 DEF ReadAnswered, AwaitInv, Knows, Waiting
      <4>3. QED
        BY <4>1, <4>2, ContentAssumption
    <3>2. QED
      BY <1>6, <3>1, UpstreamAnswersMean, FailureRepliesMean
         DEF HandlerInv, TypeOK, ReadAnswered, Return, Hear, BodyInv, AwaitInv,
             Knows, Waiting, Reply, NoResponse
  <2>3. NotFoundConfirmedTwice'
    BY <1>6, UpstreamAnswersMean, FailureRepliesMean
       DEF HandlerInv, TypeOK, ReadAnswered, Return, Hear,
           NotFoundConfirmedTwice, AwaitInv, Knows, Waiting, ServedByHttp,
           Reply, NoResponse
  <2>4. ListingIsSnapshot'
    BY <1>6, UpstreamAnswersMean, FailureRepliesMean
       DEF HandlerInv, TypeOK, ReadAnswered, Return, Hear, ListingIsSnapshot,
           AwaitInv, Knows, Waiting, Reply, NoResponse
  <2>5. ServerErrorExplained'
    BY <1>6, UpstreamAnswersMean, FailureRepliesMean
       DEF HandlerInv, TypeOK, ReadAnswered, Return, Hear,
           ServerErrorExplained, AwaitInv, Knows, Waiting, ServedByHttp, Reply,
           NoResponse
  <2>6. NoSilentTruncation'
    <3>1. \A q \in Requests : q # r =>
             pc'[q] = pc[q] /\ resp'[q] = resp[q] /\ sent'[q] = sent[q]
      BY <1>6 DEF ReadAnswered, Return, TypeOK
    <3>2. pc'[r] = "stream" \/ resp'[r].kind = "error"
      BY <1>6, FailureRepliesMean DEF ReadAnswered, Return, TypeOK
    <3>3. QED
      BY <3>1, <3>2 DEF HandlerInv, NoSilentTruncation, AllRead, AllWritten
  <2>7. FileOnlyAfterMissing'
    BY <1>6, UpstreamAnswersMean, FailureRepliesMean
       DEF HandlerInv, TypeOK, ReadAnswered, Return, Hear,
           FileOnlyAfterMissing, AwaitInv, Knows, Waiting, Reply, NoResponse
  <2>8. QED
    BY <2>1, <2>2, <2>3, <2>4, <2>5, <2>6, <2>7 DEF HandlerInv
<1>7. ASSUME NEW r \in Requests, StreamChunk(r)
     PROVE  HandlerInv'
  <2>1. AwaitInv'
    <3>1. ASSUME NEW q \in Requests, q # r PROVE Knows(q)'
      BY <1>7, <3>1, KnowsUntouched DEF AwaitInv, TypeOK, StreamChunk
    <3>2. Knows(r)'
      BY <1>7
         DEF AwaitInv, TypeOK, StreamChunk, Knows, Waiting, Ended,
             ServedByHttp, Url
    <3>3. QED
      BY <3>1, <3>2 DEF AwaitInv
  <2>2. BodyInv'
    <3>1. sent'[r] <= Length[resp[r].content]
      <4>1. /\ resp[r].content \in Content
            /\ sent[r] <= Length[resp[r].content]
            /\ sent[r] # Length[resp[r].content]
        BY <1>7 DEF StreamChunk, AllRead, HandlerInv, BodyInv
      <4>2. Length[resp[r].content] \in Nat /\ sent[r] \in Nat
        BY <4>1, ContentAssumption DEF TypeOK
      <4>3. sent'[r] = sent[r] + 1
        BY <1>7 DEF StreamChunk, TypeOK
      <4>4. QED
        BY <4>1, <4>2, <4>3
    <3>2. \A q \in Requests : q # r => sent'[q] = sent[q]
      BY <1>7 DEF StreamChunk, TypeOK
    <3>3. QED
      BY <1>7, <3>1, <3>2 DEF StreamChunk, HandlerInv, BodyInv
  <2>3. NotFoundConfirmedTwice'
    BY <1>7
       DEF HandlerInv, TypeOK, StreamChunk, NotFoundConfirmedTwice, AwaitInv,
           Knows, Waiting, ServedByHttp, Reply, NoResponse
  <2>4. ListingIsSnapshot'
    BY <1>7
       DEF HandlerInv, TypeOK, StreamChunk, ListingIsSnapshot, AwaitInv, Knows,
           Waiting, Reply, NoResponse
  <2>5. ServerErrorExplained'
    BY <1>7
       DEF HandlerInv, TypeOK, StreamChunk, ServerErrorExplained, AwaitInv,
           Knows, Waiting, ServedByHttp, Reply, NoResponse
  <2>6. NoSilentTruncation'
    BY <1>7
       DEF HandlerInv, TypeOK, StreamChunk, NoSilentTruncation, AwaitInv,
           Knows, Waiting, Ended, Reply, NoResponse, AllRead, AllWritten
  <2>7. FileOnlyAfterMissing'
    BY <1>7
       DEF HandlerInv, TypeOK, StreamChunk, FileOnlyAfterMissing, AwaitInv,
           Knows, Waiting, Reply, NoResponse
  <2>8. QED
    BY <2>1, <2>2, <2>3, <2>4, <2>5, <2>6, <2>7 DEF HandlerInv
<1>8. ASSUME NEW r \in Requests,
            StreamEnded(r) \/ StreamShort(r) \/ StreamFailed(r) \/ Disconnect(r)
     PROVE  HandlerInv'
  <2>1. AwaitInv'
    <3>1. ASSUME NEW q \in Requests, q # r PROVE Knows(q)'
      BY <1>8, <3>1, KnowsUntouched
         DEF AwaitInv, TypeOK, StreamEnded, StreamShort, StreamFailed,
             Disconnect, Finish
    <3>2. Knows(r)'
      BY <1>8
         DEF AwaitInv, TypeOK, StreamEnded, StreamShort, StreamFailed,
             Disconnect, Finish, Knows, Waiting, Ended, ServedByHttp, Url
    <3>3. QED
      BY <3>1, <3>2 DEF AwaitInv
  <2>2. BodyInv'
    BY <1>8
       DEF HandlerInv, TypeOK, StreamEnded, StreamShort, StreamFailed,
           Disconnect, Finish, BodyInv, AwaitInv, Knows, Waiting, Reply,
           NoResponse
  <2>3. NotFoundConfirmedTwice'
    BY <1>8
       DEF HandlerInv, TypeOK, StreamEnded, StreamShort, StreamFailed,
           Disconnect, Finish, NotFoundConfirmedTwice, AwaitInv, Knows,
           Waiting, ServedByHttp, Reply, NoResponse
  <2>4. ListingIsSnapshot'
    BY <1>8
       DEF HandlerInv, TypeOK, StreamEnded, StreamShort, StreamFailed,
           Disconnect, Finish, ListingIsSnapshot, AwaitInv, Knows, Waiting,
           Reply, NoResponse
  <2>5. ServerErrorExplained'
    BY <1>8
       DEF HandlerInv, TypeOK, StreamEnded, StreamShort, StreamFailed,
           Disconnect, Finish, ServerErrorExplained, AwaitInv, Knows, Waiting,
           ServedByHttp, Reply, NoResponse
  <2>6. NoSilentTruncation'
    BY <1>8
       DEF HandlerInv, TypeOK, StreamEnded, StreamShort, StreamFailed,
           Disconnect, Finish, NoSilentTruncation, AwaitInv, Knows, Waiting,
           Ended, Reply, NoResponse, AllRead, AllWritten
  <2>7. FileOnlyAfterMissing'
    BY <1>8
       DEF HandlerInv, TypeOK, StreamEnded, StreamShort, StreamFailed,
           Disconnect, Finish, FileOnlyAfterMissing, AwaitInv, Knows, Waiting,
           Reply, NoResponse
  <2>8. QED
    BY <2>1, <2>2, <2>3, <2>4, <2>5, <2>6, <2>7 DEF HandlerInv
<1>9. ASSUME NEW u \in Urls, NEW node \in Node, Publish(u, node)
     PROVE  HandlerInv'
  <2>1. AwaitInv'
    <3>1. ASSUME NEW q \in Requests PROVE Knows(q)'
      <4>1. Knows(q)
        BY DEF AwaitInv
      <4>2. ServedByHttp(q)' = ServedByHttp(q) /\ Url(q)' = Url(q)
        BY <1>9 DEF Publish, ServedByHttp, Url
      <4>3. ASSUME pc[q] \in Waiting PROVE upstream'[Url(q)] \in seen'[q]
        BY <1>9, <4>1, <4>3, UrlTyped DEF Publish, Knows, TypeOK
      <4>4. seen[q] \subseteq seen'[q]
        BY <1>9 DEF Publish
      <4>5. QED
        BY <1>9, <4>1, <4>2, <4>3, <4>4 DEF Publish, Knows
    <3>2. QED
      BY <3>1 DEF AwaitInv
  <2>2. BodyInv'
    BY <1>9
       DEF HandlerInv, TypeOK, Publish, BodyInv, AwaitInv, Knows, Waiting,
           Reply, NoResponse
  <2>3. NotFoundConfirmedTwice'
    BY <1>9
       DEF HandlerInv, TypeOK, Publish, NotFoundConfirmedTwice, AwaitInv,
           Knows, Waiting, ServedByHttp, Reply, NoResponse
  <2>4. ListingIsSnapshot'
    BY <1>9
       DEF HandlerInv, TypeOK, Publish, ListingIsSnapshot, AwaitInv, Knows,
           Waiting, Reply, NoResponse
  <2>5. ServerErrorExplained'
    BY <1>9
       DEF HandlerInv, TypeOK, Publish, ServerErrorExplained, AwaitInv, Knows,
           Waiting, ServedByHttp, Reply, NoResponse
  <2>6. NoSilentTruncation'
    BY <1>9
       DEF HandlerInv, TypeOK, Publish, NoSilentTruncation, AwaitInv, Knows,
           Waiting, Ended, Reply, NoResponse, AllRead, AllWritten
  <2>7. FileOnlyAfterMissing'
    BY <1>9
       DEF HandlerInv, TypeOK, Publish, FileOnlyAfterMissing, AwaitInv, Knows,
           Waiting, Reply, NoResponse
  <2>8. QED
    BY <2>1, <2>2, <2>3, <2>4, <2>5, <2>6, <2>7 DEF HandlerInv
<1>10. CASE UNCHANGED vars
  BY <1>10
     DEF vars, HandlerInv, TypeOK, AwaitInv, Knows, ServedByHttp, Url, BodyInv,
               NotFoundConfirmedTwice, ListingIsSnapshot, ServerErrorExplained,
               NoSilentTruncation, AllRead, AllWritten, FileOnlyAfterMissing
<1>11. QED
  BY <1>1, <1>2, <1>3, <1>4, <1>5, <1>6, <1>7, <1>8, <1>9, <1>10
     DEF Next, Handle

\* The inductive invariant holds of every behaviour: what a handler knows at
\* each await, what bounds a body, and the safety properties themselves.
THEOREM Inductive == Spec => []HandlerInv
<1>1. Init => HandlerInv
  <2> SUFFICES ASSUME Init PROVE HandlerInv
    OBVIOUS
  <2>1. TypeOK
    BY RepliesTyped DEF Init, TypeOK, Silence
  <2>2. AwaitInv /\ NoSilentTruncation
    BY DEF Init, AwaitInv, Knows, Waiting, NoSilentTruncation
  <2>3. /\ BodyInv /\ NotFoundConfirmedTwice /\ ListingIsSnapshot
        /\ ServerErrorExplained /\ FileOnlyAfterMissing
    BY DEF Init, NoResponse, Reply, BodyInv, NotFoundConfirmedTwice,
           ListingIsSnapshot, ServerErrorExplained, FileOnlyAfterMissing
  <2>4. QED
    BY <2>1, <2>2, <2>3 DEF HandlerInv
<1>2. QED
  BY <1>1, TypeCorrect, HandlerInvStep, PTL DEF Spec

-------------------------------------------------------------------------------
(* The safety properties, for every value of the constants.                *)

\* A 404 for a path of an HTTP source was said by the upstream, to the index
\* request and again to a later call of the same request.
THEOREM NotFoundIsTrue == Spec => []NotFoundConfirmedTwice
BY Inductive, PTL DEF HandlerInv

\* A listing shows a page the URL held during the request, read in full.
THEOREM ListingsAreSnapshots == Spec => []ListingIsSnapshot
BY Inductive, PTL DEF HandlerInv

\* A 500 has a failed or refused upstream call, or a placeholder, behind it.
THEOREM ServerErrorsExplained == Spec => []ServerErrorExplained
BY Inductive, PTL DEF HandlerInv

\* A body that ended well is as long as its head announced.
THEOREM TruncationShows == Spec => []NoSilentTruncation
BY Inductive, PTL DEF HandlerInv

\* Files are served only where the same URL was missing a moment before.
THEOREM FilesFollowMissing == Spec => []FileOnlyAfterMissing
BY Inductive, PTL DEF HandlerInv

\* A handler only goes forward: it repeats no upstream call, relays no more of
\* a body than there is, and never changes a response it has returned.
THEOREM HandlersOnlyAdvance == Spec => HandlersAdvance
<1> DEFINE Forward(r) ==
       /\ resp[r] # NoResponse => resp'[r] = resp[r]
       /\ \/ Stage(pc[r]) < Stage(pc'[r])
          \/ /\ pc[r] = "stream" /\ pc'[r] = "stream"
             /\ sent[r] < sent'[r] /\ sent'[r] <= Length[resp[r].content]
          \/ UNCHANGED <<pc[r], headers[r], resp[r], sent[r], heard[r]>>
<1>1. HandlerInv /\ HandlerInv' /\ [Next]_vars => [\A r \in Requests : Forward(r)]_vars
  <2> SUFFICES ASSUME HandlerInv, HandlerInv', [Next]_vars, NEW r \in Requests
               PROVE  Forward(r)
    OBVIOUS
  <2> TypeOK /\ TypeOK'
    BY DEF HandlerInv
  <2>1. pc[r] \in {"idle"} \cup Waiting => resp[r] = NoResponse
    BY DEF HandlerInv, AwaitInv, Knows
  <2>2. ASSUME NEW q \in Requests, Accept(q) PROVE Forward(r)
    BY <2>1, <2>2 DEF Accept, Return, Await, Stage, TypeOK
  <2>3. ASSUME NEW q \in Requests, NEW a, ListAnswered(q, a) PROVE Forward(r)
    BY <2>1, <2>3 DEF ListAnswered, Hear, Return, Await, Stage, TypeOK, Waiting
  <2>4. ASSUME NEW q \in Requests, ListTextRead(q) \/ ListTextFailed(q)
        PROVE  Forward(r)
    BY <2>1, <2>4 DEF ListTextRead, ListTextFailed, Hear, Return, Stage, TypeOK, Waiting
  <2>5. ASSUME NEW q \in Requests, NEW a, NEW length, HeadAnswered(q, a, length)
        PROVE  Forward(r)
    BY <2>1, <2>5 DEF HeadAnswered, Hear, Return, Await, Stage, TypeOK, Waiting
  <2>6. ASSUME NEW q \in Requests, NEW a, ReadAnswered(q, a) PROVE Forward(r)
    BY <2>1, <2>6 DEF ReadAnswered, Hear, Return, Stage, TypeOK, Waiting
  <2>7. ASSUME NEW q \in Requests, StreamChunk(q) PROVE Forward(r)
    <3>1. CASE r = q
      <4>1. sent'[r] = sent[r] + 1 /\ sent[r] \in Nat /\ UNCHANGED <<pc, resp>>
        BY <2>7, <3>1 DEF StreamChunk, TypeOK
      <4>2. pc[r] = "stream" /\ resp[r].kind = "file"
        BY <2>7, <3>1 DEF StreamChunk, HandlerInv, BodyInv
      <4>3. sent'[r] <= Length[resp[r].content]
        BY <4>1, <4>2 DEF HandlerInv, BodyInv
      <4>4. QED
        BY <4>1, <4>2, <4>3
    <3>2. CASE r # q
      BY <2>7, <3>2 DEF StreamChunk, TypeOK
    <3>3. QED
      BY <3>1, <3>2
  <2>8. ASSUME NEW q \in Requests,
               StreamEnded(q) \/ StreamShort(q) \/ StreamFailed(q) \/ Disconnect(q)
        PROVE  Forward(r)
    BY <2>8 DEF StreamEnded, StreamShort, StreamFailed, Disconnect, Finish,
                Stage, TypeOK, Waiting
  <2>9. ASSUME NEW u, NEW node, Publish(u, node) PROVE Forward(r)
    BY <2>9 DEF Publish
  <2>10. CASE UNCHANGED vars
    BY <2>10 DEF vars
  <2>11. QED
    BY <2>2, <2>3, <2>4, <2>5, <2>6, <2>7, <2>8, <2>9, <2>10 DEF Next, Handle
<1>2. QED
  BY <1>1, Inductive, PTL DEF Spec, HandlersAdvance

\* A body that ended well is whole unless the content changed between HEAD
\* and GET: the announced length is that of what HEAD saw.
THEOREM BodiesWhole == Spec => []WholeUnlessChangedBetween
<1>1. HandlerInv => WholeUnlessChangedBetween
  <2> SUFFICES ASSUME HandlerInv, NEW r \in Requests,
                      pc[r] = "complete", resp[r].kind = "file",
                      heard[r]["head"].content = heard[r]["read"].content
               PROVE  AllRead(r)
    BY DEF WholeUnlessChangedBetween
  <2>1. CASE resp[r].length = None
    BY <2>1 DEF HandlerInv, NoSilentTruncation
  <2>2. CASE resp[r].length # None
    <3>1. sent[r] = resp[r].length
      BY <2>2 DEF HandlerInv, NoSilentTruncation, AllWritten
    <3>2. resp[r].length = Length[resp[r].content]
      BY <2>2 DEF HandlerInv, BodyInv, AnnouncedLengths
    <3>3. QED
      BY <3>1, <3>2 DEF AllRead
  <2>3. QED
    BY <2>1, <2>2
<1>2. QED
  BY <1>1, Inductive, PTL

===============================================================================
