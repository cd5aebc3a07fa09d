------------------------------- MODULE Aggregator -------------------------------
(***************************************************************************)
(* The file aggregator service: crates/fourtou-app/src/services/           *)
(* aggregator.rs, over sources dispatched by AnySource (sources/mod.rs).   *)
(* list_all_files asks every source in turn; the other calls look a source *)
(* up by its id and ask only that one. The service keeps nothing between   *)
(* calls and its calls share nothing: one caller, who remembers its last   *)
(* listing, is enough. All calls are for one path, so that each source has *)
(* one URL.                                                                *)
(***************************************************************************)
EXTENDS HttpSource, Sequences

CONSTANTS
    Names,      \* the names sources may have in the configuration
    MaxSources  \* sources, at most

ASSUME AggregatorAssumption == MaxSources \in Nat

VARIABLES
    registry,   \* the sources, in the order of the service's vector
    upstream,   \* what the URL of each source holds
    pc,         \* "returned", or the await of the call: "asking" or "text"
    op, wanted, \* the call, and the source_id it was given
    pos,        \* the source asked, by its index
    page,       \* the index page whose text is awaited
    results,    \* the entries of the last list_all_files, by source
    reply,      \* what the last other call returned
    heard,      \* how each source's call ended in this call of the service
    seen        \* what each URL has held during it

call == <<registry, upstream, seen>>
vars == <<registry, upstream, pc, op, wanted, pos, page, results, reply, heard, seen>>

AnySource == [name : Names, reader : {"http", "placeholder"}]

\* main() collects the values of a HashMap: names differ, any order.
Registries ==
    {s \in UNION {[1..n -> AnySource] : n \in 0..MaxSources} :
        \A i, j \in DOMAIN s : s[i].name = s[j].name => i = j}

Sources == DOMAIN registry
Http    == {i \in Sources : registry[i].reader = "http"}

\* Faulty variant: no source tells its name.
source_id_Unnamed(i) == "placeholder"

\* A placeholder has no field for its name: all have the same id.
source_id(i) == IF i \in Http THEN registry[i].name ELSE "placeholder"

Ids == Names \cup {"placeholder"}

Lookups == {"list", "metadata", "read"}

Errors == {"SourceNotFound", "FileNotFound", "ConnectionFailed", TextError}

Reply(kind, cause, content) == [kind |-> kind, cause |-> cause, content |-> content]

NoReply == Reply("none", "none", Absent)

Init ==
    /\ registry \in Registries
    /\ upstream \in [Sources -> Node]
    /\ \A i \in Sources \ Http : upstream[i] = Absent
    /\ pc = "returned"
    /\ op = "none"
    /\ wanted = "none"
    /\ pos = 0
    /\ page = Absent
    /\ results = [i \in {} |-> Absent]
    /\ reply = NoReply
    /\ heard = [i \in Sources |-> "unasked"]
    /\ seen = [i \in Sources |-> {upstream[i]}]

-------------------------------------------------------------------------------
(* The calls.                                                              *)

Starts ==
    /\ pc = "returned"
    /\ page' = Absent
    /\ heard' = [i \in Sources |-> "unasked"]
    /\ seen' = [i \in Sources |-> {upstream[i]}]
    /\ UNCHANGED <<registry, upstream>>

list_all_files ==
    /\ Starts
    /\ op' = "list_all"
    /\ pos' = 1
    /\ pc' = IF Sources = {} THEN "returned" ELSE "asking"
    /\ results' = [i \in {} |-> Absent]
    /\ reply' = NoReply
    /\ wanted' = "none"

Having(id) == {i \in Sources : source_id(i) = id}

\* iter().find(): the first source with the id.
First(id) == CHOOSE i \in Having(id) : \A j \in Having(id) : i <= j

\* list_files_from_source, get_metadata and read_file.
Lookup(method, id) ==
    /\ Starts
    /\ op' = method
    /\ wanted' = id
    /\ IF Having(id) = {}
         THEN /\ reply' = Reply("SourceNotFound", "none", Absent)
              /\ UNCHANGED <<pos, pc>>
         ELSE /\ pos' = First(id)
              /\ pc' = "asking"
              /\ reply' = NoReply
    /\ UNCHANGED results

-------------------------------------------------------------------------------
(* A source's call ends: with an error, or with content.                   *)

\* Faulty variants: the loop goes one source too far; the first error is
\* returned, as by `?`; a source that failed is asked again.
NextSource_PastEnd(e) ==
    /\ pos' = pos + 1
    /\ pc' = IF pos > Len(registry) THEN "returned" ELSE "asking"

NextSource_Stops(e) ==
    /\ pos' = pos + 1
    /\ pc' = IF pos = Len(registry) \/ e # "Ok" THEN "returned" ELSE "asking"

NextSource_Retries(e) ==
    /\ pos' = IF e = "Ok" THEN pos + 1 ELSE pos
    /\ pc' = IF pos = Len(registry) /\ e = "Ok" THEN "returned" ELSE "asking"

NextSource(e) ==
    /\ pos' = pos + 1
    /\ pc' = IF pos = Len(registry) THEN "returned" ELSE "asking"

\* Faulty variant: SourceNotFound is not wrapped.
Wrapped_ButNotFound(e) ==
    IF e = "SourceNotFound" THEN Reply("SourceNotFound", "none", Absent)
                            ELSE Reply("AggregationFailed", e, Absent)

Wrapped(e) == Reply("AggregationFailed", e, Absent)

\* list_all_files takes up the entries, or logs the error, and goes on; the
\* other calls return.
Settle(e, content) ==
    /\ heard' = [heard EXCEPT ![pos] = e]
    /\ page' = Absent
    /\ IF op = "list_all"
         THEN /\ NextSource(e)
              /\ results' = [i \in DOMAIN results \cup (IF e = "Ok" THEN {pos} ELSE {}) |->
                               IF i = pos THEN content ELSE results[i]]
              /\ UNCHANGED reply
         ELSE /\ pc' = "returned"
              /\ reply' = IF e = "Ok" THEN Reply("Ok", "none", content) ELSE Wrapped(e)
              /\ UNCHANGED <<pos, results>>
    /\ UNCHANGED <<registry, upstream, op, wanted, seen>>

\* Every method of a placeholder: an error, at once.
PlaceholderAnswers ==
    /\ pc = "asking"
    /\ pos \notin Http
    /\ Settle("SourceNotFound", Absent)

Listing == op \in {"list_all", "list"}

Error(a) ==
    CASE Listing         -> ListError(a)
      [] op = "metadata" -> MetadataError(a)
      [] op = "read"     -> ReadError(a)

\* An index page is there when its text is; the other calls settle with the
\* answer (a file's stream is the caller's).
Answered(a) ==
    /\ pc = "asking"
    /\ pos \in Http
    /\ IF Listing /\ Error(a) = "Ok"
         THEN /\ pc' = "text"
              /\ page' = a.content
              /\ UNCHANGED <<call, op, wanted, pos, results, reply, heard>>
         ELSE Settle(Error(a), a.content)

TextRead   == pc = "text" /\ Settle("Ok", page)
TextFailed == pc = "text" /\ Settle(TextError, Absent)

\* What ends a call if nothing else does: the client's timeout.
TimedOut == Answered(Failed) \/ TextFailed

Publish(i, node) ==
    /\ i \in Http
    /\ upstream' = [upstream EXCEPT ![i] = node]
    /\ seen' = [seen EXCEPT ![i] = @ \cup {node}]
    /\ UNCHANGED <<registry, pc, op, wanted, pos, page, results, reply, heard>>

Next ==
    \/ list_all_files
    \/ \E method \in Lookups, id \in Ids : Lookup(method, id)
    \/ PlaceholderAnswers
    \/ pc = "asking" /\ \E a \in Answers(upstream[pos]) : Answered(a)
    \/ TextRead
    \/ TextFailed
    \/ \E i \in Sources, node \in Node : Publish(i, node)

Spec == Init /\ [][Next]_vars

\* The runtime polls the call, and each source's call has its timeout.
FairSpec == Spec /\ WF_vars(PlaceholderAnswers) /\ WF_vars(TimedOut)

-------------------------------------------------------------------------------
(* Properties.                                                             *)

\* Every variable keeps its type.
TypeOK ==
    /\ registry \in Registries
    /\ upstream \in [Sources -> Node]
    /\ pc \in {"returned", "asking", "text"}
    /\ op \in {"none", "list_all"} \cup Lookups
    /\ wanted \in {"none"} \cup Ids
    /\ pos \in 0..(Len(registry) + 1)
    /\ pc # "returned" => pos \in Sources
    /\ page \in Content \cup {Absent}
    /\ DOMAIN results \subseteq Sources
    /\ \A i \in DOMAIN results : results[i] \in Content
    /\ reply \in [kind    : {"none", "Ok", "SourceNotFound", "AggregationFailed"},
                  cause   : {"none"} \cup Errors,
                  content : Content \cup {Absent}]
    /\ heard \in [Sources -> {"unasked", "Ok"} \cup Errors]
    /\ seen \in [Sources -> SUBSET Node]

\* When list_all_files returns, every source was asked, whatever became of
\* those before it; the listing has the entries of just those that answered,
\* each a page its URL held during the call.
ListingComplete ==
    pc = "returned" /\ op = "list_all" =>
        \A i \in Sources :
            /\ heard[i] # "unasked"
            /\ i \in DOMAIN results <=> heard[i] = "Ok"
            /\ i \in DOMAIN results => results[i] \in seen[i]

\* An error says whose it is. SourceNotFound is the service's own and no source
\* has the id: a placeholder's comes as AggregationFailed. A FileNotFound was
\* true during the call, and what was returned is of the source asked for.
ErrorsSayWhose ==
    pc = "returned" /\ op \in Lookups =>
        /\ reply.kind = "SourceNotFound" <=> Having(wanted) = {}
        /\ reply.kind = "AggregationFailed" =>
              /\ source_id(pos) = wanted
              /\ reply.cause = "SourceNotFound" => pos \notin Http
              /\ reply.cause = "FileNotFound" => Absent \in seen[pos]
        /\ reply.kind = "Ok" =>
              /\ source_id(pos) = wanted
              /\ reply.content \in seen[pos] \cup ErrorPages

\* A file of the last listing asked for by the source_id it was listed with is
\* looked for in the source it is from.
LeadsBack(i) ==
    pc = "returned" /\ pc' = "asking" /\ op' \in Lookups /\ wanted' = source_id(i)
        => pos' = i

\* Though ids are not unique, what a listing shows is found again by its id:
\* what shares an id lists nothing, but if an HTTP source is given the name all
\* placeholders have for an id.
FilesLeadBack ==
    [][\A i \in DOMAIN results : registry[i].name # "placeholder" => LeadsBack(i)]_vars

\* How many awaits a call comes to yet, at most: the answer and its text of
\* each source that is left to ask.
AwaitsLeft ==
    IF pc = "returned" THEN 0
    ELSE (IF op = "list_all" THEN 2 * (Len(registry) - pos) ELSE 0)
         + (IF pc = "asking" THEN 2 ELSE 1)

\* A call only ever advances, whatever its sources answer: each of its steps
\* leaves fewer awaits, so that no source is asked again and no failure can
\* hold list_all_files up for more than the two awaits of one source.
CallsAdvance ==
    [][pc # "returned" =>
          \/ AwaitsLeft' < AwaitsLeft
          \/ UNCHANGED <<pc, op, wanted, pos, page, results, reply, heard>>]_vars

\* list_all_files returns, and so does every other call: each source takes at
\* most its timeout, and failures do not hold it up.
CallsReturn == pc # "returned" ~> pc = "returned"

-------------------------------------------------------------------------------
(* What the repository's docs say, and the code does not do.               *)

\* ports/source.rs:53 "Returns the unique identifier of this source."
\* Here: whatever sources are called, a file leads back to its source.
IdsLeadBack == [][\A i \in DOMAIN results : LeadsBack(i)]_vars
===============================================================================
