---------------------------- MODULE AggregatorProofs ----------------------------
(* Proofs about Aggregator, for any sources, names and contents.           *)
EXTENDS Aggregator, NumberLemmas, TLAPS

\* What each error says of the URL, and where the content of an answer is from.
LEMMA ListAnswers ==
    ASSUME NEW node \in Node, NEW a \in Answers(node)
    PROVE  /\ ListError(a) \in {"Ok", "FileNotFound", "ConnectionFailed"}
           /\ ListError(a) = "Ok" => a.content = node /\ a.content \in Content
           /\ ListError(a) = "FileNotFound" => node = Absent
           /\ a.content \in Content \cup {Absent}
BY DEF Answers, ListError, Node, Content, Failed, Refusals, Missing, Found

LEMMA FileAnswers ==
    ASSUME NEW node \in Node, NEW a \in Answers(node)
    PROVE  /\ ReadError(a) = MetadataError(a)
           /\ MetadataError(a) \in {"Ok", "FileNotFound", "ConnectionFailed"}
           /\ MetadataError(a) = "Ok" =>
                 a.content \in {node} \cup ErrorPages /\ a.content \in Content
           /\ MetadataError(a) = "FileNotFound" => node = Absent
           /\ a.content \in Content \cup {Absent}
BY DEF Answers, ReadError, MetadataError, Node, Content, Failed, Refusals, Missing, Found

\* find() finds a source with the id if there is one.
LEMMA FirstHasId ==
    ASSUME NEW id, registry \in Registries, Having(id) # {}
    PROVE  First(id) \in Having(id)
<1>1. Having(id) \in SUBSET Nat
  BY DEF Having, Sources, Registries
<1>2. \E i \in Having(id) : \A j \in Having(id) : i <= j
  BY <1>1, LeastNumber
<1>3. QED
  BY <1>2 DEF First

\* Where list_all_files is: behind pos it has asked, before pos it has not.
ListInv ==
    op = "list_all" =>
        /\ pos \in Nat
        /\ pc = "returned" => pos > Len(registry)
        /\ \A i \in Sources :
              /\ i < pos <=> heard[i] # "unasked"
              /\ i \in DOMAIN results <=> heard[i] = "Ok"
              /\ i \in DOMAIN results => results[i] \in seen[i]

\* A lookup is at a source that has the id it was given, if there is one, and
\* waits only then.
LookupInv ==
    /\ op \in Lookups /\ Having(wanted) # {} => pos \in Having(wanted)
    /\ op \in Lookups /\ pc # "returned" => Having(wanted) # {}
    /\ ErrorsSayWhose

\* Only HTTP sources are awaited and list something, and what they list they
\* hold at some moment.
AggregatorInv ==
    /\ TypeOK
    /\ pc # "returned" => op # "none"
    /\ DOMAIN results \subseteq Http
    /\ pc = "text" => pos \in Http /\ page \in seen[pos] /\ page \in Content /\ Listing
    /\ \A i \in Sources : upstream[i] \in seen[i]
    /\ ListInv
    /\ LookupInv

LEMMA RegistryTypes ==
    ASSUME registry \in Registries
    PROVE  /\ Len(registry) \in Nat
           /\ Sources = 1..Len(registry)
           /\ Http \subseteq Sources
           /\ \A i \in Sources : registry[i] \in AnySource
           /\ \A i, j \in Sources : registry[i].name = registry[j].name => i = j
           /\ \A i \in Sources : source_id(i) \in Ids
BY DEF Registries, Sources, Http, AnySource, source_id, Ids

-------------------------------------------------------------------------------
\* The invariant survives whatever a source's call may end with.
LEMMA SettlePreserves ==
    ASSUME AggregatorInv, pc # "returned", NEW e \in {"Ok"} \cup Errors, NEW content,
           e = "Ok" => /\ pos \in Http
                       /\ content \in Content
                       /\ content \in seen[pos] \/ (op \in Lookups /\ content \in ErrorPages),
           e = "SourceNotFound" => pos \notin Http,
           e = "FileNotFound" => Absent \in seen[pos],
           Settle(e, content)
    PROVE  AggregatorInv'
<1>1. /\ UNCHANGED <<registry, upstream, op, wanted, seen>>
      /\ page' = Absent
      /\ heard' = [heard EXCEPT ![pos] = e]
  BY DEF Settle
<1>2. /\ pos \in Sources /\ Sources = 1..Len(registry) /\ Len(registry) \in Nat
      /\ Http \subseteq Sources
      /\ op \in {"list_all"} \cup Lookups
  BY RegistryTypes DEF AggregatorInv, TypeOK
<1>3. Sources' = Sources /\ Http' = Http /\ Registries' = Registries
      /\ source_id(pos)' = IF pos' \in Http THEN registry[pos'].name ELSE "placeholder"
  BY <1>1 DEF Sources, Http, Registries, source_id
<1>4. CASE op = "list_all"
  <2>1. /\ pos' = pos + 1
        /\ pc' = IF pos = Len(registry) THEN "returned" ELSE "asking"
        /\ reply' = reply
        /\ results' = [i \in DOMAIN results \cup (IF e = "Ok" THEN {pos} ELSE {}) |->
                         IF i = pos THEN content ELSE results[i]]
    BY <1>4 DEF Settle, NextSource
  <2>2. pos' \in 0..(Len(registry) + 1) /\ (pc' # "returned" => pos' \in Sources)
    BY <1>2, <2>1
  <2>3. /\ DOMAIN results' \subseteq Http
        /\ \A i \in DOMAIN results' : results'[i] \in Content
    <3>1. /\ DOMAIN results' = DOMAIN results \cup (IF e = "Ok" THEN {pos} ELSE {})
          /\ \A i \in DOMAIN results' :
                results'[i] = IF i = pos THEN content ELSE results[i]
      BY <2>1
    <3>2. DOMAIN results \subseteq Http /\ \A i \in DOMAIN results : results[i] \in Content
      BY DEF AggregatorInv, TypeOK
    <3>3. pos \notin DOMAIN results
      BY <1>2, <1>4 DEF AggregatorInv, ListInv
    <3>4. QED
      BY <3>1, <3>2, <3>3
  <2>4. ListInv'
    <3>1. ListInv /\ heard \in [Sources -> {"unasked", "Ok"} \cup Errors]
      BY DEF AggregatorInv, TypeOK
    <3>2. e # "unasked" /\ (e = "Ok" => content \in seen[pos])
      BY <1>4 DEF Errors, TextError, Lookups
    <3>3. ASSUME NEW i \in Sources
          PROVE  /\ i < pos' <=> heard'[i] # "unasked"
                 /\ i \in DOMAIN results' <=> heard'[i] = "Ok"
                 /\ i \in DOMAIN results' => results'[i] \in seen[i]
      <4>1. CASE i = pos
        <5>1. heard'[i] = e /\ i < pos'
          BY <1>1, <1>2, <2>1, <3>1, <4>1
        <5>2. i \notin DOMAIN results
          BY <1>2, <1>4, <3>1, <4>1 DEF ListInv
        <5>3. QED
          BY <2>1, <3>2, <4>1, <5>1, <5>2
      <4>2. CASE i # pos
        <5>1. heard'[i] = heard[i] /\ (i < pos' <=> i < pos)
          BY <1>1, <1>2, <2>1, <3>1, <4>2
        <5>2. i \in DOMAIN results' <=> i \in DOMAIN results
          BY <2>1, <4>2
        <5>3. i \in DOMAIN results => results'[i] = results[i]
          BY <2>1, <4>2
        <5>4. QED
          BY <1>4, <3>1, <5>1, <5>2, <5>3 DEF ListInv
      <4>3. QED
        BY <4>1, <4>2
    <3>4. pos' \in Nat /\ (pc' = "returned" => pos' > Len(registry))
      BY <1>2, <2>1
    <3>5. QED
      BY <1>1, <1>3, <1>4, <3>3, <3>4 DEF ListInv
  <2>5. LookupInv'
    BY <1>1, <1>4 DEF LookupInv, ErrorsSayWhose, Lookups
  <2>6. heard' \in [Sources -> {"unasked", "Ok"} \cup Errors]
    BY <1>1, <1>2 DEF AggregatorInv, TypeOK
  <2>7. QED
    BY <1>1, <1>2, <1>3, <1>4, <2>1, <2>2, <2>3, <2>4, <2>5, <2>6 DEF AggregatorInv, TypeOK
<1>5. CASE op \in Lookups
  <2>1. /\ pc' = "returned"
        /\ reply' = IF e = "Ok" THEN Reply("Ok", "none", content)
                    ELSE Reply("AggregationFailed", e, Absent)
        /\ UNCHANGED <<pos, results>>
    BY <1>5 DEF Settle, Wrapped, Lookups
  <2>2. source_id(pos) = wanted /\ Having(wanted)' = Having(wanted) /\ pos \in Having(wanted)
        /\ source_id(pos)' = source_id(pos)
    BY <1>1, <1>2, <1>3, <1>5, <2>1
       DEF AggregatorInv, LookupInv, Having, source_id, Http, Sources
  <2>3. LookupInv'
    BY <1>1, <1>3, <1>5, <2>1, <2>2 DEF LookupInv, ErrorsSayWhose, Reply
  <2>4. ListInv'
    BY <1>1, <1>5 DEF ListInv, Lookups
  <2>5. heard' \in [Sources -> {"unasked", "Ok"} \cup Errors]
    BY <1>1, <1>2 DEF AggregatorInv, TypeOK
  <2>6. reply' \in [kind    : {"none", "Ok", "SourceNotFound", "AggregationFailed"},
                    cause   : {"none"} \cup Errors,
                    content : Content \cup {Absent}]
    BY <2>1 DEF Reply
  <2>7. QED
    BY <1>1, <1>2, <1>3, <1>5, <2>1, <2>3, <2>4, <2>5, <2>6 DEF AggregatorInv, TypeOK
<1>6. QED
  BY <1>2, <1>4, <1>5

-------------------------------------------------------------------------------
LEMMA AggregatorInvariant == Spec => []AggregatorInv
<1>1. Init => AggregatorInv
  <2> SUFFICES ASSUME Init PROVE AggregatorInv
    OBVIOUS
  <2>1. Len(registry) \in Nat
    BY RegistryTypes DEF Init
  <2>2. QED
    BY <2>1 DEF Init, AggregatorInv, TypeOK, ListInv, LookupInv, ErrorsSayWhose,
                NoReply, Reply, Node, Content, Lookups
<1>2. AggregatorInv /\ [Next]_vars => AggregatorInv'
  <2> SUFFICES ASSUME AggregatorInv, [Next]_vars PROVE AggregatorInv'
    OBVIOUS
  <2>0. /\ TypeOK
        /\ Len(registry) \in Nat
        /\ Sources = 1..Len(registry)
        /\ Http \subseteq Sources
        /\ \A i \in Sources : upstream[i] \in Node
        /\ \A i \in Sources : source_id(i) \in Ids
    BY RegistryTypes DEF AggregatorInv, TypeOK
  <2>1. CASE UNCHANGED vars
    BY <2>1 DEF vars, AggregatorInv, TypeOK, ListInv, LookupInv, ErrorsSayWhose,
                Having, source_id, Http, Sources, Listing
  <2>2. CASE list_all_files
    <3>1. /\ pc = "returned" /\ pos' = 1
          /\ pc' \in {"returned", "asking"}
          /\ pc' = "returned" <=> Sources = {}
          /\ op' = "list_all" /\ wanted' = "none"
          /\ page' = Absent /\ reply' = NoReply
          /\ DOMAIN results' = {}
          /\ heard' = [i \in Sources |-> "unasked"]
          /\ seen' = [i \in Sources |-> {upstream[i]}]
          /\ UNCHANGED <<registry, upstream>>
      BY <2>2 DEF list_all_files, Starts
    <3>2. ListInv' /\ LookupInv'
      BY <2>0, <3>1
         DEF ListInv, LookupInv, ErrorsSayWhose, Lookups, Sources
    <3>3. QED
      BY <2>0, <3>1, <3>2
         DEF AggregatorInv, TypeOK, NoReply, Reply, Sources, Http, Registries
  <2>3. ASSUME NEW method \in Lookups, NEW id \in Ids, Lookup(method, id)
        PROVE  AggregatorInv'
    <3>1. /\ pc = "returned"
          /\ op' = method /\ wanted' = id
          /\ page' = Absent
          /\ UNCHANGED <<results, registry, upstream>>
          /\ heard' = [i \in Sources |-> "unasked"]
          /\ seen' = [i \in Sources |-> {upstream[i]}]
      BY <2>3 DEF Lookup, Starts
    <3>2. /\ Sources' = Sources /\ Http' = Http
          /\ \A i : Having(i)' = Having(i)
          /\ \A i \in Sources : registry'[i] = registry[i]
      BY <3>1 DEF Sources, Http, Having, source_id
    <3>3. CASE Having(id) = {}
      <4>1. reply' = Reply("SourceNotFound", "none", Absent) /\ UNCHANGED <<pos, pc>>
        BY <2>3, <3>3 DEF Lookup
      <4>2. LookupInv'
        BY <3>1, <3>2, <3>3, <4>1 DEF LookupInv, ErrorsSayWhose, Reply
      <4>3. QED
        BY <2>0, <3>1, <3>2, <4>1, <4>2
           DEF AggregatorInv, TypeOK, ListInv, Lookups, Reply
    <3>4. CASE Having(id) # {}
      <4>1. pos' = First(id) /\ pc' = "asking" /\ reply' = NoReply
        BY <2>3, <3>4 DEF Lookup
      <4>2. pos' \in Sources /\ source_id(pos') = id /\ pos' \in Having(id)
        BY <2>0, <3>4, <4>1, FirstHasId DEF TypeOK, Having
      <4>3. source_id(pos)' = id
        BY <3>1, <4>2 DEF source_id, Http, Sources
      <4>4. LookupInv'
        BY <3>1, <3>2, <3>4, <4>1, <4>2 DEF LookupInv, ErrorsSayWhose
      <4>5. QED
        BY <2>0, <3>1, <3>2, <4>1, <4>2, <4>4
           DEF AggregatorInv, TypeOK, ListInv, Lookups, NoReply, Reply
    <3>5. QED
      BY <3>3, <3>4
  <2>4. CASE PlaceholderAnswers
    BY <2>4, SettlePreserves DEF PlaceholderAnswers, Errors
  <2>5. ASSUME pc = "asking", NEW a \in Answers(upstream[pos]), Answered(a)
        PROVE  AggregatorInv'
    <3>1. pos \in Http /\ pos \in Sources /\ upstream[pos] \in Node /\ upstream[pos] \in seen[pos]
      BY <2>0, <2>5 DEF Answered, AggregatorInv
    <3>2. CASE Listing /\ Error(a) = "Ok"
      <4>1. /\ pc' = "text" /\ page' = a.content
            /\ UNCHANGED <<registry, upstream, seen, op, wanted, pos, results, reply, heard>>
        BY <2>5, <3>2 DEF Answered, call
      <4>2. a.content = upstream[pos] /\ a.content \in Content
        BY <3>1, <3>2, ListAnswers DEF Error, Listing
      <4>3. LookupInv' /\ ListInv'
        BY <2>5, <4>1
           DEF AggregatorInv, LookupInv, ErrorsSayWhose, ListInv, Having,
               source_id, Sources, Http
      <4>4. QED
        BY <2>0, <2>5, <3>1, <3>2, <4>1, <4>2, <4>3
           DEF AggregatorInv, TypeOK, Listing, Sources, Http, Registries
    <3>3. CASE ~(Listing /\ Error(a) = "Ok")
      <4>1. Settle(Error(a), a.content)
        BY <2>5, <3>3 DEF Answered
      <4>2. CASE Listing
        <5>1. Error(a) \in {"FileNotFound", "ConnectionFailed"}
              /\ (Error(a) = "FileNotFound" => upstream[pos] = Absent)
          BY <3>1, <3>3, <4>2, ListAnswers DEF Error, Listing
        <5>2. QED
          BY <2>5, <3>1, <4>1, <5>1, SettlePreserves DEF Errors
      <4>3. CASE ~Listing
        <5>1. op \in {"metadata", "read"}
          BY <2>0, <2>5, <4>3 DEF AggregatorInv, TypeOK, Lookups, Listing
        <5>2. /\ Error(a) \in {"Ok", "FileNotFound", "ConnectionFailed"}
              /\ Error(a) = "Ok" =>
                    a.content \in {upstream[pos]} \cup ErrorPages /\ a.content \in Content
              /\ Error(a) = "FileNotFound" => upstream[pos] = Absent
          BY <3>1, <4>3, <5>1, FileAnswers DEF Error, Listing
        <5>3. QED
          BY <2>5, <3>1, <4>1, <5>1, <5>2, SettlePreserves DEF Errors, Lookups
      <4>4. QED
        BY <4>2, <4>3
    <3>4. QED
      BY <3>2, <3>3
  <2>6. CASE TextRead
    BY <2>6, SettlePreserves DEF TextRead, AggregatorInv, Errors, TextError
  <2>7. CASE TextFailed
    BY <2>7, SettlePreserves DEF TextFailed, AggregatorInv, Errors, TextError
  <2>8. ASSUME NEW i \in Sources, NEW node \in Node, Publish(i, node)
        PROVE  AggregatorInv'
    <3>1. /\ UNCHANGED <<registry, pc, op, wanted, pos, page, results, reply, heard>>
          /\ upstream' = [upstream EXCEPT ![i] = node]
          /\ seen' = [seen EXCEPT ![i] = @ \cup {node}]
      BY <2>8 DEF Publish
    <3>2. /\ upstream' \in [Sources -> Node]
          /\ seen' \in [Sources -> SUBSET Node]
          /\ \A j \in Sources : upstream'[j] \in seen'[j] /\ seen[j] \subseteq seen'[j]
      BY <3>1 DEF AggregatorInv, TypeOK
    <3>3. Sources' = Sources /\ Http' = Http /\ Registries' = Registries
          /\ Having(wanted)' = Having(wanted) /\ source_id(pos)' = source_id(pos)
      BY <3>1 DEF Sources, Http, Registries, Having, source_id
    <3>4. TypeOK'
      BY <3>1, <3>2, <3>3 DEF AggregatorInv, TypeOK
    <3>5. ListInv'
      BY <3>1, <3>2, <3>3 DEF AggregatorInv, ListInv
    <3>6. LookupInv'
      <4>1. op \in Lookups /\ reply.kind # "SourceNotFound" /\ pc = "returned" =>
              pos \in Sources
        BY DEF AggregatorInv, LookupInv, ErrorsSayWhose, Having
      <4>2. QED
        BY <3>1, <3>2, <3>3, <4>1 DEF AggregatorInv, LookupInv, ErrorsSayWhose
    <3>7. QED
      BY <2>0, <3>1, <3>2, <3>3, <3>4, <3>5, <3>6 DEF AggregatorInv, Listing
  <2>9. QED
    BY <2>1, <2>2, <2>3, <2>4, <2>5, <2>6, <2>7, <2>8 DEF Next
<1>3. QED
  BY <1>1, <1>2, PTL DEF Spec

-------------------------------------------------------------------------------
\* Every variable keeps its type.
THEOREM TypeCorrect == Spec => []TypeOK
<1>1. AggregatorInv => TypeOK
  BY DEF AggregatorInv
<1>2. QED
  BY <1>1, AggregatorInvariant, PTL

\* A source that fails hides no other, and nothing is made up: a listing is
\* made of just the sources that answered, of what each held.
THEOREM ListingsAreComplete == Spec => []ListingComplete
<1>1. AggregatorInv => ListingComplete
  <2> SUFFICES ASSUME AggregatorInv, pc = "returned", op = "list_all",
                      NEW i \in Sources
               PROVE  /\ heard[i] # "unasked"
                      /\ i \in DOMAIN results <=> heard[i] = "Ok"
                      /\ i \in DOMAIN results => results[i] \in seen[i]
    BY DEF ListingComplete
  <2>1. pos > Len(registry) /\ pos \in Nat
    BY DEF AggregatorInv, ListInv
  <2>2. i \in 1..Len(registry) /\ Len(registry) \in Nat
    BY RegistryTypes DEF AggregatorInv, TypeOK
  <2>3. i < pos
    BY <2>1, <2>2
  <2>4. QED
    BY <2>3 DEF AggregatorInv, ListInv
<1>2. QED
  BY <1>1, AggregatorInvariant, PTL

\* What a lookup returns is of a source with the id it was given, and its
\* errors tell a missing source from a missing file.
THEOREM ErrorsAreAttributed == Spec => []ErrorsSayWhose
<1>1. AggregatorInv => ErrorsSayWhose
  BY DEF AggregatorInv, LookupInv
<1>2. QED
  BY <1>1, AggregatorInvariant, PTL

\* Placeholders share an id, but no file is lost by it: an HTTP source that is
\* not called "placeholder" is the only one with its id, and only HTTP sources
\* list something.
THEOREM FilesAreFoundAgain == Spec => FilesLeadBack
<1>1. ASSUME AggregatorInv, [Next]_vars,
             NEW i \in DOMAIN results, registry[i].name # "placeholder"
      PROVE  LeadsBack(i)
  <2> SUFFICES ASSUME pc = "returned", pc' = "asking", op' \in Lookups,
                      wanted' = source_id(i)
               PROVE  pos' = i
    BY DEF LeadsBack
  <2>1. i \in Http /\ i \in Sources /\ source_id(i) = registry[i].name
    BY <1>1 DEF AggregatorInv, TypeOK, source_id
  <2>2. Having(source_id(i)) = {i}
    <3>1. ASSUME NEW j \in Sources, source_id(j) = source_id(i) PROVE j = i
      <4>1. j \in Http
        BY <1>1, <2>1, <3>1 DEF source_id
      <4>2. registry[j].name = registry[i].name
        BY <2>1, <3>1, <4>1 DEF source_id
      <4>3. QED
        BY <1>1, <2>1, <4>2, RegistryTypes DEF AggregatorInv, TypeOK
    <3>2. QED
      BY <2>1, <3>1 DEF Having
  <2>3. PICK method \in Lookups, id \in Ids : Lookup(method, id)
    <3>1. ~ list_all_files
      BY DEF list_all_files, Lookups
    <3>2. QED
      BY <1>1, <3>1
         DEF Next, vars, PlaceholderAnswers, TextRead, TextFailed, Publish
  <2>4. id = source_id(i) /\ pos' = First(id)
    BY <2>2, <2>3 DEF Lookup
  <2>5. First(source_id(i)) \in Having(source_id(i))
    BY <1>1, <2>2, FirstHasId DEF AggregatorInv, TypeOK
  <2>6. QED
    BY <2>2, <2>4, <2>5
<1>2. AggregatorInv /\ [Next]_vars =>
        [\A i \in DOMAIN results : registry[i].name # "placeholder" => LeadsBack(i)]_vars
  BY <1>1
<1>3. QED
  BY <1>2, AggregatorInvariant, PTL DEF Spec, FilesLeadBack

\* Every step of a call brings it closer to its return, whatever its sources
\* answer: what makes CallsReturn true once answers and timeouts come.
THEOREM CallsOnlyAdvance == Spec => CallsAdvance
<1>1. ASSUME AggregatorInv, [Next]_vars, pc # "returned"
      PROVE  \/ AwaitsLeft' < AwaitsLeft
             \/ UNCHANGED <<pc, op, wanted, pos, page, results, reply, heard>>
  <2>1. /\ pc \in {"asking", "text"} /\ op \in {"list_all"} \cup Lookups
        /\ pos \in Sources /\ Sources = 1..Len(registry) /\ Len(registry) \in Nat
    BY <1>1, RegistryTypes DEF AggregatorInv, TypeOK
  <2>2. ASSUME NEW e, NEW content, Settle(e, content)
        PROVE  AwaitsLeft' < AwaitsLeft
    <3>1. op' = op /\ registry' = registry
      BY <2>2 DEF Settle
    <3>2. CASE op = "list_all"
      <4>1. pos' = pos + 1 /\ pc' = IF pos = Len(registry) THEN "returned" ELSE "asking"
        BY <2>2, <3>2 DEF Settle, NextSource
      <4>2. pos \in Nat /\ pos <= Len(registry)
        BY <2>1
      <4>3. AwaitsLeft = 2 * (Len(registry) - pos) + (IF pc = "asking" THEN 2 ELSE 1)
        BY <1>1, <3>2 DEF AwaitsLeft
      <4>4. CASE pos = Len(registry)
        <5>1. AwaitsLeft' = 0
          BY <4>1, <4>4 DEF AwaitsLeft
        <5>2. QED
          BY <2>1, <4>2, <4>3, <4>4, <5>1
      <4>5. CASE pos # Len(registry)
        <5>1. AwaitsLeft' = 2 * (Len(registry) - (pos + 1)) + 2
          BY <3>1, <3>2, <4>1, <4>5 DEF AwaitsLeft
        <5>2. QED
          BY <2>1, <4>2, <4>3, <5>1
      <4>6. QED
        BY <4>4, <4>5
    <3>3. CASE op # "list_all"
      <4>1. pc' = "returned"
        BY <2>2, <3>3 DEF Settle
      <4>2. QED
        BY <1>1, <3>3, <4>1 DEF AwaitsLeft
    <3>4. QED
      BY <3>2, <3>3
  <2>3. ASSUME NEW a, Answered(a)
        PROVE  AwaitsLeft' < AwaitsLeft
    <3>1. CASE Listing /\ Error(a) = "Ok"
      <4>1. pc = "asking" /\ pc' = "text" /\ UNCHANGED <<registry, op, pos>>
        BY <2>3, <3>1 DEF Answered, call
      <4>2. QED
        BY <2>1, <4>1 DEF AwaitsLeft
    <3>2. CASE ~(Listing /\ Error(a) = "Ok")
      BY <2>2, <2>3, <3>2 DEF Answered
    <3>3. QED
      BY <3>1, <3>2
  <2>4. QED
    BY <1>1, <2>2, <2>3
       DEF Next, vars, list_all_files, Lookup, Starts, PlaceholderAnswers, TextRead,
           TextFailed, Publish
<1>2. AggregatorInv /\ [Next]_vars =>
        [pc # "returned" =>
            \/ AwaitsLeft' < AwaitsLeft
            \/ UNCHANGED <<pc, op, wanted, pos, page, results, reply, heard>>]_vars
  BY <1>1
<1>3. QED
  BY <1>2, AggregatorInvariant, PTL DEF Spec, CallsAdvance

===============================================================================
