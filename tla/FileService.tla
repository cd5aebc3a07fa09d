------------------------------ MODULE FileService ------------------------------
(***************************************************************************)
(* What a client of an exporter may rely on, whatever the number and the   *)
(* order of the upstream calls behind it: every reply is taken from what   *)
(* the URL holds at one moment of the request. A 404 means it holds        *)
(* nothing, a listing or a file is the content it holds; only the length   *)
(* announced with a file comes from another moment, an earlier one. An     *)
(* upstream that refuses may be passed off as its error page.              *)
(***************************************************************************)
EXTENDS Naturals

CONSTANTS
    Requests,   \* the requests clients make
    Urls,       \* what can be asked for
    Content,    \* what can be sent
    ErrorPages, \* what is sent for a refusal
    Absent,     \* what a URL holds when it holds nothing
    Length,     \* Length[c]: the number of bytes of content c
    None        \* no length is announced

VARIABLES
    held,       \* what each URL holds now
    target,     \* the URL each request is for, or Elsewhere
    phase,      \* how far each request is
    chosen,     \* the content of a listing that is being put together
    announced,  \* the length a file is going to be announced with
    reply,      \* the head of the reply
    got         \* the bytes of a file its client was sent

vars == <<held, target, phase, chosen, announced, reply, got>>

Elsewhere == <<>>

Head(status, kind, content, length) ==
    [status |-> status, kind |-> kind, content |-> content, length |-> length]

NoReply       == Head(0, "none", Absent, None)
Error(status) == Head(status, "error", Absent, None)

\* What a request may be shown of its URL now: what it holds, if anything, or
\* the page of a refusal.
Shown(r) == ({held[target[r]]} \cup ErrorPages) \ {Absent}

\* What is announced for content c: its length, or nothing.
Lengths(c) == {None, Length[c]}

Init ==
    /\ held \in [Urls -> (Content \ ErrorPages) \cup {Absent}]
    /\ target \in [Requests -> Urls \cup {Elsewhere}]
    /\ phase = [r \in Requests |-> "idle"]
    /\ chosen = [r \in Requests |-> Absent]
    /\ announced = [r \in Requests |-> None]
    /\ reply = [r \in Requests |-> NoReply]
    /\ got = [r \in Requests |-> 0]

Change(u, node) ==
    /\ held' = [held EXCEPT ![u] = node]
    /\ UNCHANGED <<target, phase, chosen, announced, reply, got>>

Becomes(r, where) == phase' = [phase EXCEPT ![r] = where]

Begin(r) ==
    /\ phase[r] = "idle" /\ target[r] # Elsewhere
    /\ Becomes(r, "pending")
    /\ UNCHANGED <<held, target, chosen, announced, reply, got>>

\* The moment of a listing, and the moment of an announced length.
Choose(r) ==
    /\ phase[r] = "pending"
    /\ held[target[r]] # Absent
    /\ chosen' = [chosen EXCEPT ![r] = held[target[r]]]
    /\ Becomes(r, "listed")
    /\ UNCHANGED <<held, target, announced, reply, got>>

Announce(r, length) ==
    /\ phase[r] = "pending"
    /\ announced' = [announced EXCEPT ![r] = length]
    /\ Becomes(r, "announced")
    /\ UNCHANGED <<held, target, chosen, reply, got>>

Replies(r, head) ==
    /\ reply' = [reply EXCEPT ![r] = head]
    /\ UNCHANGED <<held, target, got>>

\* The request is for nothing the service knows or can ask.
SendElsewhere(r) ==
    /\ phase[r] = "idle" /\ target[r] = Elsewhere
    /\ Replies(r, Error(404)) \/ Replies(r, Error(500))
    /\ Becomes(r, "complete")
    /\ UNCHANGED <<chosen, announced>>

SendNotFound(r) ==
    /\ phase[r] \in {"pending", "announced"}
    /\ held[target[r]] = Absent
    /\ Replies(r, Error(404))
    /\ Becomes(r, "complete")
    /\ UNCHANGED <<chosen, announced>>

SendFailure(r) ==
    /\ phase[r] \in {"pending", "listed", "announced"}
    /\ Replies(r, Error(500))
    /\ chosen' = [chosen EXCEPT ![r] = Absent]
    /\ Becomes(r, "complete")
    /\ UNCHANGED announced

SendListing(r) ==
    /\ phase[r] = "listed"
    /\ Replies(r, Head(200, "listing", chosen[r], None))
    /\ chosen' = [chosen EXCEPT ![r] = Absent]
    /\ Becomes(r, "complete")
    /\ UNCHANGED announced

SendHeaders(r, c, length) ==
    /\ phase[r] = "pending"
    /\ Replies(r, Head(200, "headers", c, length))
    /\ announced' = [announced EXCEPT ![r] = length]
    /\ Becomes(r, "complete")
    /\ UNCHANGED chosen

SendFile(r, c) ==
    /\ phase[r] = "announced"
    /\ Replies(r, Head(200, "file", c, announced[r]))
    /\ Becomes(r, "stream")
    /\ UNCHANGED <<chosen, announced>>

\* The body grows, ends whole as announced, or is visibly cut; and a client
\* may leave at any time.
SendBytes(r) ==
    /\ phase[r] = "stream"
    /\ got[r] \notin {Length[reply[r].content], reply[r].length}
    /\ got' = [got EXCEPT ![r] = @ + 1]
    /\ UNCHANGED <<held, target, phase, chosen, announced, reply>>

EndBody(r) ==
    /\ phase[r] = "stream"
    /\ \/ got[r] = (IF reply[r].length = None THEN Length[reply[r].content]
                                             ELSE reply[r].length)
          /\ Becomes(r, "complete")
       \/ Becomes(r, "aborted")
    /\ UNCHANGED <<held, target, chosen, announced, reply, got>>

Leave(r) ==
    /\ phase[r] \in {"pending", "listed", "announced", "stream"}
    /\ chosen' = [chosen EXCEPT ![r] = Absent]
    /\ Becomes(r, "gone")
    /\ UNCHANGED <<held, target, announced, reply, got>>

Serve(r) ==
    \/ Begin(r)
    \/ Choose(r)
    \/ /\ phase[r] \in {"pending", "announced"}
       /\ \E c \in Shown(r) :
             \/ SendFile(r, c)
             \/ \E length \in Lengths(c) :
                   Announce(r, length) \/ SendHeaders(r, c, length)
    \/ SendElsewhere(r)
    \/ SendNotFound(r)
    \/ SendFailure(r)
    \/ SendListing(r)
    \/ SendBytes(r)
    \/ EndBody(r)
    \/ Leave(r)

Next ==
    \/ \E r \in Requests : Serve(r)
    \/ \E u \in Urls, node \in (Content \ ErrorPages) \cup {Absent} : Change(u, node)

Spec == Init /\ [][Next]_vars
===============================================================================
