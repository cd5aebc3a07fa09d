--------------------------- MODULE ExporterLifecycle ---------------------------
(***************************************************************************)
(* The Exporter port as HttpExporter implements it on axum and tokio:      *)
(* crates/fourtou-adapters/src/exports/{http_server,mod}.rs. An exporter's *)
(* life is spread over tasks that only share channels. For each call of    *)
(* serve() there are                                                       *)
(*                                                                         *)
(*   the serve() future      binds, accepts, then drains and returns;      *)
(*   axum's signal task      waits for shutdown_rx.changed();              *)
(*   a task per connection   waits for its client and for the signal task. *)
(*                                                                         *)
(* serve() and shutdown() borrow the exporter, so its owner may call them  *)
(* again and side by side, cancel a call of serve() and keep the exporter, *)
(* or drop it with the calls that are running, in any order. main.rs is    *)
(* one such owner.                                                         *)
(***************************************************************************)
EXTENDS Naturals

CONSTANTS
    Exporters,     \* the exporters of the process
    Calls,         \* the calls of serve() their owners make
    Of,            \* Of[k]: the exporter that serve() is called of
    BadPrefix,     \* exporters whose prefix Router::nest() refuses with a panic
    Sockets,       \* socket addresses, with a fixed port
    Socket,        \* Socket[e]: the address exporter e is configured with
    Connections,   \* the TCP connections clients make
    MaxShutdowns   \* bound: calls of shutdown() per exporter

ASSUME LifecycleAssumption ==
    /\ Of \in [Calls -> Exporters]
    /\ BadPrefix \subseteq Exporters
    /\ Socket \in [Exporters -> Sockets]
    /\ MaxShutdowns \in Nat

VARIABLES
    serve,    \* where each call of serve() is, or how it ended
    alive,    \* whether the exporter, and so its shutdown_tx, still exists
    version,  \* the version of the watch channel: values sent so far
    rxSeen,   \* the version the receiver of a call's signal task has seen
    signal,   \* the signal task axum spawns for a call
    dialled,  \* the call whose listener each connection is made to
    link,     \* the state of each connection
    told      \* the connections that were told to shut down gracefully

vars == <<serve, alive, version, rxSeen, signal, dialled, link, told>>

Stopped   == {"new", "ok", "error", "panicked", "dropped"}
Listening == {"bound", "accepting"}
Serving   == Listening \cup {"draining"}

\* The connections a call has accepted and that are not closed.
Open(k) == {c \in Connections : dialled[c] = k /\ link[c] \in {"idle", "busy"}}

-------------------------------------------------------------------------------
Init ==
    /\ serve = [k \in Calls |-> "new"]
    /\ alive = [e \in Exporters |-> TRUE]
    /\ version = [e \in Exporters |-> 0]
    /\ rxSeen = [k \in Calls |-> 0]
    /\ signal = [k \in Calls |-> "none"]
    /\ dialled \in [Connections -> Calls]
    /\ link = [c \in Connections |-> "unused"]
    /\ told = {}

-------------------------------------------------------------------------------
(* The serve() future.                                                     *)

ServeBecomes(k, where) == serve' = [serve EXCEPT ![k] = where]

\* Nobody listens on the address of the call's exporter, a call of the same
\* exporter included.
AddressFree(k) ==
    \A j \in Calls : Socket[Of[j]] = Socket[Of[k]] => serve[j] \notin Listening

\* Faulty variant: the error of bind() is unwrapped.
ServeStarts_Unwraps(k) ==
    /\ alive[Of[k]]
    /\ serve[k] = "new"
    /\ \/ ServeBecomes(k, "panicked")
       \/ Of[k] \notin BadPrefix /\ AddressFree(k) /\ ServeBecomes(k, "bound")
    /\ UNCHANGED <<alive, version, rxSeen, signal, dialled, link, told>>

\* serve() is called: the router is built and the socket bound without a
\* suspension. Binding may fail for reasons of the host, and must when
\* somebody listens on the address. (A placeholder exporter returns its error
\* here every time and has nothing to shut down.)
ServeStarts(k) ==
    /\ alive[Of[k]]
    /\ serve[k] = "new"
    /\ \/ Of[k] \in BadPrefix /\ ServeBecomes(k, "panicked")
       \/ Of[k] \notin BadPrefix /\ ServeBecomes(k, "error")
       \/ Of[k] \notin BadPrefix /\ AddressFree(k) /\ ServeBecomes(k, "bound")
    /\ UNCHANGED <<alive, version, rxSeen, signal, dialled, link, told>>

\* Faulty variant: the receiver is taken from the sender (subscribe()), which
\* marks what was sent before as seen.
Subscribe_FromSender(k) ==
    /\ serve[k] = "bound"
    /\ rxSeen' = [rxSeen EXCEPT ![k] = version[Of[k]]]
    /\ signal' = [signal EXCEPT ![k] = "waiting"]
    /\ ServeBecomes(k, "accepting")
    /\ UNCHANGED <<alive, version, dialled, link, told>>

\* The receiver is cloned from the one made by new(), which has seen only the
\* channel's first value; axum spawns the signal task with it.
Subscribe(k) ==
    /\ serve[k] = "bound"
    /\ rxSeen' = [rxSeen EXCEPT ![k] = 0]
    /\ signal' = [signal EXCEPT ![k] = "waiting"]
    /\ ServeBecomes(k, "accepting")
    /\ UNCHANGED <<alive, version, dialled, link, told>>

\* Faulty variant: the signal task looks at what was sent only.
SignalFires_SentOnly(k) ==
    /\ signal[k] = "waiting"
    /\ version[Of[k]] > rxSeen[k]
    /\ signal' = [signal EXCEPT ![k] = "fired"]
    /\ UNCHANGED <<serve, alive, version, rxSeen, dialled, link, told>>

\* changed() returns: Ok when a version was sent that the receiver has not
\* seen, Err when the sender is gone. ok() makes both the same. The task is of
\* its own and waits on when its serve() is cancelled.
SignalFires(k) ==
    /\ signal[k] = "waiting"
    /\ version[Of[k]] > rxSeen[k] \/ ~alive[Of[k]]
    /\ signal' = [signal EXCEPT ![k] = "fired"]
    /\ UNCHANGED <<serve, alive, version, rxSeen, dialled, link, told>>

\* axum's accept loop takes a connection. It may still do so after the signal
\* fired: select! polls its two branches in random order.
AcceptConnection(k, c) ==
    /\ serve[k] = "accepting"
    /\ dialled[c] = k
    /\ link[c] = "queued"
    /\ link' = [link EXCEPT ![c] = "idle"]
    /\ UNCHANGED <<serve, alive, version, rxSeen, signal, dialled, told>>

\* Closing listeners resets the connections still in their backlogs.
ResetQueues(calls) ==
    link' = [c \in Connections |->
               IF dialled[c] \in calls /\ link[c] = "queued" THEN "reset" ELSE link[c]]

\* The accept loop sees the signal, leaves and drops the listener.
StopAccepting(k) ==
    /\ serve[k] = "accepting"
    /\ signal[k] = "fired"
    /\ ServeBecomes(k, "draining")
    /\ ResetQueues({k})
    /\ UNCHANGED <<alive, version, rxSeen, signal, dialled, told>>

\* Faulty variant: serve() returns without waiting for its connections.
Drained_NoWait(k) ==
    /\ serve[k] = "draining"
    /\ ServeBecomes(k, "ok")
    /\ UNCHANGED <<alive, version, rxSeen, signal, dialled, link, told>>

\* The last connection task of the call is gone: serve() returns Ok(()).
Drained(k) ==
    /\ serve[k] = "draining"
    /\ Open(k) = {}
    /\ ServeBecomes(k, "ok")
    /\ UNCHANGED <<alive, version, rxSeen, signal, dialled, link, told>>

\* Faulty variant: the cancelled call's signal task is aborted with it.
Cancel_AbortsSignal(k) ==
    /\ serve[k] \in {"accepting", "draining"}
    /\ ServeBecomes(k, "dropped")
    /\ ResetQueues({k})
    /\ signal' = [signal EXCEPT ![k] = "none"]
    /\ UNCHANGED <<alive, version, rxSeen, dialled, told>>

\* The future is dropped at an await, as by a timeout or select! around it, and
\* its listener with it. The signal task and the connection tasks are tasks of
\* their own and live on.
Cancel(k) ==
    /\ serve[k] \in {"accepting", "draining"}
    /\ ServeBecomes(k, "dropped")
    /\ ResetQueues({k})
    /\ UNCHANGED <<alive, version, rxSeen, signal, dialled, told>>

-------------------------------------------------------------------------------
(* The connection tasks and their clients.                                 *)

LinkBecomes(c, state) ==
    /\ link' = [link EXCEPT ![c] = state]
    /\ UNCHANGED <<serve, alive, version, rxSeen, signal, dialled>>

\* A client connects: the kernel queues it while there is a listener.
Dial(c) ==
    /\ link[c] = "unused"
    /\ serve[dialled[c]] \in Listening
    /\ LinkBecomes(c, "queued")
    /\ UNCHANGED told

RequestStarts(c) ==
    /\ link[c] = "idle"
    /\ c \notin told
    /\ LinkBecomes(c, "busy")
    /\ UNCHANGED told

\* The response is written: the connection is kept alive unless it was told.
RequestEnds(c) ==
    /\ link[c] = "busy"
    /\ LinkBecomes(c, IF c \in told THEN "closed" ELSE "idle")
    /\ UNCHANGED told

ClientCloses(c) ==
    /\ link[c] \in {"queued", "idle", "busy"}
    /\ LinkBecomes(c, "closed")
    /\ UNCHANGED told

\* Faulty variant: an idle connection waits for one more request.
ToldToClose_IdleWaits(c) ==
    /\ link[c] = "busy"
    /\ c \notin told
    /\ signal[dialled[c]] = "fired"
    /\ told' = told \cup {c}
    /\ LinkBecomes(c, "busy")

\* The connection task sees that the signal fired: an idle connection is
\* closed, a busy one after the request it is at.
ToldToClose(c) ==
    /\ link[c] \in {"idle", "busy"}
    /\ c \notin told
    /\ signal[dialled[c]] = "fired"
    /\ told' = told \cup {c}
    /\ LinkBecomes(c, IF link[c] = "idle" THEN "closed" ELSE "busy")

-------------------------------------------------------------------------------
(* The exporter's owner.                                                   *)

\* shutdown() sends and returns Ok(()) at once.
Shutdown(e) ==
    /\ alive[e]
    /\ version[e] < MaxShutdowns
    /\ version' = [version EXCEPT ![e] = @ + 1]
    /\ UNCHANGED <<serve, alive, rxSeen, signal, dialled, link, told>>

CallsOf(e) == {k \in Calls : Of[k] = e}

\* The task that owns the exporter is aborted at an await, or is done: the
\* futures that borrow the exporter are dropped, then the exporter and its
\* sender. No call can be made any more.
Drop(e) ==
    /\ alive[e]
    /\ \A k \in CallsOf(e) : serve[k] # "bound"
    /\ alive' = [alive EXCEPT ![e] = FALSE]
    /\ serve' = [k \in Calls |->
                   IF k \in CallsOf(e) /\ serve[k] \in {"new", "accepting", "draining"}
                     THEN "dropped" ELSE serve[k]]
    /\ ResetQueues(CallsOf(e))
    /\ UNCHANGED <<version, rxSeen, signal, dialled, told>>

-------------------------------------------------------------------------------
(* The specification.                                                      *)

CallStep(k) ==
    \/ ServeStarts(k)
    \/ Subscribe(k)
    \/ SignalFires(k)
    \/ \E c \in Connections : AcceptConnection(k, c)
    \/ StopAccepting(k)
    \/ Drained(k)
    \/ Cancel(k)

ConnectionStep(c) ==
    \/ Dial(c)
    \/ RequestStarts(c)
    \/ RequestEnds(c)
    \/ ClientCloses(c)
    \/ ToldToClose(c)

Next ==
    \/ \E k \in Calls : CallStep(k)
    \/ \E c \in Connections : ConnectionStep(c)
    \/ \E e \in Exporters : Shutdown(e) \/ Drop(e)

Spec == Init /\ [][Next]_vars

\* The runtime polls its tasks. Nothing is assumed of clients, who may never
\* finish a request, nor of the owner, who may never call anything.
FairSpec ==
    /\ Spec
    /\ \A k \in Calls :
          /\ WF_vars(Subscribe(k))
          /\ WF_vars(SignalFires(k))
          /\ WF_vars(StopAccepting(k))
          /\ WF_vars(Drained(k))
    /\ \A c \in Connections : WF_vars(ToldToClose(c))

-------------------------------------------------------------------------------
(* Properties.                                                             *)

\* What serve() can come to: it panics for a prefix that Router::nest()
\* refuses, before anything is bound, and for nothing else.
Outcomes(k) == IF Of[k] \in BadPrefix THEN {"new", "panicked", "dropped"}
                                      ELSE (Stopped \ {"panicked"}) \cup Serving

\* Every variable keeps its type, and serve() panics only for a bad prefix.
TypeOK ==
    /\ serve \in [Calls -> Stopped \cup Serving]
    /\ \A k \in Calls : serve[k] \in Outcomes(k)
    /\ alive \in [Exporters -> BOOLEAN]
    /\ version \in [Exporters -> 0..MaxShutdowns]
    /\ rxSeen \in [Calls -> 0..MaxShutdowns]
    /\ signal \in [Calls -> {"none", "waiting", "fired"}]
    /\ dialled \in [Connections -> Calls]
    /\ link \in [Connections ->
                   {"unused", "queued", "idle", "busy", "closed", "reset"}]
    /\ told \subseteq Connections

\* serve() returns Ok only to a shutdown() that was called, and only when
\* none of the connections it accepted is left: a caller that waits for
\* serve() (as shutdown() does not) can exit the process without cutting a
\* response of that call.
OkMeansDrained ==
    \A k \in Calls :
        serve[k] = "ok" => version[Of[k]] > 0 /\ Open(k) = {}

\* The exporter of a call was shut down or dropped.
Ending(k) == version[Of[k]] > 0 \/ ~alive[Of[k]]

\* No shutdown or drop can be missed: while a call whose exporter was shut down
\* or dropped still accepts or has connections, cancelled or not, its signal
\* task has fired or has before it what makes it fire. It is never left waiting
\* for a value that was sent before it began to listen, however often serve()
\* is called.
SignalReaches ==
    \A k \in Calls :
        /\ Ending(k)
        /\ serve[k] \in {"accepting", "draining"} \/ Open(k) # {}
        => \/ signal[k] = "fired"
           \/ signal[k] = "waiting" /\ (version[Of[k]] > rxSeen[k] \/ ~alive[Of[k]])

\* A shutdown is never lost: wherever serve() is when it is called, even
\* not called yet, an exporter that was shut down stops accepting.
ShutdownStopsAccepting ==
    \A k \in Calls :
        version[Of[k]] > 0 /\ serve[k] \in Listening ~> serve[k] \notin Listening

ClientsFinish(k) == []<>(\A c \in Open(k) : link[c] # "busy")

\* Once its exporter is shut down, a serve() ends as soon as the clients let
\* it: idle keep-alive connections never hold it up.
ShutdownCompletes ==
    \A k \in Calls :
        ClientsFinish(k) =>
            (version[Of[k]] > 0 /\ serve[k] \in Serving ~> serve[k] \notin Serving)

\* The connections of a serve() that was cancelled, or aborted with its task,
\* have nobody left who waits for them, and yet a shutdown() of the exporter
\* or its drop, before or after, closes each after its current request.
OrphansClose ==
    \A k \in Calls :
        ClientsFinish(k) => (serve[k] = "dropped" /\ Ending(k) ~> Open(k) = {})

\* What every step preserves, besides the types.
LifecycleInv ==
    /\ TypeOK
    /\ \A k \in Calls :
          /\ serve[k] \in Serving => alive[Of[k]]
          /\ signal[k] = "fired" => Ending(k)
          /\ serve[k] \in {"draining", "ok"} => version[Of[k]] > 0
          /\ serve[k] \notin {"accepting", "draining", "dropped"} => Open(k) = {}
          /\ serve[k] \in {"accepting", "draining"} \/ Open(k) # {} => signal[k] # "none"
          /\ rxSeen[k] = 0

-------------------------------------------------------------------------------
\* ports/export.rs:28 says shutdown() returns "`Ok(())` when the server has
\* shut down": a call that returns would never leave serve() running.
ShutdownReturnsStopped ==
    [][\A k \in Calls :
          version'[Of[k]] > version[Of[k]] => serve'[k] \notin Serving]_vars

===============================================================================
