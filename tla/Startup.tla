-------------------------------- MODULE Startup --------------------------------
(***************************************************************************)
(* crates/fourtou/src/main.rs: main() loads the configuration, builds each *)
(* exporter and spawns a task for its serve(), waits for ctrl-c, aborts    *)
(* the tasks and returns. Its runtime has worker threads: a task runs as   *)
(* soon as it is spawned, next to main(). When main() returns, the runtime *)
(* drops every task that is left, at whatever await it is.                 *)
(*                                                                         *)
(* What an exporter's task and its connections do is ExporterLifecycle:    *)
(* its actions are used here, inside a process and with main() for the     *)
(* owner, who calls serve() once of each exporter and cancels no call but  *)
(* by dropping it with its exporter.                                       *)
(***************************************************************************)
EXTENDS Naturals

CONSTANTS Exporters, BadPrefix, Sockets, Socket, Connections, MaxShutdowns

VARIABLES
    main,     \* where main() is, or how the process ended
    kind,     \* what each configured export is
    todo,     \* the exports main() has not built yet
    spawned,  \* those whose task was spawned
    aborted,  \* those whose task was aborted
    serve, alive, version, rxSeen, signal, dialled, link, told

\* A call of serve() is called by its exporter's name.
Exporter == INSTANCE ExporterLifecycle
              WITH Calls <- Exporters, Of <- [e \in Exporters |-> e]

ASSUME StartupAssumption ==
    /\ BadPrefix \subseteq Exporters
    /\ Socket \in [Exporters -> Sockets]
    /\ MaxShutdowns \in Nat

own       == <<main, kind, todo, spawned, aborted>>
lifecycle == <<serve, alive, version, rxSeen, signal, dialled, link, told>>
vars      == <<own, lifecycle>>

Kinds == {"http", "unparsable", "placeholder"}

\* The ways main() returns; the runtime is being dropped after either.
Returned == {"ok", "error"}

Running == main \notin {"exited", "killed"}

-------------------------------------------------------------------------------
\* Only HTTP exports have a prefix.
Init ==
    /\ main = "loading"
    /\ kind \in [Exporters -> Kinds]
    /\ \A e \in BadPrefix : kind[e] # "placeholder"
    /\ todo = Exporters
    /\ spawned = {}
    /\ aborted = {}
    /\ Exporter!Init

-------------------------------------------------------------------------------
(* main().                                                                 *)

MainBecomes(where) ==
    /\ main' = where
    /\ UNCHANGED <<kind, lifecycle>>

\* Config::load fails, or hands main() its exports. Building the sources and
\* the aggregator cannot fail.
LoadConfig ==
    /\ main = "loading"
    /\ MainBecomes("building") \/ MainBecomes("error")
    /\ UNCHANGED <<todo, spawned, aborted>>

\* Faulty variants: an export is built again and again; main() waits for
\* serve() itself.
BuildExporter_NotTaken(e) ==
    /\ main = "building"
    /\ e \in todo
    /\ spawned' = spawned \cup {e}
    /\ MainBecomes("building")
    /\ UNCHANGED <<todo, aborted>>

BuildExporter_Awaited(e) ==
    /\ main = "building"
    /\ e \in todo
    /\ \A f \in spawned : serve[f] \in {"ok", "error", "panicked"}
    /\ todo' = todo \ {e}
    /\ spawned' = spawned \cup {e}
    /\ MainBecomes("building")
    /\ UNCHANGED aborted

\* The next export, in the order of a HashMap: build_exporter fails if its
\* socket address does not parse, and main() with it; otherwise a task is
\* spawned, whatever became of those before.
BuildExporter(e) ==
    /\ main = "building"
    /\ e \in todo
    /\ todo' = todo \ {e}
    /\ IF kind[e] = "unparsable"
         THEN MainBecomes("error") /\ UNCHANGED spawned
         ELSE MainBecomes("building") /\ spawned' = spawned \cup {e}
    /\ UNCHANGED aborted

\* All are spawned: ctrl_c() installs the handler, or fails.
AwaitCtrlC ==
    /\ main = "building"
    /\ todo = {}
    /\ MainBecomes("waiting") \/ MainBecomes("error")
    /\ UNCHANGED <<todo, spawned, aborted>>

\* The user interrupts. Without a handler the process dies on the spot; once
\* there is one it stays, and only the first interrupt means anything.
Interrupt ==
    /\ \/ main = "waiting" /\ MainBecomes("aborting")
       \/ main \in {"loading", "building", "error"} /\ MainBecomes("killed")
    /\ UNCHANGED <<todo, spawned, aborted>>

\* Faulty variant: main() asks for a graceful shutdown.
AbortTask_Shutdown(e) ==
    /\ main = "aborting"
    /\ e \in spawned \ aborted
    /\ aborted' = aborted \cup {e}
    /\ Exporter!Shutdown(e)
    /\ UNCHANGED <<main, kind, todo, spawned>>

\* abort() marks a task; the task is dropped by whoever gets to it.
AbortTask(e) ==
    /\ main = "aborting"
    /\ e \in spawned \ aborted
    /\ aborted' = aborted \cup {e}
    /\ MainBecomes("aborting")
    /\ UNCHANGED <<todo, spawned>>

\* The handles are not awaited: Ok(()) at once.
MainReturns ==
    /\ main = "aborting"
    /\ aborted = spawned
    /\ MainBecomes("ok")
    /\ UNCHANGED <<todo, spawned, aborted>>

-------------------------------------------------------------------------------
(* The tasks main() spawned, and the runtime's.                            *)

\* A task runs serve(), once; a placeholder's returns its error at once.
TaskRuns(e) ==
    /\ Running
    /\ e \in spawned
    /\ serve[e] = "new"
    /\ Exporter!ServeStarts(e)
    /\ kind[e] = "placeholder" => serve'[e] = "error"
    /\ UNCHANGED own

\* What goes on without main(): the exporters' tasks and connections.
Background ==
    /\ Running
    /\ \/ \E e \in Exporters :
             \/ Exporter!Subscribe(e)
             \/ Exporter!SignalFires(e)
             \/ \E c \in Connections : Exporter!AcceptConnection(e, c)
             \/ Exporter!StopAccepting(e)
             \/ Exporter!Drained(e)
       \/ \E c \in Connections : Exporter!ConnectionStep(c)
    /\ UNCHANGED own

\* Why a task's future is dropped, the exporter it owns with it.
Ended(e)     == serve[e] \in {"ok", "error", "panicked"}
Cancelled(e) == e \in aborted \/ main \in Returned

\* Faulty variant: the first exporter to fail takes the others along.
TaskDropped_AllOrNone(e) ==
    /\ Running
    /\ e \in spawned
    /\ Cancelled(e) \/ \E f \in spawned : Ended(f)
    /\ Exporter!Drop(e)
    /\ UNCHANGED own

\* A task is over: serve() ended by itself (its error is logged), or the task
\* is aborted or dropped by the runtime, at an await. (A panic only unwinds it.)
TaskDropped(e) ==
    /\ Running
    /\ e \in spawned
    /\ Ended(e) \/ Cancelled(e)
    /\ Exporter!Drop(e)
    /\ UNCHANGED own

\* Faulty variant: the runtime waits for requests that are being answered.
ConnectionDropped_WhenIdle(c) ==
    /\ main \in Returned
    /\ link[c] = "idle"
    /\ Exporter!ClientCloses(c)
    /\ UNCHANGED own

\* The runtime drops a connection's task, even in the middle of a response:
\* to its client as to the exporter, the connection is closed.
ConnectionDropped(c) ==
    /\ main \in Returned
    /\ link[c] \in {"idle", "busy"}
    /\ Exporter!ClientCloses(c)
    /\ UNCHANGED own

\* The runtime is gone when its tasks are.
ProcessExits ==
    /\ main \in Returned
    /\ \A e \in spawned : ~alive[e] /\ Exporter!Open(e) = {}
    /\ MainBecomes("exited")
    /\ UNCHANGED <<todo, spawned, aborted>>

-------------------------------------------------------------------------------
(* The specification.                                                      *)

MainStep ==
    \/ LoadConfig
    \/ \E e \in Exporters : BuildExporter(e)
    \/ AwaitCtrlC
    \/ \E e \in Exporters : AbortTask(e)
    \/ MainReturns
    \/ ProcessExits

RuntimeStep ==
    \/ \E e \in Exporters : TaskRuns(e) \/ TaskDropped(e)
    \/ \E c \in Connections : ConnectionDropped(c)

Next == MainStep \/ RuntimeStep \/ Background \/ Interrupt

Spec == Init /\ [][Next]_vars

\* main() runs and the runtime polls or drops its tasks. Nothing is assumed
\* of clients and of the user.
FairSpec ==
    /\ Spec
    /\ WF_vars(MainStep)
    /\ \A e \in Exporters :
          /\ WF_vars(TaskRuns(e))
          /\ WF_vars(TaskDropped(e))
          /\ WF_vars(Running /\ Exporter!Subscribe(e) /\ UNCHANGED own)
    /\ \A c \in Connections : WF_vars(ConnectionDropped(c))

-------------------------------------------------------------------------------
(* Properties.                                                             *)

\* Every variable keeps its type, and main()'s bookkeeping its sense.
TypeOK ==
    /\ main \in {"loading", "building", "waiting", "aborting", "exited",
                 "killed"} \cup Returned
    /\ kind \in [Exporters -> Kinds]
    /\ todo \subseteq Exporters
    /\ spawned \subseteq Exporters \ todo
    /\ aborted \subseteq spawned
    /\ Exporter!TypeOK

\* main() never calls shutdown(), so no exporter ever drains: what waits for
\* running requests is not used, and a response that ctrl-c finds unfinished
\* is cut when the runtime is dropped.
CtrlCDoesNotDrain == \A e \in Exporters : serve[e] \notin {"draining", "ok"}

\* An exporter that serves is stopped by the end of main() only: neither by
\* another one that fails to bind, panics or is a placeholder, nor by clients.
StopIsMain(e) ==
    serve[e] \in Exporter!Serving /\ serve'[e] \notin Exporter!Serving
      => main \in {"aborting"} \cup Returned

StoppedByMainOnly == [][\A e \in Exporters : StopIsMain(e)]_vars

\* Every export of the configuration gets to run serve(), however long the
\* others serve, unless main() is ended first.
EveryExporterStarts ==
    \A e \in Exporters :
        main = "building" ~> serve[e] # "new" \/ main \notin {"building", "waiting"}

\* Once ctrl-c is received or startup has failed, the process ends: requests
\* that are being answered do not hold it up, for better or worse.
ProcessEnds ==
    main \in {"aborting"} \cup Returned ~> main \in {"exited", "killed"}

===============================================================================
