----------------------------- MODULE StartupProofs -----------------------------
(* Proofs about Startup, for any configuration and any connections: what   *)
(* follows from main()'s never calling shutdown(), and what the program's  *)
(* exporters have from ExporterLifecycle, whose steps they take.           *)
EXTENDS Startup, TLAPS

USE DEF Exporter!Stopped, Exporter!Serving, Exporter!Listening

\* A step of main() itself leaves its exporters' tasks alone.
LEMMA MainLeavesTasks ==
    ASSUME MainStep \/ Interrupt
    PROVE  UNCHANGED lifecycle
BY DEF MainStep, Interrupt, MainBecomes, LoadConfig, BuildExporter, AwaitCtrlC,
       AbortTask, MainReturns, ProcessExits

\* What keeps exporters from draining: nothing was sent on their channels, so
\* the signal fires for those only that were dropped.
SignalInv ==
    /\ version = [e \in Exporters |-> 0]
    /\ rxSeen = [e \in Exporters |-> 0]
    /\ serve \in [Exporters -> Exporter!Stopped \cup Exporter!Serving]
    /\ signal \in [Exporters -> {"none", "waiting", "fired"}]
    /\ alive \in [Exporters -> BOOLEAN]
    /\ \A e \in Exporters :
          /\ serve[e] \in Exporter!Serving => alive[e]
          /\ signal[e] = "fired" => ~alive[e]
          /\ serve[e] \notin {"draining", "ok"}

LEMMA SignalInvInductive == Spec => []SignalInv
<1>1. Init => SignalInv
  BY DEF Init, Exporter!Init, SignalInv
<1>2. SignalInv /\ [Next]_vars => SignalInv'
  <2> SUFFICES ASSUME SignalInv, [Next]_vars PROVE SignalInv'
    OBVIOUS
  <2> USE DEF SignalInv
  <2>1. CASE UNCHANGED lifecycle
    BY <2>1 DEF lifecycle
  <2>2. ASSUME NEW f \in Exporters, TaskRuns(f) PROVE SignalInv'
    BY <2>2 DEF TaskRuns, Exporter!ServeStarts, Exporter!ServeBecomes
  <2>3. ASSUME NEW f \in Exporters, TaskDropped(f) PROVE SignalInv'
    BY <2>3 DEF TaskDropped, Exporter!Drop, Exporter!CallsOf
  <2>4. ASSUME NEW f \in Exporters, Exporter!Subscribe(f) PROVE SignalInv'
    BY <2>4 DEF Exporter!Subscribe, Exporter!ServeBecomes
  <2>5. ASSUME NEW f \in Exporters, Exporter!SignalFires(f) PROVE SignalInv'
    BY <2>5 DEF Exporter!SignalFires
  <2>6. ASSUME NEW f \in Exporters,
               Exporter!StopAccepting(f) \/ Exporter!Drained(f)
        PROVE  FALSE
    BY <2>6 DEF Exporter!StopAccepting, Exporter!Drained
  <2>7. ASSUME NEW f \in Exporters, NEW c \in Connections,
               Exporter!AcceptConnection(f, c)
        PROVE  SignalInv'
    BY <2>7 DEF Exporter!AcceptConnection
  <2>8. ASSUME NEW c \in Connections,
               Exporter!ConnectionStep(c) \/ Exporter!ClientCloses(c)
        PROVE  SignalInv'
    BY <2>8 DEF Exporter!ConnectionStep, Exporter!Dial, Exporter!RequestStarts,
                Exporter!RequestEnds, Exporter!ClientCloses,
                Exporter!ToldToClose, Exporter!LinkBecomes
  <2>9. QED
    BY <2>1, <2>2, <2>3, <2>4, <2>5, <2>6, <2>7, <2>8, MainLeavesTasks
       DEF Next, RuntimeStep, Background, ConnectionDropped, vars
<1>3. QED
  BY <1>1, <1>2, PTL DEF Spec

\* No exporter of the program ever drains.
THEOREM CtrlCNeverDrains == Spec => []CtrlCDoesNotDrain
<1>1. SignalInv => CtrlCDoesNotDrain
  BY DEF SignalInv, CtrlCDoesNotDrain
<1>2. QED
  BY <1>1, SignalInvInductive, PTL

\* A task is aborted only after ctrl-c.
AbortInv == aborted # {} => main \in {"aborting", "ok", "exited"}

LEMMA AbortInvInductive == Spec => []AbortInv
<1>1. Init => AbortInv
  BY DEF Init, AbortInv
<1>2. AbortInv /\ [Next]_vars => AbortInv'
  <2> SUFFICES ASSUME AbortInv, [Next]_vars PROVE AbortInv'
    OBVIOUS
  <2>1. ASSUME MainStep \/ Interrupt PROVE AbortInv'
    BY <2>1 DEF MainStep, Interrupt, MainBecomes, LoadConfig, BuildExporter,
                AwaitCtrlC, AbortTask, MainReturns, ProcessExits, Returned,
                AbortInv
  <2>2. ASSUME RuntimeStep \/ Background PROVE UNCHANGED own
    BY <2>2 DEF RuntimeStep, Background, TaskRuns, TaskDropped,
                ConnectionDropped
  <2>3. QED
    BY <2>1, <2>2 DEF Next, vars, own, AbortInv
<1>3. QED
  BY <1>1, <1>2, PTL DEF Spec

\* An exporter that serves is stopped by the end of main() only: a task whose
\* serve() has not ended is dropped only if main() cancelled it, and nothing
\* else changes what serves into what does not.
THEOREM FailuresAreIsolated == Spec => StoppedByMainOnly
<1>1. SignalInv /\ AbortInv /\ [Next]_vars =>
        [\A e \in Exporters : StopIsMain(e)]_vars
  <2> SUFFICES ASSUME SignalInv, AbortInv, Next, NEW e \in Exporters
               PROVE  StopIsMain(e)
    OBVIOUS
  <2> USE DEF StopIsMain, SignalInv
  <2>1. CASE UNCHANGED lifecycle
    BY <2>1 DEF lifecycle
  <2>2. ASSUME NEW f \in Exporters, TaskRuns(f) PROVE StopIsMain(e)
    BY <2>2 DEF TaskRuns, Exporter!ServeStarts, Exporter!ServeBecomes
  <2>3. ASSUME NEW f \in Exporters, TaskDropped(f) PROVE StopIsMain(e)
    <3>1. CASE Ended(f)
      BY <2>3, <3>1
         DEF TaskDropped, Ended, Exporter!Drop, Exporter!CallsOf
    <3>2. CASE Cancelled(f)
      BY <2>3, <3>2
         DEF TaskDropped, Cancelled, Running, AbortInv, Returned
    <3>3. QED
      BY <2>3, <3>1, <3>2 DEF TaskDropped
  <2>4. ASSUME NEW f \in Exporters, Exporter!Subscribe(f) PROVE StopIsMain(e)
    BY <2>4 DEF Exporter!Subscribe, Exporter!ServeBecomes
  <2>5. ASSUME NEW f \in Exporters,
               Exporter!StopAccepting(f) \/ Exporter!Drained(f)
        PROVE  FALSE
    BY <2>5 DEF Exporter!StopAccepting, Exporter!Drained
  <2>6. ASSUME NEW f \in Exporters,
               \/ Exporter!SignalFires(f)
               \/ \E c \in Connections : Exporter!AcceptConnection(f, c)
        PROVE  StopIsMain(e)
    BY <2>6 DEF Exporter!SignalFires, Exporter!AcceptConnection
  <2>7. ASSUME NEW c \in Connections,
               Exporter!ConnectionStep(c) \/ Exporter!ClientCloses(c)
        PROVE  StopIsMain(e)
    BY <2>7 DEF Exporter!ConnectionStep, Exporter!Dial, Exporter!RequestStarts,
                Exporter!RequestEnds, Exporter!ClientCloses,
                Exporter!ToldToClose, Exporter!LinkBecomes
  <2>8. QED
    BY <2>1, <2>2, <2>3, <2>4, <2>5, <2>6, <2>7, MainLeavesTasks
       DEF Next, RuntimeStep, Background, ConnectionDropped
<1>2. QED
  BY <1>1, SignalInvInductive, AbortInvInductive, PTL
     DEF Spec, StoppedByMainOnly

-------------------------------------------------------------------------------
\* Every variable keeps its type; what was built is not built again, and only
\* what was spawned is aborted.
THEOREM TypeCorrect == Spec => []TypeOK
<1>1. Init => TypeOK
  BY StartupAssumption
     DEF Init, Exporter!Init, TypeOK, Exporter!TypeOK, Exporter!Outcomes
<1>2. TypeOK /\ [Next]_vars => TypeOK'
  <2> SUFFICES ASSUME TypeOK, [Next]_vars PROVE TypeOK'
    OBVIOUS
  <2> USE DEF TypeOK
  <2>1. ASSUME MainStep \/ Interrupt PROVE TypeOK'
    <3>1. Exporter!TypeOK'
      BY <2>1, MainLeavesTasks DEF lifecycle, Exporter!TypeOK
    <3>2. QED
      BY <2>1, <3>1 DEF MainStep, Interrupt, MainBecomes, LoadConfig, BuildExporter,
                        AwaitCtrlC, AbortTask, MainReturns, ProcessExits, Returned
  <2>2. ASSUME RuntimeStep \/ Background PROVE TypeOK'
    <3>1. UNCHANGED own
      BY <2>2 DEF RuntimeStep, Background, TaskRuns, TaskDropped, ConnectionDropped
    <3>2. ASSUME NEW f \in Exporters,
                 \/ TaskRuns(f)
                 \/ TaskDropped(f)
                 \/ Exporter!Subscribe(f)
                 \/ Exporter!SignalFires(f)
                 \/ Exporter!StopAccepting(f)
                 \/ Exporter!Drained(f)
                 \/ \E c \in Connections : Exporter!AcceptConnection(f, c)
          PROVE  Exporter!TypeOK'
      <4> USE StartupAssumption DEF Exporter!TypeOK, Exporter!Outcomes,
                                   Exporter!ServeBecomes
      <4>1. CASE TaskRuns(f)
        BY <4>1 DEF TaskRuns, Exporter!ServeStarts
      <4>2. CASE TaskDropped(f)
        BY <4>2 DEF TaskDropped, Exporter!Drop, Exporter!CallsOf,
               Exporter!ResetQueues
      <4>3. CASE Exporter!Subscribe(f)
        BY <4>3 DEF Exporter!Subscribe
      <4>4. CASE Exporter!SignalFires(f)
        BY <4>4 DEF Exporter!SignalFires
      <4>5. CASE Exporter!StopAccepting(f)
        BY <4>5 DEF Exporter!StopAccepting, Exporter!ResetQueues
      <4>6. CASE Exporter!Drained(f)
        BY <4>6 DEF Exporter!Drained
      <4>7. CASE \E c \in Connections : Exporter!AcceptConnection(f, c)
        BY <4>7 DEF Exporter!AcceptConnection
      <4>8. QED
        BY <3>2, <4>1, <4>2, <4>3, <4>4, <4>5, <4>6, <4>7
    <3>3. ASSUME NEW c \in Connections,
                 Exporter!ConnectionStep(c) \/ Exporter!ClientCloses(c)
          PROVE  Exporter!TypeOK'
      BY <3>3
         DEF Exporter!ConnectionStep, Exporter!Dial, Exporter!RequestStarts,
             Exporter!RequestEnds, Exporter!ClientCloses, Exporter!ToldToClose,
             Exporter!LinkBecomes, Exporter!TypeOK
    <3>4. Exporter!TypeOK'
      BY <2>2, <3>2, <3>3 DEF RuntimeStep, Background, ConnectionDropped
    <3>5. QED
      BY <3>1, <3>4 DEF own
  <2>3. CASE UNCHANGED vars
    BY <2>3 DEF vars, own, lifecycle, Exporter!TypeOK
  <2>4. QED
    BY <2>1, <2>2, <2>3 DEF Next
<1>3. QED
  BY <1>1, <1>2, PTL DEF Spec

-------------------------------------------------------------------------------
(* What is proved of ExporterLifecycle for any owner holds of the program. *)

\* The steps of the process that are not main()'s own are the exporters': this
\* is how Startup is written.
LEMMA OthersAreExporterSteps ==
    ASSUME RuntimeStep \/ Background
    PROVE  Exporter!Next
BY DEF RuntimeStep, Background, TaskRuns, TaskDropped, ConnectionDropped,
       Exporter!Next, Exporter!CallStep, Exporter!ConnectionStep

LEMMA ProgramTakesExporterSteps == Spec => Exporter!Spec
<1>1. Init => Exporter!Init
  BY DEF Init
<1>2. [Next]_vars => [Exporter!Next]_(Exporter!vars)
  BY MainLeavesTasks, OthersAreExporterSteps
     DEF Next, vars, lifecycle, Exporter!vars
<1>3. QED
  BY <1>1, <1>2, PTL DEF Spec, Exporter!Spec

Life == INSTANCE ExporterLifecycleProofs
          WITH Calls <- Exporters, Of <- [e \in Exporters |-> e]

\* In the program too no drop of a task is missed by its exporter's signal
\* task: it is a case of what is proved of every owner.
THEOREM ProgramSignalsReach == Spec => []Exporter!SignalReaches
<1>1. Life!LifecycleAssumption
  BY StartupAssumption DEF Life!LifecycleAssumption
<1>2. Life!Spec => []Life!SignalReaches
  BY <1>1, Life!SignalsReach
<1>3. Exporter!Init <=> Life!Init
  BY DEF Exporter!Init, Life!Init
<1>4. [Exporter!Next]_(Exporter!vars) <=> [Life!Next]_(Life!vars)
  BY Zenon
     DEF Life!Next, Exporter!Next, Life!CallStep, Exporter!CallStep,
         Life!ConnectionStep, Exporter!ConnectionStep, Life!ServeStarts,
         Exporter!ServeStarts, Life!ServeBecomes, Exporter!ServeBecomes,
         Life!AddressFree, Exporter!AddressFree, Life!Subscribe,
         Exporter!Subscribe, Life!SignalFires, Exporter!SignalFires,
         Life!AcceptConnection, Exporter!AcceptConnection,
         Life!StopAccepting, Exporter!StopAccepting, Life!ResetQueues,
         Exporter!ResetQueues, Life!Drained, Exporter!Drained, Life!Cancel,
         Exporter!Cancel, Life!Open, Exporter!Open, Life!Dial,
         Exporter!Dial, Life!RequestStarts, Exporter!RequestStarts,
         Life!RequestEnds, Exporter!RequestEnds, Life!ClientCloses,
         Exporter!ClientCloses, Life!ToldToClose, Exporter!ToldToClose,
         Life!LinkBecomes, Exporter!LinkBecomes, Life!Shutdown,
         Exporter!Shutdown, Life!Drop, Exporter!Drop, Life!CallsOf,
         Exporter!CallsOf, Life!vars, Exporter!vars, Life!Listening,
         Exporter!Listening
<1>5. Exporter!SignalReaches <=> Life!SignalReaches
  BY Zenon
     DEF Life!SignalReaches, Exporter!SignalReaches, Life!Open, Exporter!Open,
         Life!Ending, Exporter!Ending
<1>6. QED
  BY <1>2, <1>3, <1>4, <1>5, ProgramTakesExporterSteps, PTL
     DEF Exporter!Spec, Life!Spec

===============================================================================
