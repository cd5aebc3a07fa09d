------------------------ MODULE ExporterLifecycleProofs ------------------------
(* Proofs about ExporterLifecycle, for any number of exporters, of calls   *)
(* of serve(), of sockets and of connections.                              *)
EXTENDS ExporterLifecycle, TLAPS

\* A connection that neither changes hands nor is taken from the queue is not
\* open after a step unless it was before.
LEMMA OpenShrinks ==
    ASSUME NEW k \in Calls, UNCHANGED dialled,
           \A c \in Connections : link'[c] \in {"idle", "busy"} =>
                                    link[c] \in {"idle", "busy"}
    PROVE  Open(k)' \subseteq Open(k)
BY DEF Open

\* Closing listeners opens nothing.
LEMMA ResetOpensNothing ==
    ASSUME NEW calls, ResetQueues(calls)
    PROVE  \A c \in Connections : link'[c] \in {"idle", "busy"} =>
                                    link[c] \in {"idle", "busy"}
BY DEF ResetQueues

\* Closing listeners leaves connections that are connections.
LEMMA ResetKeepsTypes ==
    ASSUME NEW calls, ResetQueues(calls), TypeOK
    PROVE  link' \in [Connections ->
                        {"unused", "queued", "idle", "busy", "closed", "reset"}]
BY DEF ResetQueues, TypeOK

\* Types, and what the channels between the tasks carry: the signal fires
\* only for a shutdown or a drop, an exporter is not dropped while it serves,
\* and connections are open only from the first accept of their call, with its
\* signal task still there when the call is gone.
THEOREM LifecycleInvariant == Spec => []LifecycleInv
<1>1. Init => LifecycleInv
  BY LifecycleAssumption
     DEF Init, LifecycleInv, TypeOK, Outcomes, Stopped, Serving, Listening, Open
<1>2. LifecycleInv /\ [Next]_vars => LifecycleInv'
  <2> SUFFICES ASSUME LifecycleInv, [Next]_vars PROVE LifecycleInv'
    OBVIOUS
  <2> USE LifecycleAssumption DEF LifecycleInv
  <2>1. ASSUME NEW j \in Calls, ServeStarts(j) PROVE LifecycleInv'
    <3>1. TypeOK'
      BY <2>1 DEF ServeStarts, ServeBecomes, TypeOK, Outcomes, Stopped, Serving,
                  Listening
    <3>2. QED
      BY <2>1, <3>1 DEF ServeStarts, ServeBecomes, TypeOK, Stopped, Serving,
                        Listening, Open, Ending
  <2>2. ASSUME NEW j \in Calls, Subscribe(j) PROVE LifecycleInv'
    BY <2>2 DEF Subscribe, ServeBecomes, TypeOK, Outcomes, Stopped, Serving,
                Listening, Open, Ending
  <2>3. ASSUME NEW j \in Calls, SignalFires(j) PROVE LifecycleInv'
    BY <2>3 DEF SignalFires, TypeOK, Open, Ending
  <2>4. ASSUME NEW j \in Calls, NEW d \in Connections, AcceptConnection(j, d)
        PROVE  LifecycleInv'
    <3>1. TypeOK'
      BY <2>4 DEF AcceptConnection, TypeOK
    <3>2. \A k \in Calls : k # j => Open(k)' = Open(k)
      BY <2>4 DEF AcceptConnection, TypeOK, Open
    <3>3. QED
      BY <2>4, <3>1, <3>2 DEF AcceptConnection, Ending
  <2>5. ASSUME NEW j \in Calls, StopAccepting(j) PROVE LifecycleInv'
    <3>1. TypeOK'
      BY <2>5, ResetKeepsTypes
         DEF StopAccepting, ServeBecomes, TypeOK, Outcomes, Serving, Listening
    <3>2. \A k \in Calls : Open(k)' \subseteq Open(k)
      BY <2>5, OpenShrinks, ResetOpensNothing DEF StopAccepting
    <3>3. version[Of[j]] > 0
      BY <2>5 DEF StopAccepting, Serving, Listening, Ending
    <3>4. QED
      BY <2>5, <3>1, <3>2, <3>3
         DEF StopAccepting, ServeBecomes, TypeOK, Serving, Listening, Ending
  <2>6. ASSUME NEW j \in Calls, Drained(j) PROVE LifecycleInv'
    BY <2>6 DEF Drained, ServeBecomes, TypeOK, Outcomes, Stopped, Serving,
                Listening, Open, Ending
  <2>7. ASSUME NEW j \in Calls, Cancel(j) PROVE LifecycleInv'
    <3>1. TypeOK'
      BY <2>7, ResetKeepsTypes
         DEF Cancel, ServeBecomes, TypeOK, Outcomes, Stopped
    <3>2. \A k \in Calls : Open(k)' \subseteq Open(k)
      BY <2>7, OpenShrinks, ResetOpensNothing DEF Cancel
    <3>3. QED
      BY <2>7, <3>1, <3>2
         DEF Cancel, ServeBecomes, TypeOK, Serving, Listening, Ending
  <2>8. ASSUME NEW e \in Exporters, Shutdown(e) PROVE LifecycleInv'
    BY <2>8 DEF Shutdown, TypeOK, Open, Ending
  <2>9. ASSUME NEW e \in Exporters, Drop(e) PROVE LifecycleInv'
    <3>1. TypeOK'
      <4>1. \A k \in Calls : serve'[k] \in Outcomes(k)
        BY <2>9 DEF Drop, TypeOK, Outcomes, Stopped
      <4>2. QED
        BY <2>9, <4>1, ResetKeepsTypes DEF Drop, TypeOK, Stopped
    <3>2. \A k \in Calls : Open(k)' \subseteq Open(k)
      BY <2>9, OpenShrinks, ResetOpensNothing DEF Drop
    <3>3. \A k \in Calls : serve'[k] \in Serving => Of[k] # e
      BY <2>9 DEF Drop, TypeOK, CallsOf, Serving, Listening
    <3>4. QED
      BY <2>9, <3>1, <3>2, <3>3
         DEF Drop, TypeOK, CallsOf, Serving, Listening, Ending
  <2>10. ASSUME NEW d \in Connections, ConnectionStep(d) PROVE LifecycleInv'
    <3>1. TypeOK'
      BY <2>10 DEF ConnectionStep, Dial, RequestStarts, RequestEnds, ClientCloses,
                   ToldToClose, LinkBecomes, TypeOK
    <3>2. \A k \in Calls : Open(k)' \subseteq Open(k)
      BY <2>10, OpenShrinks
         DEF ConnectionStep, Dial, RequestStarts, RequestEnds, ClientCloses,
             ToldToClose, LinkBecomes, TypeOK
    <3>3. UNCHANGED <<serve, alive, version, rxSeen, signal>>
      BY <2>10 DEF ConnectionStep, Dial, RequestStarts, RequestEnds,
                   ClientCloses, ToldToClose, LinkBecomes
    <3>4. QED
      BY <3>1, <3>2, <3>3 DEF Ending
  <2>11. CASE UNCHANGED vars
    BY <2>11 DEF vars, TypeOK, Open, Ending
  <2>12. QED
    BY <2>1, <2>2, <2>3, <2>4, <2>5, <2>6, <2>7, <2>8, <2>9, <2>10, <2>11
       DEF Next, CallStep
<1>3. QED
  BY <1>1, <1>2, PTL DEF Spec

\* Every variable keeps its type, and serve() panics only for a bad prefix.
THEOREM TypeCorrect == Spec => []TypeOK
<1>1. LifecycleInv => TypeOK
  BY DEF LifecycleInv
<1>2. QED
  BY <1>1, LifecycleInvariant, PTL

\* However the calls of serve(), their cancellations, shutdown() and the drop
\* of the exporter are ordered, no signal task is left waiting for what was
\* sent before it began to.
THEOREM SignalsReach == Spec => []SignalReaches
<1>1. LifecycleInv => SignalReaches
  <2> SUFFICES ASSUME LifecycleInv, NEW k \in Calls, Ending(k),
                      serve[k] \in {"accepting", "draining"} \/ Open(k) # {},
                      signal[k] # "fired"
               PROVE  /\ signal[k] = "waiting"
                      /\ version[Of[k]] > rxSeen[k] \/ ~alive[Of[k]]
    BY DEF SignalReaches
  <2>1. signal[k] \in {"none", "waiting", "fired"} /\ signal[k] # "none"
    BY DEF LifecycleInv, TypeOK
  <2>2. rxSeen[k] = 0
    BY DEF LifecycleInv
  <2>3. QED
    BY <2>1, <2>2 DEF Ending
<1>2. QED
  BY <1>1, LifecycleInvariant, PTL

\* serve() returns Ok only after a shutdown() and with no connection of its
\* own left.
THEOREM OkAfterDrain == Spec => []OkMeansDrained
<1>1. LifecycleInv => OkMeansDrained
  BY DEF LifecycleInv, OkMeansDrained
<1>2. QED
  BY <1>1, LifecycleInvariant, PTL

===============================================================================
