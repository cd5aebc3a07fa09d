\* An exporter of which serve() is called twice, side by side or one call after
\* the other, and one that panics; two connections, and owners that call
\* serve(), cancel it, shut down and drop in any order.
SPECIFICATION FairSpec
CONSTANTS
    Exporters = {"web", "typo"}
    Calls = {"web.1", "web.2", "typo.1"}
    Of <- MCOf
    BadPrefix = {"typo"}
    Sockets = {"0.0.0.0:8080"}
    Socket <- MCSocket
    Connections = {c1, c2}
    MaxShutdowns = 2
INVARIANTS
    TypeOK
    OkMeansDrained
    SignalReaches
    LifecycleInv
PROPERTIES
    ShutdownStopsAccepting
    ShutdownCompletes
    OrphansClose
\* Owners, clients and exporters all come to an end.
CHECK_DEADLOCK FALSE
