\* Three exports of any kind, two of which may compete for one address and
\* one of which has a prefix the router refuses.
SPECIFICATION FairSpec
CONSTANTS
    Exporters = {"web", "web2", "typo"}
    BadPrefix = {"typo"}
    Sockets = {"0.0.0.0:8080"}
    Socket <- MCSocket
    Connections = {c1}
    MaxShutdowns = 1
INVARIANTS
    TypeOK
    CtrlCDoesNotDrain
PROPERTIES
    StoppedByMainOnly
    EveryExporterStarts
    ProcessEnds
\* The process comes to an end.
CHECK_DEADLOCK FALSE
