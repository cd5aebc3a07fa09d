\* One exporter and one connection: what shutdown() returning Ok(()) means.
SPECIFICATION Spec
CONSTANTS
    Exporters = {"web"}
    Calls = {"web.1"}
    Of <- MCOf
    BadPrefix = {}
    Sockets = {"0.0.0.0:8080"}
    Socket <- MCSocket
    Connections = {c1}
    MaxShutdowns = 1
PROPERTIES
    ShutdownReturnsStopped
CHECK_DEADLOCK FALSE
