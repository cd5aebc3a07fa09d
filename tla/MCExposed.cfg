\* Two sources that may be configured or not, with an alias that is also the
\* name of one; two exports of every type.
SPECIFICATION Spec
CONSTANTS
    SourceNames = {"docs", "media"}
    ExportNames = {"web", "lan"}
    Aliases = {"docs"}
    None = None
    MaxMappings = 2
INVARIANTS
    SourcesExposed
\* main() returns, or waits for ctrl-c.
CHECK_DEADLOCK FALSE
