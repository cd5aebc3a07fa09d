--------------------------- MODULE HttpExportService ---------------------------
(* HttpExport implements FileService: its three upstream calls are the     *)
(* moments at which that service looks at the URL. The index request       *)
(* decides on a listing, HEAD on the announced length, and the last call   *)
(* of a request on everything else.                                        *)
EXTENDS HttpExport

\* Which phase of the service a handler's await belongs to. A failed attempt
\* to list leaves no trace.
PhaseOf(await) ==
    CASE await \in {"list", "head"} -> "pending"
      [] await = "text"             -> "listed"
      [] await = "read"             -> "announced"
      [] OTHER                      -> await

Phase  == [r \in Requests |-> PhaseOf(pc[r])]
Target == [r \in Requests |-> IF ServedByHttp(r) THEN Url(r) ELSE <<>>]
Chosen == [r \in Requests |->
             IF pc[r] = "text" THEN heard[r]["list"].content ELSE Absent]

Service == INSTANCE FileService WITH
    held      <- upstream,
    target    <- Target,
    phase     <- Phase,
    chosen    <- Chosen,
    announced <- headers,
    reply     <- resp,
    got       <- sent

\* Whatever is called upstream and in between, each reply is the one of a
\* service that looks at the URL once, but for the announced length.
ImplementsFileService == Service!Spec
===============================================================================
