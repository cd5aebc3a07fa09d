------------------------------ MODULE HttpSource ------------------------------
(***************************************************************************)
(* The HTTP index source: crates/fourtou-adapters/src/sources/http.rs.     *)
(* Every call of the SourceReader port is one request to the upstream      *)
(* server for base_url + path. What the upstream may answer is external;   *)
(* what each call makes of an answer is the source's own code, given here  *)
(* as the error each call returns ("Ok" when it returns none).             *)
(*                                                                         *)
(* A body is abstracted to the version of the content it carries and the   *)
(* number of its bytes; its text and its content type are left out.        *)
(***************************************************************************)
EXTENDS Naturals

CONSTANTS
    Files,      \* contents a URL can hold as a plain file, one per version
    Dirs,       \* contents a URL can hold as a directory index page
    ErrorPages, \* the bodies of answers that are neither a success nor a 404
    Absent,     \* what a URL holds when the upstream has nothing there
    Length,     \* Length[c]: the number of bytes of content c
    None        \* Option::None of a metadata size

Content == Files \cup Dirs \cup ErrorPages

\* What a URL of the upstream holds at one moment.
Node == Files \cup Dirs \cup {Absent}

ASSUME ContentAssumption ==
    /\ Files \cap Dirs = {}
    /\ ErrorPages \cap (Files \cup Dirs) = {}
    /\ Absent \notin Content
    /\ Length \in [Content -> Nat]
    /\ None \notin Nat

-------------------------------------------------------------------------------
(* The upstream's answers, after redirects. "failed" stands for every way  *)
(* send() can fail: no connection, a reset, the client's total timeout.    *)

Answer == [status : {"success", "not_found", "other", "failed"},
           content : Content \cup {Absent}]

Failed   == [status |-> "failed",    content |-> Absent]
Missing  == [status |-> "not_found", content |-> Absent]
Found(c) == [status |-> "success",   content |-> c]
Refusals == [status : {"other"}, content : ErrorPages]

\* Any request may fail or be refused (403, 405, 5xx), with the same page each
\* time or with another; otherwise the answer tells what the URL holds at the
\* moment the upstream reads it.
Answers(node) ==
    {Failed, IF node = Absent THEN Missing ELSE Found(node)} \cup Refusals

\* A server may leave Content-Length out, or send one that does not parse.
AnnouncedLengths(a) == {None} \cup {Length[c] : c \in {a.content} \cap Content}

-------------------------------------------------------------------------------
(* The three calls.                                                        *)

\* Faulty variant: fetch_index without its is_success check.
ListError_StatusIgnored(a) ==
    IF a.status = "not_found" THEN "FileNotFound"
    ELSE IF a.status = "failed" THEN "ConnectionFailed" ELSE "Ok"

\* fetch_index checks for 404 first, then for any other failure status.
ListError(a) ==
    CASE a.status = "not_found"          -> "FileNotFound"
      [] a.status \in {"failed", "other"} -> "ConnectionFailed"
      [] OTHER                            -> "Ok"

\* The body of a good index answer is read by a second await, text().
TextError == "Unexpected"

\* Faulty variant: a 404 is reported like any other failure.
MetadataError_No404(a) ==
    IF a.status \in {"not_found", "failed"} THEN "ConnectionFailed" ELSE "Ok"

\* get_metadata and read_file look at no status but 404.
MetadataError(a) ==
    CASE a.status = "not_found" -> "FileNotFound"
      [] a.status = "failed"    -> "ConnectionFailed"
      [] OTHER                  -> "Ok"

ReadError(a) == MetadataError(a)

===============================================================================
