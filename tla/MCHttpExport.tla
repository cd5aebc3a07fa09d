----------------------------- MODULE MCHttpExport -----------------------------
(* Instances of HttpExport for TLC: one HTTP source with one URL, one      *)
(* placeholder source, and an alias that no source is mounted on.          *)
EXTENDS HttpExportService, TLC

CONSTANTS f1, f2, d1, forbidden, unavailable, absent, none

MCFiles  == {f1, f2}
MCDirs   == {d1}

MCErrorPages == {forbidden, unavailable}

\* The files differ in length, and so do the error pages: a length announced
\* for one content may be too long or too short for another.
MCLength == (f1 :> 1) @@ (f2 :> 2) @@ (d1 :> 1)
            @@ (forbidden :> 1) @@ (unavailable :> 2)

\* "files" is given twice: the placeholder is replaced by the HTTP source.
MCAliasedSources ==
    << [alias |-> "files", source |-> "bucket"],
       [alias |-> "s3",    source |-> "bucket"],
       [alias |-> "files", source |-> "mirror"] >>
===============================================================================
