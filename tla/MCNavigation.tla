----------------------------- MODULE MCNavigation -----------------------------
(* Instances of Navigation for TLC: a source nested three deep with the    *)
(* index pages real servers write, mounted under two aliases, and a flat   *)
(* one whose index has all its links on one line.                          *)
EXTENDS Navigation

\* "a#1" is cut to "a" and "%62" is taken for "b", which are beside them. A lossy
\* name sent as a directory that holds it would give infinitely many URLs.
MCNames == {"a", "b", "c", "a#1", "%62"}
MCRank  == [n \in MCNames |-> CASE n = "%62" -> 0 [] n = "a" -> 1 [] n = "a#1" -> 2
                                [] n = "b" -> 3 [] n = "c" -> 4]
MCSent  == [n \in {"a#1", "%62"} |-> IF n = "a#1" THEN "a" ELSE "b"]

Relative(name, slash) == [form |-> "relative", name |-> name, slash |-> slash]
Other(form, slash)    == [form |-> form, name |-> "", slash |-> slash]

\* The head of an index: lines without links, links for sorting, an absolute
\* link, the parent and the page itself.
Top == << <<>>, <<Other("query", FALSE), Other("query", FALSE)>>,
          <<Other("absolute", TRUE)>>, <<Other("parent", TRUE)>>,
          <<Relative("", TRUE)>> >>

\* An icon and a name link to the same file on one line.
Twice(name) == <<Relative(name, FALSE), Relative(name, FALSE)>>
Dir(name)   == <<Relative(name, TRUE)>>

Tree ==
    [dir \in {<<>>, <<"b">>, <<"c">>, <<"c", "b">>, <<"c", "b", "c">>} |->
        CASE dir = <<>>              -> Top \o << Twice("a"), Dir("c"), Dir("b") >>
          [] dir = <<"b">>           -> <<>>
          [] dir = <<"c">>           -> << Twice("a"), Dir("b"), <<>> >>
          [] dir = <<"c", "b">>      -> Top \o << Twice("a#1"), Twice("a"), Dir("c") >>
          [] dir = <<"c", "b", "c">> -> Top \o << Twice("b"), Twice("%62"), Twice("a") >>]

TreeFiles == {<<"a">>, <<"c", "a">>, <<"c", "b", "a">>, <<"c", "b", "a#1">>,
              <<"c", "b", "c", "b">>, <<"c", "b", "c", "%62">>, <<"c", "b", "c", "a">>}

OnALine == << <<Relative("c", FALSE), Relative("b", FALSE)>> >>

MCIndex == [alias \in {"main", "copy", "flat"} |->
              IF alias = "flat" THEN [dir \in {<<>>} |-> OnALine] ELSE Tree]

MCFiles == [alias \in {"main", "copy", "flat"} |->
              IF alias = "flat" THEN {<<"b">>, <<"c">>} ELSE TreeFiles]

NoPrefix == <<>>
APrefix  == <<"public">>
===============================================================================
