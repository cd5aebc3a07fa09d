------------------------------ MODULE Navigation ------------------------------
(***************************************************************************)
(* The pages of the HTTP exporter and the links between them: the routes   *)
(* of build_router, the pages that handle_root and                         *)
(* render_directory_listing write, and the entries that parse_index reads  *)
(* from an upstream index (exports/http_server.rs, sources/http.rs).       *)
(*                                                                         *)
(* A URL path is the sequence of what stands between its slashes: "/" is   *)
(* <<"">>, "/docs" is <<"docs">>, "/docs/" is <<"docs", "">>. A browser    *)
(* follows links from one page to the next; target says what the link it   *)
(* followed was for, so that a page can be compared with it.               *)
(***************************************************************************)
EXTENDS Naturals, Sequences, SequencesExt

CONSTANTS
    Prefix,   \* the exporter's prefix, without the slashes at its end
    Aliases,  \* the aliases sources are mounted under
    Names,    \* names of upstream files and directories
    Rank,     \* Rank[name]: the place of a name in the order of strings
    Lossy,    \* names with a "#", a "?" or a "%41", which hrefs hold encoded
    Cuts,     \* those with a "#" or a "?"
    Sent,     \* Sent[name]: what the upstream takes a lossy name for
    Files,    \* Files[alias]: the upstream's files, as sequences of names
    Index     \* Index[alias][dir]: the index pages of its directories

\* The empty string: between two slashes, and behind a slash at the end.
Blank == ""

\* An index page is a sequence of lines, a line the sequence of its hrefs.
Href == [form : {"relative", "parent", "query", "absolute"},
         name : Names \cup {Blank}, slash : BOOLEAN]

Dirs == [alias \in Aliases |-> DOMAIN Index[alias]]

ASSUME NavigationAssumption ==
    /\ Prefix \in Seq(STRING)
    /\ Blank \notin Names \cup Aliases
    /\ Lossy \subseteq Names
    /\ Cuts \subseteq Lossy
    /\ Sent \in [Lossy -> Names]
    /\ Rank \in [Names -> Nat]
    /\ \A m, n \in Names : Rank[m] = Rank[n] => m = n

\* The children of a directory, as the upstream has them.
Children(alias, dir) ==
    {node \in (Dirs[alias] \cup Files[alias]) \ {<<>>} : Front(node) = dir}

\* A relative href with more than slashes to it is for an entry.
IsEntry(href) == href.form = "relative" /\ href.name # Blank

\* The hrefs of a line that are for entries.
EntriesOn(line) == {href \in ToSet(line) : IsEntry(href)}

\* The lines of an index page whose first href is for an entry.
EntryLines(page) == {i \in DOMAIN page : page[i] # <<>> /\ IsEntry(page[i][1])}

\* The upstream is a tree, and its index pages tell what is in it: they link to
\* each child of the directory and to no other entry, directories with a
\* slash, and a line that begins with a child is the only one that does.
ASSUME UpstreamAssumption ==
    \A alias \in Aliases :
        /\ Dirs[alias] \cup Files[alias] \subseteq Seq(Names)
        /\ <<>> \in Dirs[alias]
        /\ Files[alias] \cap Dirs[alias] = {}
        /\ \A node \in (Dirs[alias] \cup Files[alias]) \ {<<>>} :
              Front(node) \in Dirs[alias]
        /\ \A dir \in Dirs[alias] :
              LET page == Index[alias][dir]
              IN  /\ page \in Seq(Seq(Href))
                  /\ \A i \in DOMAIN page : \A href \in EntriesOn(page[i]) :
                        Append(dir, href.name) \in
                           IF href.slash THEN Dirs[alias] ELSE Files[alias]
                  /\ \A node \in Children(alias, dir) :
                        \E i \in DOMAIN page : \E href \in EntriesOn(page[i]) :
                           Append(dir, href.name) = node
                  /\ \A i, j \in EntryLines(page) :
                        page[i][1].name = page[j][1].name => i = j

\* A page with the links to each entry on a line of their own.
OnePerLine(page) ==
    \A i \in DOMAIN page : \A href \in EntriesOn(page[i]) :
        IsEntry(page[i][1]) /\ page[i][1].name = href.name

VARIABLES
    url,     \* the path the browser is at
    target,  \* what the link or address it followed stands for
    merges   \* whether the upstream takes "//" within a path for "/"

vars == <<url, target, merges>>

-------------------------------------------------------------------------------
(* parse_index and the order of a listing.                                 *)

FileEntry(name, is_directory) == [name |-> name, is_directory |-> is_directory]

\* What is kept of a sequence when its next element is looked at.
Taken(kept, e, dropped) == IF e \in dropped THEN kept ELSE Append(kept, e)

\* A sequence without the elements that are in a set.
Without(s, dropped) ==
    LET upTo[n \in 0..Len(s)] ==
          IF n = 0 THEN <<>> ELSE Taken(upTo[n - 1], s[n], dropped)
    IN  upTo[Len(s)]

\* The first href of every line counts, and is skipped when it is for no entry.
parse_index(page) ==
    LET lines   == Without(page, {<<>>})
        hrefs   == [i \in DOMAIN lines |-> lines[i][1]]
        skipped == {h \in Href : ~IsEntry(h)}
        kept    == Without(hrefs, skipped)
    IN  [i \in DOMAIN kept |-> FileEntry(kept[i].name, kept[i].slash)]

\* Faulty variant: kinds are not told apart.
Precedes_NameOnly(a, b) == Rank[a.name] < Rank[b.name]

\* Directories first, then by name.
Precedes(a, b) ==
    IF a.is_directory # b.is_directory THEN a.is_directory
                                       ELSE Rank[a.name] < Rank[b.name]

\* The order p takes entries in: no entry comes after one it precedes, and
\* equal ones stay as they were.
Sorts(p, entries) ==
    \A i, j \in DOMAIN entries : i < j =>
        \/ Precedes(entries[p[i]], entries[p[j]])
        \/ ~Precedes(entries[p[j]], entries[p[i]]) /\ p[i] < p[j]

\* sort_by is stable.
sorted_entries(entries) ==
    LET places == DOMAIN entries
        order  == CHOOSE p \in Bijection(places, places) : Sorts(p, entries)
    IN  [i \in places |-> entries[order[i]]]

-------------------------------------------------------------------------------
(* The upstream behind HttpSource.                                         *)

\* The decoded path is appended to base_url and read as a URL: a "#" or "?" in
\* it ends the path of the request, what looks like an escape is taken for one.
Requested(path) ==
    LET end == Min({Len(path)} \cup {i \in DOMAIN path : path[i] \in Cuts})
    IN  [i \in 1..end |-> IF path[i] \in Lossy THEN Sent[path[i]] ELSE path[i]]

Node(path) == Without(path, {Blank})

DoubleSlash(path) == \E i \in 1 .. Len(path) - 1 : path[i] = Blank

\* Whether the upstream has something at a path. It redirects "/dir" to
\* "/dir/", and has no file at "/file/".
Has(alias, path) ==
    /\ merges \/ ~DoubleSlash(path)
    /\ \/ Node(path) \in Dirs[alias]
       \/ Node(path) \in Files[alias] /\ Last(path) # Blank

-------------------------------------------------------------------------------
(* Routes and pages.                                                       *)

Missing == [kind |-> "missing"]
Sources == [kind |-> "sources"]
Redirect == [kind |-> "redirect"]
SourcePage(alias, node) == [kind |-> "source", alias |-> alias, node |-> node]

\* nest() puts the route "/" at the prefix itself and nothing at "prefix/".
Routed(u) ==
    /\ IsPrefix(Prefix, u)
    /\ Prefix # <<>> => u # Append(Prefix, Blank)

\* A URL without the prefix.
Route(u) == IF u = Prefix THEN <<Blank>> ELSE SubSeq(u, Len(Prefix) + 1, Len(u))

alias_of(u) == Head(Route(u))

\* The path below the alias. A catch-all that starts with a slash of its own
\* is not given another one.
normalized_path(u) ==
    LET rest == Tail(Route(u))
    IN  IF Len(rest) > 1 /\ Head(rest) = Blank THEN Tail(rest) ELSE rest

\* handle_source_path: an existing file is listed like a directory.
handle_source_path(alias, path) ==
    IF alias \in Aliases /\ Has(alias, Requested(path))
      THEN SourcePage(alias, Node(Requested(path)))
      ELSE Missing

\* What the exporter answers at a URL.
Page(u) ==
    CASE ~Routed(u)                  -> Missing
      [] Routed(u) /\ Route(u) = <<Blank>> -> Sources
      [] Routed(u) /\ Route(u) # <<Blank>> /\ alias_of(u) = Blank -> Missing
      [] Routed(u) /\ Len(Route(u)) = 1 /\ alias_of(u) # Blank -> Redirect
      [] OTHER -> handle_source_path(alias_of(u), normalized_path(u))

-------------------------------------------------------------------------------
(* Links. Relative ones are resolved by the browser against the page.      *)

\* Faulty variant: the slash at the end of a directory's path is not trimmed.
parent_path_Untrimmed(path) ==
    IF Len(path) <= 1 THEN <<Blank>> ELSE Front(path)

\* The end of a path before the slashes it ends with.
TrimmedEnd(path) == Max({0} \cup {i \in DOMAIN path : path[i] # Blank})

parent_path(path) ==
    IF TrimmedEnd(path) <= 1 THEN <<Blank>> ELSE SubSeq(path, 1, TrimmedEnd(path) - 1)

\* Faulty variant: a directory's href gets its slash twice.
entry_href_SlashTwice(alias, path, entry) ==
    (IF path = <<Blank>> THEN <<alias, entry.name>> ELSE <<alias>> \o path \o <<entry.name>>)
    \o (IF entry.is_directory THEN <<Blank, Blank>> ELSE <<>>)

\* A directory's own path ends with a slash, and another one is put before
\* the name of its entry.
entry_href(alias, path, entry) ==
    (IF path = <<Blank>> THEN <<alias, entry.name>> ELSE <<alias>> \o path \o <<entry.name>>)
    \o (IF entry.is_directory THEN <<Blank>> ELSE <<>>)

parent_href(alias, path) == <<alias>> \o parent_path(path)

Up(node) == IF node = <<>> THEN <<>> ELSE Front(node)

Link(to, what) == [to |-> to, target |-> what]

\* handle_root: href="alias/".
RootLinks(u) ==
    {Link(Front(u) \o <<alias, Blank>>, SourcePage(alias, <<>>)) : alias \in Aliases}

\* The entries a listing shows, in order. Files hold no hrefs.
Listed(page) ==
    IF page.node \in Dirs[page.alias]
      THEN sorted_entries(parse_index(Index[page.alias][page.node]))
      ELSE <<>>

\* render_directory_listing: the entries, and the parent below the root.
ListingLinks(page, path) ==
    {Link(entry_href(page.alias, path, entry),
          SourcePage(page.alias, Append(page.node, entry.name))) :
            entry \in ToSet(Listed(page))}
    \cup
    {Link(parent_href(page.alias, path), SourcePage(page.alias, Up(page.node))) :
            p \in {path} \ {<<Blank>>}}

Links(u) ==
    CASE Page(u).kind = "sources" -> RootLinks(u)
      [] Page(u).kind = "source"  -> ListingLinks(Page(u), normalized_path(u))
      [] OTHER                    -> {}

-------------------------------------------------------------------------------
(* The addresses of what the exporter serves, as its users know them.      *)
AddressesOf(alias) ==
    {Link(Prefix \o <<alias, Blank>>, SourcePage(alias, <<>>))}
    \cup
    {Link(Prefix \o <<alias>> \o node, SourcePage(alias, node)) :
        node \in Dirs[alias] \cup Files[alias]}

Addresses ==
    {Link(IF Prefix = <<>> THEN <<Blank>> ELSE Prefix, Sources)}
    \cup UNION {AddressesOf(alias) : alias \in Aliases}

At(l) == url = l.to /\ target = l.target

Init ==
    /\ \E l \in Addresses : At(l)
    /\ merges \in BOOLEAN

\* Faulty variant: the Location is the pattern, with nothing put in.
FollowRedirect_Pattern ==
    /\ Page(url) = Redirect
    /\ url' = Front(url) \o <<"{alias}", Blank>>
    /\ UNCHANGED <<target, merges>>

\* Faulty variant: the redirect's Location has no slash at its end.
FollowRedirect_NoSlash ==
    /\ Page(url) = Redirect
    /\ url' = Append(Front(url), Last(url))
    /\ UNCHANGED <<target, merges>>

\* The browser follows handle_source_root_redirect: Location is "alias/",
\* relative to the URL.
FollowRedirect ==
    /\ Page(url) = Redirect
    /\ url' = Front(url) \o <<Last(url), Blank>>
    /\ UNCHANGED <<target, merges>>

FollowLink ==
    /\ \E l \in Links(url) : url' = l.to /\ target' = l.target
    /\ UNCHANGED merges

Next == FollowRedirect \/ FollowLink

Spec == Init /\ [][Next]_vars

\* A browser follows redirects by itself.
FairSpec == Spec /\ WF_vars(FollowRedirect)

-------------------------------------------------------------------------------
(* Properties.                                                             *)

\* Everywhere browsing leads, the URL is a path, and its target a thing the
\* exporter serves.
TypeOK ==
    /\ ToSet(url) \subseteq ToSet(Prefix) \cup Aliases \cup Names \cup {Blank}
    /\ target \in {Sources} \cup
          UNION {{SourcePage(alias, node) : node \in Dirs[alias] \cup Files[alias]} :
                   alias \in Aliases}
    /\ merges \in BOOLEAN

\* A path as the pages write it: it starts with a name, and two slashes are
\* the most there is between two.
Tidy(path) ==
    /\ path \in Seq(Names \cup {Blank})
    /\ path # <<>>
    /\ path[1] # Blank
    /\ \A i \in 1 .. Len(path) - 1 : path[i] # Blank \/ path[i + 1] # Blank

\* A path below an alias that leads to a node: to the root without a name,
\* and never with a slash behind a file. Of a name that does not survive
\* decoding only the shape is known.
LeadsTo(alias, path, node) ==
    /\ node \in Dirs[alias] \cup Files[alias]
    /\ \/ path \in {<<>>, <<Blank>>} /\ node = <<>>
       \/ /\ Tidy(path)
          /\ node \in Files[alias] => Last(path) # Blank
          /\ ToSet(path) \cap Lossy = {} => node = Node(path)

\* A URL without a prefix stands for something the exporter serves: the
\* root's for the sources, another one for what its alias and path lead to.
StandsFor(u, what) ==
    \/ u = <<Blank>> /\ what = Sources
    \/ \E alias \in Aliases :
          /\ u # <<>> /\ Head(u) = alias
          /\ what = SourcePage(alias, what.node)
          /\ LeadsTo(alias, Tail(u), what.node)

\* What browsing keeps without a prefix: the URL stands for the target, by the
\* shape of its path alone. LinksLead and UrlsStayShort follow from it.
BrowsingInv == merges \in BOOLEAN /\ StandsFor(url, target)

\* Every link on every page leads to what it stands for, however long one
\* browses up and down: the next listing is of the very directory or file.
\* There are two exceptions: an upstream that tells "//" from "/", and names
\* that do not survive decoding.
LinksLead ==
    \/ Page(url) \in {target, Redirect}
    \/ ~merges /\ DoubleSlash(url)
    \/ ToSet(url) \cap Lossy # {}

\* Browsing up and down does not pile up slashes: a page's URL has at most
\* one more segment for each directory above it. Only below a name that does
\* not survive decoding can a wrong page link ever deeper.
UrlsStayShort ==
    target.kind = "source" /\ ToSet(url) \cap Lossy = {} =>
        Len(url) <= 2 * Len(target.node) + 2

\* The order of a listing, with no name in it twice.
InOrder(listed) ==
    \A i, j \in DOMAIN listed : i < j =>
        \/ listed[i].is_directory /\ ~listed[j].is_directory
        \/ /\ listed[i].is_directory = listed[j].is_directory
           /\ Rank[listed[i].name] < Rank[listed[j].name]

\* A directory's listing names children of it only, none twice, the directories
\* before the files and each kind in order, and it names all of them if the
\* index page gives each a line of its own.
ListingInOrder ==
    Page(url).kind = "source" /\ Page(url).node \in Dirs[Page(url).alias] =>
        LET page     == Page(url)
            listed   == Listed(page)
            nodes    == {Append(page.node, e.name) : e \in ToSet(listed)}
            children == Children(page.alias, page.node)
        IN  /\ InOrder(listed)
            /\ nodes \subseteq children
            /\ OnePerLine(Index[page.alias][page.node]) => nodes = children

\* An alias without its slash always gets the browser to the source's root:
\* without a prefix, redirects do not loop or lead astray.
RedirectsEnd ==
    Page(url) = Redirect ~> Page(url) = target /\ target.kind = "source"

\* Whatever the prefix, nest() and the Location of a redirect agree: it leads,
\* in one step and below the prefix, to the root of the source that the alias
\* is for, and for an alias there is none for to a 404.
RedirectsStay ==
    [][FollowRedirect =>
          /\ IsPrefix(Prefix, url')
          /\ Page(url)' = IF alias_of(url) \in Aliases
                            THEN SourcePage(alias_of(url), <<>>)
                            ELSE Missing]_vars

-------------------------------------------------------------------------------
\* http_server.rs:28 calls prefix the "URL prefix for all routes": no link
\* of a page would leave it.
LinksStayBelowPrefix == IsPrefix(Prefix, url)

===============================================================================
