# Fourtou in TLA+

A verification project for [fourtou](../src), a Rust service that reads files
from sources (HTTP index pages; S3, Google Drive, pCloud and NFS are
placeholders) and serves them through exporters (HTTP; Samba and NFS are
placeholders). The code is the reference: every definition that models code is
listed in `PROJECT.json` under `map` with the lines it stands for.

## Inventory

| Component (crate) | State | Operations | Hard because | Correct when |
|---|---|---|---|---|
| HTTP index source (`fourtou-adapters/sources/http.rs`) | a client with a total timeout; nothing else | `list_files`, `get_metadata`, `read_file`: one upstream request each | the upstream fails, refuses, hangs or changes between calls; a body breaks after a good status | each error means one thing; what is returned is what the upstream holds |
| Source dispatch (`sources/mod.rs`) | none | forwards to the HTTP source; placeholders answer an error | all placeholders share one id | what is listed with an id is found by it |
| HTTP exporter, requests (`exports/http_server.rs:220-375`) | an immutable map alias -> source; per request, a suspended handler | list, else metadata, else read and stream | three calls per request, any interleaving with the upstream; the headers are from one answer, the body from another | 404, 500, listing and file each say something true; a cut body shows |
| HTTP exporter, pages (`:95-121, 159-218, 248-315, 384-395`) | none | root page, redirect, listing, parent link | links are composed by browsing; prefix, doubled slashes, decoding | a link leads to what it stands for |
| HTTP exporter, lifecycle (`:124-157`) | a watch channel; axum's listener, signal task, connection tasks | `serve`, `shutdown`, cancellation, drop | tasks that share only channels; shutdown before, during and after serve; calls of `serve` side by side, again and cancelled | no shutdown is lost; serve returns after its connections |
| Startup (`fourtou/main.rs`) | the exporters' tasks | build sources and exporters, spawn, wait for ctrl-c, abort | one step of several fails; abort races with the end of the runtime | a failure is noticed; requests are not cut needlessly |
| Configuration (`fourtou-config`) | none | load, parse, validate | references are validated in one crate and relied on in another; aliases and sockets are not validated, and names need not be: they are keys of a map | main can build what was validated and drops none of it |
| Aggregator (`fourtou-app`) | its list of sources | list all, list one, metadata, read | partial failure; ids that are not unique | results say which source they are from |
| Domain (`fourtou-domain`) | none | value types, errors, the two ports | - | - |

They interact by plain calls within one request (exporter -> dispatch -> HTTP
source -> upstream), and by channels between tasks (the exporter's watch
channel, axum's own two). `main` builds the aggregator but only asks it for its
number of sources; exporters use the sources directly.

The list of what is hard to test, with the lines where it bites, is under
`hazards` in `PROJECT.json`.

## Modules

| Module | Models | Status |
|---|---|---|
| `HttpSource` | the three upstream calls: what may be answered, which error each call makes of it | done |
| `HttpExport` | the request handler with its awaits, body streaming, disconnects, a changing upstream (extends `HttpSource`) | done |
| `FileService` | abstract: what a client of the exporter may rely on, however many upstream calls are behind it | done |
| `HttpExportService` | the refinement mapping: `HttpExport` implements `FileService` | done |
| `HttpExportProofs`, `HttpExportServiceProofs` | type correctness, the inductive invariant, the safety properties, that handlers only advance; the refinement | done |
| `ExporterLifecycle` | any calls of serve, their cancellation, shutdown, drop; accept loop, signal task, connection tasks | done |
| `ExporterLifecycleProofs` | type correctness, the inductive invariant, serve's promise, that no signal is lost | done |
| `Startup` | `main()`, the tasks it spawns, ctrl-c, the end of the runtime; built on the actions of `ExporterLifecycle` | done |
| `StartupProofs` | type correctness; failures stay apart; ctrl-c never drains; no end of an exporter is missed in the program either | done |
| `Navigation` | routes, pages, links, `parse_index`, sorting, as a browser meets them | done |
| `NavigationProofs` | type correctness, the order of listings, where links lead, how long URLs get | done |
| `Configuration` | from the file to the routing tables: `load`, `validate`, `build_source`, `build_exporter`, `build_router` | done |
| `ConfigurationProofs` | type correctness, validation is exact, every mapping is served | done |
| `Aggregator` | the aggregator's calls over sources that fail and change between the awaits (extends `HttpSource`) | done |
| `AggregatorProofs` | type correctness, the three safety properties, that calls only advance | done |
| `NumberLemmas` | the least and the greatest number of a set, and induction over numbers with sets in place of predicates | done |
| `MCHttpExport`, `MCExporterLifecycle`, `MCStartup`, `MCNavigation`, `MCConfiguration`, `MCAggregator` | instances for TLC | done |

The handler (`HttpExport`), the tasks around it (`ExporterLifecycle`) and what
its pages link to (`Navigation`) are separate modules because they share no
variable: a handler reads only immutable state, so that two requests never
influence each other, and the lifecycle sees a request only as a busy
connection. `Startup` does share the lifecycle's variables: it instantiates
`ExporterLifecycle` and its steps are built from that module's. `Configuration`
and `Startup` are two views of `main()`: the data it hands on, and the tasks it
runs. `Configuration` ends where the others begin: its routing tables are what
`HttpExport` calls `sources`, and the values of its `sources`, in any
order, the aggregator's `registry`.

### HttpSource and HttpExport

An answer of the upstream is a status class (success, 404, other, none at all)
with the content version it carries, or one of the pages of refusals
(`ErrorPages`): HEAD and GET may be refused with different ones, of different
lengths. `ListError`, `MetadataError` and
`ReadError` are what `fetch_index`, `get_metadata` and `read_file` make of it:
all know 404, but only `fetch_index` knows other failure statuses.

`pc[r]` names the await a handler is suspended at: `list` (the index request),
`text` (its body), `head`, `read` and `stream`. Every action runs the handler
from one await to the next. `headers[r]` is `serve_file`'s local variable
carried from HEAD to GET. `heard` and `seen` are history, read by properties
only: the answers a request got, and what its URL has held since the request
was accepted. `Publish` changes the upstream between any two steps.

A body is counted in abstract bytes. hyper writes at most the announced length
and ends the response there; a body that ends short of it or breaks closes the
connection (`aborted`). An upstream that breaks a body without saying so (no
length, no chunking) is taken to have sent what it wanted to.

### FileService and HttpExportService

`FileService` knows no upstream call. A request looks at what its URL holds at
one moment: a 404 says it holds nothing, a listing or a file is what it holds,
or a page of a refusal. Two things are kept from an earlier moment: a listing
whose text is still awaited (`chosen`), and the length a file is announced with
(`announced`). So a client may rely on each reply being consistent in itself but
for that length.

`HttpExportService` maps the handler to it: `list` and `head` are both
`pending`, because an index request that failed leaves no trace; `text` is
`listed` with the page of the index answer; `read` is `announced` with the
length of HEAD. Every other upstream answer is looked at in the step that
receives it: the mapping says that of three calls the last one decides, but for
the length.

### ExporterLifecycle

`Calls` are the calls of `serve()` that owners make, `Of[k]` the exporter each
is of: the port's signatures borrow the exporter (`&self`), so that calls may
run side by side and one after another. `serve[k]` is the future of a call:
`new`, `bound` (listening, receiver not yet cloned), `accepting`, `draining`,
and its ends. `version` is the watch channel of an exporter as tokio keeps it,
`rxSeen` and `signal` are the receiver and the task axum spawns for a call's
`with_graceful_shutdown`; `link` and `told` are the connection tasks. axum and
tokio are modelled at the versions of `Cargo.lock` from how `serve()` uses
them: the accept loop's `select!` may take connections after the signal; an
idle connection that is told closes, a busy one finishes its request.

A future is dropped in two ways. `Cancel` drops the future of one call, and its
listener, with the exporter still there for `shutdown()` and other calls. `Drop`
is what an abort of the owner's task does, as in `main.rs`: the futures that
borrow the exporter, then the exporter and its sender. After either the spawned
tasks live on. So the Ok of a call covers the connections of that call
(`OkMeansDrained`), not those a cancelled call of the same exporter has left
running.

### Startup

`main` is where `main()` is: `loading`, `building`, `waiting` (for ctrl-c),
`aborting`; `ok` and `error` are its two returns, after which the runtime drops
the tasks that are left, until the process has `exited`. An interrupt before
the handler is installed kills the process. `kind` is chosen with the initial
state: an HTTP export, one whose socket address does not parse
(`build_exporter` fails), a placeholder. The order of the build loop is a
HashMap's, hence any. An exporter's task and its connections take the actions
of `ExporterLifecycle`, in parallel with `main()`; only the owner's actions are
restricted: `serve()` once per exporter, under whose name the call goes
(`TaskRuns`), a drop when it ended or was aborted (`TaskDropped`), no `Cancel`
without it and no `shutdown()`. That the program's behaviours are behaviours of
`ExporterLifecycle` is therefore so by construction, and is no property of it.
When the runtime drops a connection's task, the connection closes
(`ConnectionDropped`), even in the middle of a response.

### Navigation

A URL path is the sequence of strings between its slashes, so `"/docs//a"` is
`<<"docs", "", "a">>` and prefixes, parents and joins are sequence operations.
`Page(u)` is what the routes answer at a URL, `Links(u)` the links on that page
with what each stands for, and the behaviour is a browser that starts at any
address of a served thing and follows links. Percent-encoding is reduced to the
names that do not survive it (`Lossy`): the path is decoded by axum and sent
upstream as it is, where a `#` or `?` in a name ends the path (`Cuts`) and a
`%41` is taken for an escape; `Sent` says which name the upstream takes such a
one for. Names with an encoded slash, and those that begin with `#` or `?`, are
left out, and so are aliases with characters that a `Location` or an href cannot
hold as they are. The upstream is one that redirects `/dir` to `/dir/`; whether it
takes `//` for `/` is left open (`merges`). Dot segments are left out.

`UpstreamAssumption` is what the code takes of an upstream for granted: it is a
tree, and the index page of a directory links to each child and to no other
entry, among any number of other lines and hrefs; links may share a line, of
which `parse_index` sees the first. `OnePerLine` is what has to hold of a page
for all of its entries to be listed. `Without` drops elements of a sequence one
by one, as `parse_index` goes through its lines. The sort is said by its
result, a permutation that `Sorts` the entries and is stable, not by an
algorithm. `StandsFor` says what a URL is for by its shape alone, without
asking what the exporter answers there; `BrowsingInv` is that the browser's URL
stands for the link it followed.

### Configuration

`config` is what the file says; `stage` is where `main()` is with it. A parsed
configuration holds sources and exports in maps by name, so that the loops of
`validate()` that look for duplicate names never find one and are no action.
`Blamable` is what `validate()` may name in its error: an HTTP export's first
unknown mapping, or any unknown share of a Samba export; exports come in a
HashMap's order, hence any (`Validate`). `BuildSources` and `BuildExporter` make
what `main()` makes, up to the routing table `serve()` builds first:
`build_exporter` drops mappings whose source is missing (`Kept`), an alias
defaults to the name, `build_router` inserts by alias and the last one stays.
Sources other than HTTP are one kind, `placeholder`; a Samba export is the set
of sources of its shares; an address parses or does not.

### Aggregator

`registry` is the service's vector, any order of sources with different names.
`pc` is the await of the call: `asking` a source, or the `text` of an index
page; `pos` is the loop's position in `list_all_files`, and what `find()` found
for the others. `Settle` is what the service does when a source's call ends:
the loop takes up the entries or logs the error and goes on; a lookup wraps the
error in `AggregationFailed`. The answers and errors of an HTTP source are
those of `HttpSource`. `results` are the entries by source, which stand for the
pairs of `source_id` and file the code returns in one vector. `heard` and
`seen` are history, as in `HttpExport`. All calls are for one path, hence one
URL per source; `source_count` and `source_ids` only read the vector.

## Runs

| Run | Shows |
|---|---|
| `http_export` | For every method, alias kind, upstream history, failure and disconnect of one request: a 404 was said by the upstream twice (`NotFoundConfirmedTwice`), a listing is a page the URL held (`ListingIsSnapshot`), a 500 has a cause outside (`ServerErrorExplained`), a response that ended well is as long as announced (`NoSilentTruncation`) and whole unless the content changed between HEAD and GET (`WholeUnlessChangedBetween`), a file is served only where the URL was missing before (`FileOnlyAfterMissing`), every request gets an answer (`EveryRequestAnswered`), for which no upstream call is made twice and which, once begun, does not change (`HandlersAdvance`), and a client sees no more than a service that looks at the URL once, but for the announced length (`ImplementsFileService`). `HandlerInv` is the invariant of the proofs. |
| `lifecycle` | Any order of serve, cancellation, shutdown and drop: `serve()` returns Ok only after a shutdown and with its own connections gone (`OkMeansDrained`) and panics for a bad prefix only (`TypeOK`); no shutdown is lost, neither for the call that runs nor for what a cancelled one left (`SignalReaches`, and so `ShutdownStopsAccepting`); a drain completes if clients let it (`ShutdownCompletes`); the connections of a cancelled or aborted call are closed by a shutdown or drop, whenever it comes (`OrphansClose`). `LifecycleInv` is the invariant of the proofs. |
| `startup` | The program: an exporter that serves is stopped by the end of main only, not by another's failure (`StoppedByMainOnly`); all exports get to serve (`EveryExporterStarts`); ctrl-c and a failed start end the process whatever clients do (`ProcessEnds`), because no exporter drains (`CtrlCDoesNotDrain`): running responses are cut. |
| `navigation` | Everything reachable by links: links lead where they say but for doubled slashes and lossy names (`LinksLead`), URLs do not grow (`UrlsStayShort`), a listing is of its directory's children in order, and of all of them when each has a line of its own (`ListingInOrder`), a URL's shape says what it is for (`BrowsingInv`, the invariant of the proofs), redirects end at the root of their source (`RedirectsEnd`), each in one step (`RedirectsStay`, which is proved for any prefix). |
| `configuration` | Every configuration: it is refused exactly for a reference that dangles (`ValidationExact`), and no mapping of a built export is lost between `validate`, `filter_map`, the default alias and the router, but to a later one with its alias (`MappingsServed`). |
| `aggregator` | Any calls over any sources: a listing of all has the entries of just the sources that answered, whichever failed, each a page its URL held during the call (`ListingComplete`); an error says whose it is (`ErrorsSayWhose`); a listed file is looked for in the source it is from, though placeholders share an id (`FilesLeadBack`); every call returns (`CallsReturn`), because each of its steps leaves fewer awaits (`CallsAdvance`). |
| `listings_of_files` (violation) | A file that exists is answered with a listing; the comment at `http_server.rs:234` says "It's a directory". |
| `error_bodies` (violation) | The page of an upstream 403 or 500 is served as the file; `ports/source.rs:48` promises an error. |
| `shutdown_returns` (violation) | `shutdown()` returns Ok while `serve()` runs; `ports/export.rs:28` says "when the server has shut down". |
| `links_below_prefix` (violation) | With a prefix, pages link outside of it; `http_server.rs:28` calls it the prefix "for all routes". |
| `sources_exposed` (violation) | Of two mappings with one alias the first is unreachable; `types.rs:144` calls the field the "Sources to expose through this export." |
| `unique_ids` (violation) | A file of an HTTP source called "placeholder" may be looked for in a placeholder; `ports/source.rs:53` says "unique identifier". |

Bounds. `http_export`: one request, because handlers share only immutable state
(two requests multiply the states and add no interaction); one URL, two file
versions of different lengths and one directory page, so that HEAD and GET can
disagree both ways; two error pages of different lengths, so that they can when
both are refused; a placeholder source, an unknown alias and an alias mapped
twice. The upstream changes without bound. `lifecycle`: an exporter with two
calls of `serve()`, which compete for its address when they run side by side,
and a second exporter with the same address whose router panics; two
connections, so that one can be idle while the other is busy and each call can
have one; two calls of `shutdown()` per exporter (`MaxShutdowns`), so that one
can come before the second `serve()` and one after it. `startup`: three
exports, so that a third still serves while two fail or compete; one
connection. `navigation`: directories three deep, since a URL composes one
level at a time; index pages with the lines real servers write, and one with
two entries on a line; a lossy name of each kind, beside the file it is taken
for. `configuration`: two sources that may be missing, one of which has the
name the other may have for an alias; two exports of any type, so that the
failure of one meets the other built and not built; two mappings
(`MaxMappings`), enough for one to hide the other. `aggregator`: up to three
sources (`MaxSources`) of which any may be placeholders, so that the loop has a
first, a middle and a last and ids are shared; three names, one of them the
placeholders' id; one version of a page, since a page that is there or not is
all the properties tell apart; one caller, because calls share nothing.

Fairness. `http_export`: the runtime runs an accepted request (`Accept`), and
every call of the upstream ends by the client's total timeout if by nothing
else (`TimedOut`, `http.rs:68`). Nothing is assumed of the upstream, of the
client, or of body streaming, which a client that does not read can stall for
ever. `lifecycle`: the runtime polls every task that is ready; the accept loop's
`select!` polls its branches in random order, so that a steady stream of
connections cannot keep it from the signal. Clients and owners are free to do
nothing; the two properties that need clients to finish (`ShutdownCompletes`,
`OrphansClose`) say so
(`ClientsFinish`). `startup`: main runs and the runtime polls or drops its
tasks, also those a client keeps busy; the user may never interrupt.
`navigation`: a browser follows a redirect. `aggregator`: the runtime polls the
call (`PlaceholderAnswers`), and each source's call ends by the client's timeout
if by nothing else (`TimedOut`); nothing is assumed of the upstreams, and the
caller may never call again. `configuration` claims no liveness: that `main()`
gets through is `startup`'s.

## Proofs

`HttpExportProofs` proves for all sets of requests, aliases, paths, sources and
contents, from `ContentAssumption` and `ExportAssumption`: `TypeCorrect`, then
`Inductive` (`Spec => []HandlerInv`), then one theorem per safety property of
the run. The properties alone are not inductive: that a 404 at `head` was
preceded by a 404 at `list` has to be known while the handler waits.
`AwaitInv` says what it knows at each await (`Knows`), `BodyInv` what a body's
length comes from. A handler's step leaves other requests alone
(`KnowsUntouched`), `Publish` only adds to what was seen. `BodiesWhole` follows
from `NoSilentTruncation` and `BodyInv`: the announced length is that of the
content HEAD saw. `HandlersOnlyAdvance` is the part of `EveryRequestAnswered`
that does not need fairness: every step takes a handler to a later await or a
body nearer to its end, which `BodyInv` knows it has not passed.

`HttpExportServiceProofs` proves `HandlerImplementsService`: `Init` maps to the
service's `Init` (`InitMaps`), and each action of the handler to an action of
the service or to a stutter (the lemmas `AcceptMaps` to `PublishMaps`). It
needs `HandlerInv`: that the page awaited at `text` is the one of the index
answer is known from `AwaitInv` only.

`ConfigurationProofs` proves, from `ConfigurationAssumption`,
`ValidationIsExact` and `EveryMappingServed` for any names, aliases and number
of mappings. The second is not inductive without the first: that `filter_map`
drops nothing follows from `validate()`'s verdict, which `ConfigInv` carries
through the build together with where `sources` come from. Validation itself
stops at the first unknown mapping; that there is a first one whenever there is
any (`BlamesTheUnknown`) is `LeastNumber`, and that the router keeps the last
mapping of an alias (`LastIsLast`) is `GreatestNumber`.

`AggregatorProofs` proves `ListingsAreComplete`, `ErrorsAreAttributed` and
`FilesAreFoundAgain` from `ContentAssumption` and `AggregatorAssumption`.
`AggregatorInv` says what the loop has done at position `pos` (`ListInv`: asked
just the sources before it), and what a lookup waits for (`LookupInv`).
`SettlePreserves` carries it over every end of a source's call. That shared ids
lose nothing rests on one conjunct: only HTTP sources have entries in `results`,
and their ids are their names, of which no two are equal. `CallsOnlyAdvance`
proves the variant behind `CallsReturn`, whose fairness TLC adds: `AwaitsLeft`
falls with every step of a call.

`ExporterLifecycleProofs` proves `TypeCorrect` and `LifecycleInvariant` from
`LifecycleAssumption`, for any exporters, calls, sockets, connections and
`MaxShutdowns`: the signal of a call fires only for a shutdown or a drop, a
serving exporter is alive (`serve` borrows it), and a call that has
connections, cancelled or not, has a signal task. `OkAfterDrain` is its
consequence, and so is the fact the liveness properties rest on,
`SignalsReach`: whenever a shutdown or a drop comes, the signal has fired or
can fire, because every call clones a receiver that has seen nothing (`rxSeen`
is 0) before it accepts, and because its signal task outlives it.

`StartupProofs` proves, from `StartupAssumption`, `TypeCorrect`, then
`CtrlCNeverDrains`, which rests on `SignalInv`: nothing is sent on any channel,
so that the signal fires only for exporters already dropped.
`FailuresAreIsolated` needs it, because a drain that completes would also stop
an exporter, and `AbortInv`: a task is aborted only after ctrl-c.
`ProgramSignalsReach` carries `SignalsReach` over to the exporters `main()`
runs: it instantiates `ExporterLifecycleProofs` instead of proving the theorem
a second time, with `ProgramTakesExporterSteps`, a lemma that only unfolds how
`Startup` is built of that module's actions.

`NavigationProofs` proves, from `NavigationAssumption` and `UpstreamAssumption`,
that is for trees of any depth and index pages of any length:

- `TypeCorrect`, for any prefix, from `TypeInv`: the URL is a non-empty
  sequence of parts. The links of a page are read off that page, so each has to
  be shown to be for a node of the tree, the parent of a listing included.
- `ListingsInOrder`, for any prefix. `Without` is a recursive function, and
  what it keeps is proved by induction over sequences; the library's induction
  theorems take predicates, which the provers cannot instantiate, so `NatBySet`
  and `SeqBySet` say the same of the set of the numbers or sequences that have
  the property. That the first hrefs of the lines give no entry twice, and one
  for every child of a page that is `OnePerLine`, is `ParsedOnce`. That a
  permutation that sorts exists, which the `CHOOSE` of `sorted_entries` needs,
  is `Sortable`: an entry's place is the number of those that go before it.
- `RedirectsLead`, for any prefix: the Location is relative to a URL that
  `nest()` has routed, hence below the prefix too. Of what the pages link to
  below a prefix it is the one thing that holds.
- `BrowsingKept`, and from it `LinksLeadThere` and `UrlsAreShort`, for `Prefix
  = <<>>`, the default of `HttpExporterConfig`. With another prefix they do not
  hold, as `links_below_prefix` shows: pages link as if there were none.
  `LinksLead` is not inductive, since where a link leads to depends on the
  shape of the URL it is on. `BrowsingInv` knows that shape: an alias, then
  names with at most one slash too many between two, and no slash behind a
  file. It holds of the addresses, and `EntryStep` and `ParentStep` show that
  `entry_href` and `parent_path` keep it; of a lossy name only the shape is
  known, and the properties except it.

Only model-checked: the liveness properties, `RedirectsEnd` among them, which
are beyond the prover, though the safety facts most of them rest on are proved
(`SignalReaches`, `HandlersAdvance`, `CallsAdvance`); and the violations, each
of which is a single behaviour.

## Not modelled

HTML text and escaping, MIME types, logging, TLS and redirects of the HTTP
client (an answer is what is left after them), HTTP/2. Reading TOML, and the
fields that concern one source or one exporter alone (`base_url`,
`timeout_secs`, mount options). Of the domain crate, constructors and
formatting, and the errors that no code returns (`PermissionDenied`,
`InvalidPath`). The in-memory source for tests. Samba and
NFS exporters and the other sources do not exist yet but for the error they
return.

Four hazards have no property. When every exporter has failed, `main()` waits
for ctrl-c with nothing serving and then returns Ok: `Startup` reaches that
state, and no line of the repository says what it should be. A name with an
encoded `#`, `?` or `%` leads to another file, and a doubled slash to nothing
on an upstream that tells it from one: `Navigation` has both, `LinksLead`
excepts them, and nothing in the repository promises that they work. Of several
entries on a line of an index page only the first is listed: `ListingInOrder`
promises all children of `OnePerLine` pages only.

## Plan

The plan of the inventory is carried out: every component that changes state is
modelled. What could still be added as the code grows: readers of an
aggregated file's stream, once something in the program calls the aggregator;
the placeholders, once they are sources; `Startup`'s kinds of exports taken from
`Configuration` by a mapping, once exporters can be rebuilt while others run.
