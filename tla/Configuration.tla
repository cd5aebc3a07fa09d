----------------------------- MODULE Configuration -----------------------------
(***************************************************************************)
(* From the configuration file to the exporters' routing tables: what      *)
(* Config::load accepts (crates/fourtou-config), and what main() builds of *)
(* it (build_source, build_exporter, HttpExporter::build_router).          *)
(*                                                                         *)
(* A parsed configuration is two maps from names, so that the loops of     *)
(* validate() that look for duplicate names never find one; the maps are   *)
(* HashMaps, whose order is any. TOML itself, addresses, prefixes and what *)
(* concerns one source alone (base_url, timeout_secs) are left out.        *)
(***************************************************************************)
EXTENDS Naturals, Sequences

CONSTANTS
    SourceNames,  \* names a configuration may use for sources
    ExportNames,  \* names it may use for exports
    Aliases,      \* aliases a mapping may give
    None,         \* Option::None of an alias
    MaxMappings   \* mappings of an HTTP export, at most

ASSUME ConfigurationAssumption == None \notin Aliases /\ MaxMappings \in Nat

VARIABLES
    config,     \* what is in the file
    stage,      \* where main() is with it
    error,      \* why main() returned an error
    blamed,     \* the export and source a ValidationError names
    sources,    \* the sources main() built, by name
    exporters   \* the exporters main() built

vars == <<config, stage, error, blamed, sources, exporters>>

-------------------------------------------------------------------------------
(* The configuration.                                                      *)

\* Every source that is no HTTP source is a placeholder.
SourceConfig == {"http", "placeholder"}

SourceMapping == [name : SourceNames, alias : Aliases \cup {None}]

HttpExportConfig ==
    [type    : {"http"},
     socket  : {"address", "garbage"},
     sources : UNION {[1..n -> SourceMapping] : n \in 0..MaxMappings}]

\* The sources of the shares, whatever these are called.
SambaExportConfig == [type : {"samba"}, shares : SUBSET SourceNames]

NfsExportConfig == [type : {"nfs"}]

ExportConfig == HttpExportConfig \cup SambaExportConfig \cup NfsExportConfig

HashMap(names, values) == UNION {[d -> values] : d \in SUBSET names}

Config == [sources : HashMap(SourceNames, SourceConfig),
           exports : HashMap(ExportNames, ExportConfig)]

Exports == DOMAIN config.exports

\* The sources an export names.
References(export) ==
    CASE export.type = "http"  -> {export.sources[i].name : i \in DOMAIN export.sources}
      [] export.type = "samba" -> export.shares
      [] OTHER                 -> {}

Unknown(export) == References(export) \ DOMAIN config.sources

\* Faulty variants: shares are not looked at; a mapping is not looked at if
\* it has an alias.
Blamable_HttpOnly(export) == IF export.type = "http" THEN Unknown(export) ELSE {}

Blamable_Unaliased(export) ==
    IF export.type = "http"
      THEN {export.sources[i].name :
              i \in {j \in DOMAIN export.sources : export.sources[j].alias = None}}
           \ DOMAIN config.sources
      ELSE Unknown(export)

\* What validate() blames in an export: the first mapping that is unknown, or
\* any such share.
Blamable(export) ==
    IF export.type = "http"
      THEN {export.sources[i].name :
              i \in {j \in DOMAIN export.sources :
                       /\ export.sources[j].name \in Unknown(export)
                       /\ \A k \in 1..(j - 1) :
                             export.sources[k].name \notin Unknown(export)}}
      ELSE Unknown(export)

-------------------------------------------------------------------------------
(* The sources and the routing tables.                                     *)

AnySource == [reader : SourceConfig, source_id : SourceNames \cup {"placeholder"}]

\* build_source for every source: only an HTTP source knows its name.
build_sources(configured) ==
    [n \in DOMAIN configured |->
       [reader    |-> configured[n],
        source_id |-> IF configured[n] = "http" THEN n ELSE "placeholder"]]

\* Faulty variant: an alias that is left out has no default.
alias_NotDefaulted(mapping) == mapping.alias

alias(mapping) == IF mapping.alias = None THEN mapping.name ELSE mapping.alias

\* The mappings whose source main() has: filter_map drops the others.
Kept(ms) == {i \in DOMAIN ms : ms[i].name \in DOMAIN sources}

\* The source each alias leads to, by name: inserted in the order of the
\* mappings, the last one stays.
Last(ms, a) ==
    CHOOSE i \in Kept(ms) :
        /\ alias(ms[i]) = a
        /\ \A j \in Kept(ms) : alias(ms[j]) = a => j <= i

build_router(ms) == [a \in {alias(ms[i]) : i \in Kept(ms)} |-> ms[Last(ms, a)].name]

NoRoutes == [a \in {} |-> a]

Built(type, routes) == [type |-> type, routes |-> routes]

-------------------------------------------------------------------------------
Init ==
    /\ config \in Config
    /\ stage = "loading"
    /\ error = "none"
    /\ blamed = <<>>
    /\ sources = [n \in {} |-> n]
    /\ exporters = [e \in {} |-> e]

MainReturns(why) ==
    /\ stage' = "returned"
    /\ error' = why

\* load() cannot read the file, or toml cannot parse it.
LoadFails ==
    /\ stage = "loading"
    /\ MainReturns("IoError") \/ MainReturns("ParseError")
    /\ UNCHANGED <<config, blamed, sources, exporters>>

\* validate() returns the first reference it finds dangling.
Validate ==
    /\ stage = "loading"
    /\ IF \A e \in Exports : Blamable(config.exports[e]) = {}
         THEN stage' = "loaded" /\ UNCHANGED <<error, blamed>>
         ELSE /\ MainReturns("ValidationError")
              /\ \E e \in Exports : \E n \in Blamable(config.exports[e]) :
                    blamed' = <<e, n>>
    /\ UNCHANGED <<config, sources, exporters>>

BuildSources ==
    /\ stage = "loaded"
    /\ stage' = "building"
    /\ sources' = build_sources(config.sources)
    /\ UNCHANGED <<config, error, blamed, exporters>>

\* build_exporter and the routing table its serve() makes first.
BuildExporter(e) ==
    LET export == config.exports[e]
        Add(built) == /\ exporters' = [f \in DOMAIN exporters \cup {e} |->
                                         IF f = e THEN built ELSE exporters[f]]
                      /\ UNCHANGED <<stage, error>>
    IN  /\ stage = "building"
        /\ e \notin DOMAIN exporters
        /\ CASE export.type # "http" -> Add(Built("placeholder", NoRoutes))
             [] export.type = "http" /\ export.socket = "garbage" ->
                  MainReturns("InvalidSocket") /\ UNCHANGED exporters
             [] OTHER -> Add(Built("http", build_router(export.sources)))
        /\ UNCHANGED <<config, blamed, sources>>

AllBuilt ==
    /\ stage = "building"
    /\ DOMAIN exporters = Exports
    /\ stage' = "waiting"
    /\ UNCHANGED <<config, error, blamed, sources, exporters>>

Next ==
    \/ LoadFails
    \/ Validate
    \/ BuildSources
    \/ \E e \in Exports : BuildExporter(e)
    \/ AllBuilt

Spec == Init /\ [][Next]_vars

-------------------------------------------------------------------------------
(* Properties.                                                             *)

\* Every variable keeps its type; main() builds what is configured only.
TypeOK ==
    /\ config \in Config
    /\ stage \in {"loading", "loaded", "building", "waiting", "returned"}
    /\ error \in {"none", "IoError", "ParseError", "ValidationError", "InvalidSocket"}
    /\ blamed \in {<<>>} \cup (ExportNames \X SourceNames)
    /\ sources \in HashMap(SourceNames, AnySource)
    /\ exporters \in
          HashMap(Exports, [type : {"http", "placeholder"},
                            routes : HashMap(SourceNames \cup Aliases, SourceNames)])

\* A configuration is rejected for a reference that does dangle, and what main()
\* goes on with has none in any export, of whatever type.
ValidationExact ==
    /\ error = "ValidationError" => blamed[2] \in Unknown(config.exports[blamed[1]])
    /\ stage \notin {"loading", "returned"} =>
          \A e \in Exports : Unknown(config.exports[e]) = {}

\* No mapping of a built HTTP export gets lost between validate(), filter_map,
\* the default of an alias and the router: its alias leads to its source, or to
\* that of a later mapping with the same alias.
MappingsServed ==
    \A e \in DOMAIN exporters : exporters[e].type = "http" =>
        LET ms     == config.exports[e].sources
            routes == exporters[e].routes
        IN  \A i \in DOMAIN ms :
              /\ alias(ms[i]) \in DOMAIN routes
              /\ \E j \in DOMAIN ms :
                    /\ i <= j
                    /\ alias(ms[j]) = alias(ms[i])
                    /\ routes[alias(ms[i])] = ms[j].name
                    /\ ms[j].name \in DOMAIN sources

-------------------------------------------------------------------------------
(* What the repository's docs say, and the code does not do.               *)

\* types.rs:144, of HttpExportConfig's sources: "Sources to expose through
\* this export." Here: every one of them is behind some alias.
SourcesExposed ==
    \A e \in DOMAIN exporters : exporters[e].type = "http" =>
        LET ms == config.exports[e].sources
        IN  \A i \in DOMAIN ms : \E a \in DOMAIN exporters[e].routes :
                exporters[e].routes[a] = ms[i].name
===============================================================================
