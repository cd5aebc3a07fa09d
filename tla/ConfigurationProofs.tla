-------------------------- MODULE ConfigurationProofs --------------------------
(* Proofs about Configuration, for any names, aliases and number of        *)
(* mappings: what validate() accepts is what main() needs.                 *)
EXTENDS Configuration, NumberLemmas, TLAPS

\* Mappings that are all kept have a last one for each alias one of them has.
LEMMA LastIsLast ==
    ASSUME NEW ms \in Seq(SourceMapping),
           \A i \in DOMAIN ms : ms[i].name \in DOMAIN sources,
           NEW i \in DOMAIN ms
    PROVE  LET l == Last(ms, alias(ms[i])) IN
             l \in DOMAIN ms /\ i <= l /\ alias(ms[l]) = alias(ms[i])
<1> DEFINE Same == {j \in DOMAIN ms : alias(ms[j]) = alias(ms[i])}
<1>1. DOMAIN ms = 1..Len(ms) /\ Len(ms) \in Nat
  OBVIOUS
<1>2. Kept(ms) = DOMAIN ms
  BY DEF Kept
<1>3. \E j \in Same : \A k \in Same : k <= j
  <2>1. Same \in SUBSET (0..Len(ms)) /\ i \in Same
    BY <1>1
  <2>2. QED
    BY <1>1, <2>1, GreatestNumber
<1>4. LET l == Last(ms, alias(ms[i])) IN l \in Same /\ \A k \in Same : k <= l
  BY <1>2, <1>3 DEF Last
<1>5. QED
  BY <1>4

-------------------------------------------------------------------------------
\* An HTTP export has a sequence of mappings.
LEMMA ExportTypes ==
    ASSUME NEW export \in ExportConfig
    PROVE  /\ export.type \in {"http", "samba", "nfs"}
           /\ export.type = "http" => /\ export.sources \in Seq(SourceMapping)
                                      /\ export.socket \in {"address", "garbage"}
           /\ export.type = "samba" => export.shares \subseteq SourceNames
BY DEF ExportConfig, HttpExportConfig, SambaExportConfig, NfsExportConfig

LEMMA ConfigTypes ==
    ASSUME config \in Config
    PROVE  /\ Exports \subseteq ExportNames
           /\ \A e \in Exports : config.exports[e] \in ExportConfig
           /\ DOMAIN config.sources \subseteq SourceNames
           /\ \A n \in DOMAIN config.sources : config.sources[n] \in SourceConfig
BY DEF Config, HashMap, Exports

\* validate() blames something if and only if something is unknown, and then
\* an unknown source.
LEMMA BlamesTheUnknown ==
    ASSUME NEW export \in ExportConfig
    PROVE  /\ Blamable(export) \subseteq Unknown(export)
           /\ Unknown(export) # {} => Blamable(export) # {}
           /\ Unknown(export) \subseteq SourceNames
<1> USE ExportTypes
<1>1. CASE export.type = "http"
  <2> DEFINE ms == export.sources
             Dangling == {i \in DOMAIN ms : ms[i].name \in Unknown(export)}
  <2>1. Unknown(export) = {ms[i].name : i \in DOMAIN ms} \ DOMAIN config.sources
    BY <1>1 DEF Unknown, References
  <2>2. Blamable(export) =
          {ms[i].name : i \in {j \in Dangling : \A k \in 1..(j - 1) : k \notin Dangling}}
    <3>1. \A j \in DOMAIN ms : 1..(j - 1) \subseteq DOMAIN ms
      BY <1>1
    <3>2. QED
      BY <1>1, <3>1 DEF Blamable
  <2>3. ASSUME Unknown(export) # {} PROVE Blamable(export) # {}
    <3>1. Dangling \subseteq Nat /\ Dangling # {}
      BY <1>1, <2>1, <2>3
    <3>2. PICK j \in Dangling : \A k \in Dangling : j <= k
      BY <3>1, LeastNumber
    <3>3. \A k \in 1..(j - 1) : k \notin Dangling
      BY <3>1, <3>2
    <3>4. ms[j].name \in Blamable(export)
      BY <2>2, <3>2, <3>3
    <3>5. QED
      BY <3>4
  <2>4. Unknown(export) \subseteq SourceNames
    <3>1. \A i \in DOMAIN ms : ms[i] \in SourceMapping
      BY <1>1
    <3>2. QED
      BY <2>1, <3>1 DEF SourceMapping
  <2>5. QED
    BY <2>2, <2>3, <2>4
<1>2. CASE export.type # "http"
  BY <1>2 DEF Blamable, Unknown, References
<1>3. QED
  BY <1>1, <1>2

-------------------------------------------------------------------------------
LEMMA HashMapOf ==
    ASSUME NEW names, NEW values, NEW d \in SUBSET names, NEW m \in [d -> values]
    PROVE  m \in HashMap(names, values)
BY DEF HashMap

LEMMA HashMapHas ==
    ASSUME NEW names, NEW values, NEW m \in HashMap(names, values)
    PROVE  DOMAIN m \subseteq names /\ m \in [DOMAIN m -> values]
BY DEF HashMap

\* The exporters that exist were built from a configuration without dangling
\* references and from all of its sources.
ConfigInv ==
    /\ config \in Config
    /\ stage \in {"loading", "loaded", "building", "waiting", "returned"}
    /\ ValidationExact
    /\ error = "ValidationError" =>
          blamed[1] \in Exports /\ blamed[2] \in SourceNames
    /\ stage # "returned" => error = "none"
    /\ stage \in {"loading", "loaded"} => DOMAIN exporters = {}
    /\ stage \in {"building", "waiting"} \/ DOMAIN exporters # {} =>
          /\ sources = build_sources(config.sources)
          /\ \A e \in Exports : Unknown(config.exports[e]) = {}
    /\ DOMAIN exporters \subseteq Exports
    /\ MappingsServed

\* What build_exporter adds for an HTTP export serves all of its mappings.
LEMMA RouterServes ==
    ASSUME ConfigInv, NEW e \in Exports, stage = "building",
           config.exports[e].type = "http",
           NEW i \in DOMAIN config.exports[e].sources
    PROVE  LET ms     == config.exports[e].sources
               routes == build_router(ms)
           IN  /\ alias(ms[i]) \in DOMAIN routes
               /\ \E j \in DOMAIN ms :
                     /\ i <= j
                     /\ alias(ms[j]) = alias(ms[i])
                     /\ routes[alias(ms[i])] = ms[j].name
                     /\ ms[j].name \in DOMAIN sources
<1> DEFINE ms == config.exports[e].sources
           l  == Last(ms, alias(ms[i]))
<1>1. ms \in Seq(SourceMapping)
  BY ConfigTypes, ExportTypes DEF ConfigInv
<1>2. \A k \in DOMAIN ms : ms[k].name \in DOMAIN config.sources
  <2>1. Unknown(config.exports[e]) = {}
    BY DEF ConfigInv
  <2>2. QED
    BY <2>1 DEF Unknown, References
<1>3. DOMAIN sources = DOMAIN config.sources
  BY DEF ConfigInv, build_sources
<1>4. l \in DOMAIN ms /\ i <= l /\ alias(ms[l]) = alias(ms[i])
  BY <1>1, <1>2, <1>3, LastIsLast
<1>5. i \in Kept(ms) /\ l \in Kept(ms)
  BY <1>2, <1>3, <1>4 DEF Kept
<1>6. alias(ms[i]) \in DOMAIN build_router(ms)
  BY <1>5 DEF build_router
<1>7. build_router(ms)[alias(ms[i])] = ms[l].name
  BY <1>5 DEF build_router
<1>8. QED
  BY <1>2, <1>3, <1>4, <1>6, <1>7

LEMMA ConfigInvariant == Spec => []ConfigInv
<1>1. Init => ConfigInv
  BY DEF Init, ConfigInv, ValidationExact, MappingsServed
<1>2. ConfigInv /\ [Next]_vars => ConfigInv'
  <2> SUFFICES ASSUME ConfigInv, [Next]_vars PROVE ConfigInv'
    OBVIOUS
  <2> USE DEF MainReturns
  <2>1. CASE UNCHANGED vars
    BY <2>1 DEF vars, ConfigInv, ValidationExact, MappingsServed, Exports,
                Unknown, References, build_sources
  <2>2. CASE LoadFails
    BY <2>2 DEF LoadFails, ConfigInv, ValidationExact, MappingsServed, Exports,
                Unknown, References
  <2>3. CASE Validate
    <3>1. UNCHANGED <<config, sources, exporters>> /\ stage = "loading"
      BY <2>3 DEF Validate
    <3>2. \A e \in Exports : config.exports[e] \in ExportConfig
      BY ConfigTypes DEF ConfigInv
    <3>3. CASE \A e \in Exports : Blamable(config.exports[e]) = {}
      <4>1. \A e \in Exports : Unknown(config.exports[e]) = {}
        BY <3>2, <3>3, BlamesTheUnknown
      <4>2. stage' = "loaded" /\ error' = "none"
        BY <2>3, <3>3 DEF Validate, ConfigInv
      <4>3. QED
        BY <3>1, <4>1, <4>2
           DEF ConfigInv, ValidationExact, MappingsServed, Exports, Unknown, References
    <3>4. CASE ~ \A e \in Exports : Blamable(config.exports[e]) = {}
      <4>0. PICK e \in Exports :
              \E n \in Blamable(config.exports[e]) : blamed' = <<e, n>>
        BY <2>3, <3>4 DEF Validate
      <4>1. PICK n \in Blamable(config.exports[e]) : blamed' = <<e, n>>
        BY <4>0
      <4>2. n \in Unknown(config.exports[e]) /\ n \in SourceNames
        BY <3>2, <4>1, BlamesTheUnknown
      <4>3. stage' = "returned" /\ error' = "ValidationError"
        BY <2>3, <3>4 DEF Validate
      <4>4. DOMAIN exporters = {}
        BY <3>1 DEF ConfigInv
      <4>5. QED
        BY <3>1, <4>1, <4>2, <4>3, <4>4
           DEF ConfigInv, ValidationExact, MappingsServed, Exports, Unknown, References
    <3>5. QED
      BY <3>3, <3>4
  <2>4. CASE BuildSources
    BY <2>4 DEF BuildSources, ConfigInv, ValidationExact, MappingsServed, Exports,
                Unknown, References, build_sources
  <2>5. ASSUME NEW e \in Exports, BuildExporter(e) PROVE ConfigInv'
    <3> DEFINE export == config.exports[e]
    <3>1. UNCHANGED <<config, blamed, sources>> /\ stage = "building"
      BY <2>5 DEF BuildExporter
    <3>2. CASE UNCHANGED exporters
      BY <2>5, <3>1, <3>2
         DEF BuildExporter, ConfigInv, ValidationExact, MappingsServed, Exports,
             Unknown, References, build_sources
    <3>3. CASE ~ UNCHANGED exporters
      <4>1. PICK built :
              /\ exporters' = [f \in DOMAIN exporters \cup {e} |->
                                  IF f = e THEN built ELSE exporters[f]]
              /\ UNCHANGED <<stage, error>>
              /\ built.type = "http" =>
                    export.type = "http" /\ built.routes = build_router(export.sources)
        BY <2>5, <3>3 DEF BuildExporter, Built
      <4>2. MappingsServed'
        <5> SUFFICES ASSUME NEW f \in DOMAIN exporters', exporters'[f].type = "http",
                            NEW i \in DOMAIN config.exports[f].sources
                     PROVE  LET ms     == config.exports[f].sources
                                routes == exporters'[f].routes
                            IN  /\ alias(ms[i]) \in DOMAIN routes
                                /\ \E j \in DOMAIN ms :
                                      /\ i <= j
                                      /\ alias(ms[j]) = alias(ms[i])
                                      /\ routes[alias(ms[i])] = ms[j].name
                                      /\ ms[j].name \in DOMAIN sources
          BY <3>1 DEF MappingsServed
        <5>1. CASE f = e
          BY <3>1, <4>1, <5>1, RouterServes
        <5>2. CASE f # e
          BY <4>1, <5>2 DEF ConfigInv, MappingsServed
        <5>3. QED
          BY <5>1, <5>2
      <4>3. QED
        BY <3>1, <4>1, <4>2
           DEF ConfigInv, ValidationExact, Exports, Unknown, References, build_sources
    <3>4. QED
      BY <3>2, <3>3
  <2>6. CASE AllBuilt
    BY <2>6 DEF AllBuilt, ConfigInv, ValidationExact, MappingsServed, Exports,
                Unknown, References, build_sources
  <2>7. QED
    BY <2>1, <2>2, <2>3, <2>4, <2>5, <2>6 DEF Next
<1>3. QED
  BY <1>1, <1>2, PTL DEF Spec

\* A rejected configuration has the dangling reference that is blamed, an
\* accepted one has none.
THEOREM ValidationIsExact == Spec => []ValidationExact
<1>1. ConfigInv => ValidationExact
  BY DEF ConfigInv
<1>2. QED
  BY <1>1, ConfigInvariant, PTL

\* No mapping is lost: what filter_map drops, validate() has refused.
THEOREM EveryMappingServed == Spec => []MappingsServed
<1>1. ConfigInv => MappingsServed
  BY DEF ConfigInv
<1>2. QED
  BY <1>1, ConfigInvariant, PTL

-------------------------------------------------------------------------------
\* A routing table of the build leads from aliases and names to names.
LEMMA RouterTypes ==
    ASSUME ConfigInv, NEW e \in Exports, stage = "building",
           config.exports[e].type = "http"
    PROVE  build_router(config.exports[e].sources)
             \in HashMap(SourceNames \cup Aliases, SourceNames)
<1> DEFINE ms == config.exports[e].sources
           routes == build_router(ms)
<1>1. \A i \in DOMAIN ms : ms[i] \in SourceMapping
  <2>1. ms \in Seq(SourceMapping)
    BY ConfigTypes, ExportTypes DEF ConfigInv
  <2>2. QED
    BY <2>1
<1>2. ASSUME NEW a \in DOMAIN routes
      PROVE  a \in SourceNames \cup Aliases /\ routes[a] \in SourceNames
  <2>1. PICK i \in DOMAIN ms : a = alias(ms[i])
    BY <1>2 DEF build_router, Kept
  <2>2. PICK j \in DOMAIN ms : routes[a] = ms[j].name
    BY <2>1, RouterServes
  <2>3. QED
    BY <1>1, <2>1, <2>2 DEF SourceMapping, alias
<1>3. routes \in [DOMAIN routes -> SourceNames]
  BY <1>2 DEF build_router
<1>4. DOMAIN routes \in SUBSET (SourceNames \cup Aliases)
  BY <1>2
<1>5. QED
  BY <1>3, <1>4, HashMapOf

Exporter == [type : {"http", "placeholder"},
             routes : HashMap(SourceNames \cup Aliases, SourceNames)]

\* Every variable keeps its type, for all configurations.
THEOREM TypeCorrect == Spec => []TypeOK
<1>1. Init => TypeOK
  <2> SUFFICES ASSUME Init PROVE TypeOK
    OBVIOUS
  <2>1. sources \in [{} -> AnySource] /\ exporters \in [{} -> Exporter]
    BY DEF Init
  <2>2. sources \in HashMap(SourceNames, AnySource) /\ exporters \in HashMap(Exports, Exporter)
    BY <2>1, HashMapOf
  <2>3. QED
    BY <2>2 DEF Init, TypeOK, Exporter
<1>2. ConfigInv /\ TypeOK /\ [Next]_vars => TypeOK'
  <2> SUFFICES ASSUME ConfigInv, TypeOK, [Next]_vars PROVE TypeOK'
    OBVIOUS
  <2> USE DEF MainReturns, TypeOK
  <2>1. CASE UNCHANGED vars
    BY <2>1 DEF vars, Exports
  <2>2. CASE LoadFails
    BY <2>2 DEF LoadFails, Exports
  <2>3. CASE Validate
    <3>1. UNCHANGED <<config, sources, exporters>>
      BY <2>3 DEF Validate
    <3>2. \A e \in Exports : /\ e \in ExportNames
                             /\ Blamable(config.exports[e]) \subseteq SourceNames
      BY ConfigTypes, BlamesTheUnknown
    <3>3. /\ stage' \in {"loaded", "returned"}
          /\ error' \in {error, "ValidationError"}
          /\ blamed' \in {blamed} \cup (ExportNames \X SourceNames)
      <4>1. CASE \A e \in Exports : Blamable(config.exports[e]) = {}
        BY <2>3, <4>1 DEF Validate
      <4>2. CASE ~ \A e \in Exports : Blamable(config.exports[e]) = {}
        <5>1. /\ stage' = "returned" /\ error' = "ValidationError"
              /\ \E e \in Exports : \E n \in Blamable(config.exports[e]) :
                    blamed' = <<e, n>>
          BY <2>3, <4>2 DEF Validate
        <5>2. blamed' \in ExportNames \X SourceNames
          BY <3>2, <5>1
        <5>3. QED
          BY <5>1, <5>2
      <4>3. QED
        BY <4>1, <4>2
    <3>4. QED
      BY <3>1, <3>3 DEF Exports
  <2>4. CASE BuildSources
    <3>1. sources' \in [DOMAIN config.sources -> AnySource]
      BY <2>4, ConfigTypes DEF BuildSources, build_sources, AnySource
    <3>2. sources' \in HashMap(SourceNames, AnySource)
      BY <3>1, ConfigTypes, HashMapOf
    <3>3. QED
      BY <2>4, <3>2 DEF BuildSources, Exports
  <2>5. ASSUME NEW e \in Exports, BuildExporter(e) PROVE TypeOK'
    <3>1. /\ UNCHANGED <<config, blamed, sources>>
          /\ stage = "building"
          /\ stage' \in {stage, "returned"}
          /\ error' \in {error, "InvalidSocket"}
      BY <2>5 DEF BuildExporter
    <3>2. CASE UNCHANGED exporters
      BY <3>1, <3>2 DEF Exports
    <3>3. CASE ~ UNCHANGED exporters
      <4>1. PICK built \in Exporter :
              exporters' = [f \in DOMAIN exporters \cup {e} |->
                              IF f = e THEN built ELSE exporters[f]]
        <5>1. NoRoutes \in HashMap(SourceNames \cup Aliases, SourceNames)
          <6>1. NoRoutes \in [{} -> SourceNames]
            BY DEF NoRoutes
          <6>2. QED
            BY <6>1, HashMapOf
        <5>2. CASE config.exports[e].type # "http"
          BY <2>5, <5>1, <5>2 DEF BuildExporter, Built, Exporter
        <5>3. CASE config.exports[e].type = "http"
          BY <2>5, <3>1, <3>3, <5>3, RouterTypes DEF BuildExporter, Built, Exporter
        <5>4. QED
          BY <5>2, <5>3
      <4>2. DOMAIN exporters \subseteq Exports /\ exporters \in [DOMAIN exporters -> Exporter]
        BY HashMapHas DEF Exporter
      <4>3. exporters' \in [DOMAIN exporters \cup {e} -> Exporter]
        BY <4>1, <4>2
      <4>4. exporters' \in HashMap(Exports, Exporter)
        <5>1. DOMAIN exporters \cup {e} \in SUBSET Exports
          BY <4>2
        <5>2. QED
          BY <4>3, <5>1, HashMapOf
      <4>5. QED
        BY <3>1, <4>4 DEF Exports, Exporter
    <3>4. QED
      BY <3>2, <3>3
  <2>6. CASE AllBuilt
    BY <2>6 DEF AllBuilt, Exports
  <2>7. QED
    BY <2>1, <2>2, <2>3, <2>4, <2>5, <2>6 DEF Next
<1>3. QED
  BY <1>1, <1>2, ConfigInvariant, PTL DEF Spec

===============================================================================
