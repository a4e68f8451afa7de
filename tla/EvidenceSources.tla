---- MODULE EvidenceSources ----
(***************************************************************************)
(* The sources of evidence of a command and their composition              *)
(* (orchestration/sources.py, reconciliation/sources.py), while the        *)
(* producers of OpenLineage events go on writing them: in any order, and   *)
(* perhaps more than once.                                                 *)
(*                                                                         *)
(* A command that reconciles takes a source's observations and then, read  *)
(* again, its graph, whose objects are the known ones; `impact` takes and  *)
(* composes the graphs alone.  An OpenLineage source is a file of events;  *)
(* what other sources say is given.  The configuration orders the sources. *)
(* First the command finds the providers installed, and selects the        *)
(* sources whose provider is capable of what it wants of them.             *)
(***************************************************************************)
EXTENDS LineageEvents, Providers

CONSTANTS
    Scenarios,     \* of what is installed, the sources, the events that may be written, the rules
    Files,         \* the OpenLineage sources
    MaxEvents      \* bound on the events written

ASSUME SourcesAssumption ==
    /\ MaxEvents \in Nat
    /\ \A s \in Scenarios :
          DOMAIN s.given \cap Files = {} /\ s.configured \subseteq Files \cup DOMAIN s.given

VARIABLES
    scenario,      \* packages, configured and given sources, the events to write, the rules
    purpose,       \* of the command
    file,          \* the events in each file
    pc,            \* what the command does next
    registry,      \* the providers found
    source,        \* the source it is at, and whether it gave its observations
    pending,       \* the sources left
    todo,          \* the events of the file still to map
    read,          \* what the mapper read of them
    evidence,      \* the observations, and the nodes and edges, gathered
    report,        \* the conflict report
    said           \* what each reading found in a file (history)

vars == <<scenario, purpose, file, pc, registry, source, pending, todo, read, evidence, report, said>>

NoSource == [at |-> "none", observed |-> FALSE]
NoEvidence == [observations |-> {}, nodes |-> {}, edges |-> {}]
NoReport == [key \in {} |-> NoRule]

Init ==
    /\ scenario \in Scenarios /\ purpose \in {"reconcile", "impact"}
    /\ file = [f \in Files |-> <<>>]
    /\ pc = "resolve" /\ registry = NoRegistry /\ pending = {}
    /\ source = NoSource /\ todo = <<>> /\ read = NothingRead
    /\ evidence = NoEvidence /\ report = NoReport /\ said = {}

Written == FoldFunction(LAMBDA events, n : Len(events) + n, 0, file)

\* A producer writes an event, perhaps once more.  The mapper works on what it
\* has loaded: a write while it maps is one before the next load.
WriteEvent(f, event) ==
    /\ Written < MaxEvents /\ pc \in {"choose", "load"} /\ pending # {}
    /\ file' = [file EXCEPT ![f] = Append(@, event)]
    /\ UNCHANGED <<scenario, registry, purpose, pc, source, pending, todo, read, evidence, report, said>>

Fail == pc' = "failed"

\* What a source's provider has, of what there is.
ProviderOf(s) == IF s \in Files THEN "openlineage" ELSE scenario.given[s].provider
Has(providers, s, capability) ==
    LET p == ProviderOf(s)
    IN  p \in DOMAIN providers /\ capability \in providers[p].capabilities
Wanted == IF purpose = "impact" THEN "graph" ELSE "observations"

\* load_operation_runtime: all packages are loaded and registered, and every
\* configured source finds its provider, or the command fails before it reads
\* anything.  Sources whose provider lacks the capability are left out.
ResolveProviders(packages) ==
    /\ pc = "resolve"
    /\ registry' = RegistryOf(packages)
    /\ LET providers == registry'.providers
           selected == {s \in scenario.configured : Has(providers, s, Wanted)}
       IN  IF \/ registry'.refused
              \/ \E s \in scenario.configured : ProviderOf(s) \notin DOMAIN providers
              \/ purpose = "impact" /\ selected = {}
           THEN Fail /\ UNCHANGED pending
           ELSE pending' = selected /\ pc' = "choose"
    /\ UNCHANGED <<scenario, purpose, file, source, todo, read, evidence, report, said>>

GatherObservations(observations) ==
    evidence' = [evidence EXCEPT !.observations = @ \cup observations]
GatherGraph(graph) ==
    evidence' = [evidence EXCEPT !.nodes = @ \cup graph.nodes, !.edges = @ \cup graph.edges]
SourceDone ==
    /\ pending' = pending \ {source.at}
    /\ source' = NoSource
    /\ pc' = "choose"

\* run_reconciliation_sources and run_impact_graph: the next source, in the
\* order configured.
ChooseSource(s) ==
    /\ pc = "choose" /\ s \in pending
    /\ source' = [at |-> s, observed |-> purpose = "impact"]
    /\ pc' = "load"
    /\ UNCHANGED <<scenario, registry, purpose, file, pending, todo, read, evidence, report, said>>

\* A source that is not of events; its graph is read if there is one.
LoadGiven ==
    /\ pc = "load" /\ source.at \in DOMAIN scenario.given
    /\ scenario.given[source.at].intact
    /\ LET given == scenario.given[source.at]
           graph == IF Has(registry.providers, source.at, "graph") THEN given ELSE NoEvidence
       IN  evidence' = [observations |-> evidence.observations \cup
                            (IF source.observed THEN {} ELSE given.observations),
                        nodes |-> evidence.nodes \cup graph.nodes,
                        edges |-> evidence.edges \cup graph.edges]
    /\ SourceDone
    /\ UNCHANGED <<scenario, registry, purpose, file, todo, read, report, said>>

GivenFails ==
    /\ pc = "load" /\ source.at \in DOMAIN scenario.given
    /\ ~scenario.given[source.at].intact
    /\ Fail
    /\ UNCHANGED <<scenario, registry, purpose, file, source, pending, todo, read, evidence, report, said>>

\* load_openlineage_events: a file that is not valid is refused.
LoadEvents ==
    /\ pc = "load" /\ source.at \in Files
    /\ LET events == file[source.at]
       IN  /\ said' = said \cup {[of |-> source, events |-> events]}
           /\ IF \A n \in DOMAIN events : EventValid(events[n])
              THEN pc' = "map" /\ todo' = events /\ read' = NothingRead
              ELSE Fail /\ UNCHANGED <<todo, read>>
    /\ UNCHANGED <<scenario, registry, purpose, file, source, pending, evidence, report>>

\* A contradiction between two events refuses the source.
MapEvent(kind) ==
    /\ pc = "map" /\ todo # <<>> /\ Head(todo).kind = kind
    /\ read' = ReadEvent(read, Head(todo))
    /\ todo' = Tail(todo)
    /\ IF read'.agree THEN UNCHANGED pc ELSE Fail
    /\ UNCHANGED <<scenario, registry, purpose, file, source, pending, evidence, report, said>>

MapDatasetEvent == MapEvent("dataset")
MapJobEvent == MapEvent("job")
MapRunEvent == MapEvent("run")

GraphContradicts ==
    /\ pc = "map" /\ todo = <<>> /\ ~Mappable(read)
    /\ Fail
    /\ UNCHANGED <<scenario, registry, purpose, file, source, pending, todo, read, evidence, report, said>>

\* load_observations; load_graph then reads the file again.
GiveObservations ==
    /\ pc = "map" /\ todo = <<>> /\ Mappable(read) /\ ~source.observed
    /\ GatherObservations(MappedObservations(read))
    /\ source' = [source EXCEPT !.observed = TRUE]
    /\ pc' = "load" /\ read' = NothingRead
    /\ UNCHANGED <<scenario, registry, purpose, file, pending, todo, report, said>>

GiveGraph ==
    /\ pc = "map" /\ todo = <<>> /\ Mappable(read) /\ source.observed
    /\ GatherGraph(MappedGraph(read))
    /\ SourceDone /\ read' = NothingRead
    /\ UNCHANGED <<scenario, registry, purpose, file, todo, report, said>>

\* The sources' observations are merged, and the rules decide their conflicts.
Compose ==
    /\ pc = "choose" /\ pending = {} /\ purpose = "reconcile"
    /\ evidence' = [evidence EXCEPT !.observations = Normalised(@)]
    /\ report' = Conflicts(evidence'.observations, scenario.rules)
    /\ pc' = "done"
    /\ UNCHANGED <<scenario, registry, purpose, file, source, pending, todo, read, said>>

\* _compose_impact_graph: the graphs of all sources may contradict each other.
ComposeGraph ==
    /\ pc = "choose" /\ pending = {} /\ purpose = "impact"
    /\ IF Contradictory(evidence) THEN Fail /\ UNCHANGED evidence
       ELSE /\ evidence' = GraphOf(evidence) @@ evidence
            /\ pc' = "done"
    /\ UNCHANGED <<scenario, registry, purpose, file, source, pending, todo, read, report, said>>

Finished == pc \in {"done", "failed"} /\ UNCHANGED vars

Next ==
    \/ \E f \in Files, event \in scenario.events : WriteEvent(f, event)
    \/ \E packages \in SetToSeqs(scenario.packages) : ResolveProviders(packages)
    \/ \E s \in pending : ChooseSource(s)
    \/ LoadGiven \/ GivenFails \/ LoadEvents
    \/ MapDatasetEvent \/ MapJobEvent \/ MapRunEvent
    \/ GraphContradicts \/ GiveObservations \/ GiveGraph
    \/ Compose \/ ComposeGraph \/ Finished

Spec == Init /\ [][Next]_vars

-----------------------------------------------------------------------------
(* What a set of events says, whatever their order and number.             *)

SpokenOf(events) ==
    UNION {{[event |-> e, dataset |-> d] : d \in ToSet(Datasets(e))} : e \in events}
LineageOf(events) ==
    UNION {{[dataset |-> s.dataset, facet |-> l] : l \in ToSet(s.dataset.lineage)} :
              s \in SpokenOf(events)}
WhoAsserts(l) == FacetRecord(l.facet, l.dataset.key, "columnLineage")

\* All the observations of one facet of one dataset.
SaidOfFacet(events, key, name) ==
    {s.dataset.facets[name] : s \in {t \in SpokenOf(events) :
                                        t.dataset.key = key /\ name \in DOMAIN t.dataset.facets}}
Materials(events, key, name) ==
    {Material(name, f.content) : f \in SaidOfFacet(events, key, name)}

OfKind(events, kind) == {e \in events : e.kind = kind}
OfRun(events, run) == {e \in OfKind(events, "run") : e.run = run}

Consistent(events) ==
    /\ \A e \in events : EventValid(e)
    /\ \A s \in SpokenOf(events) : \A name \in DOMAIN s.dataset.facets \cap SupportedFacets :
          Cardinality(Materials(events, s.dataset.key, name)) = 1
    /\ \A e, f \in OfKind(events, "run") : e.run = f.run => e.job = f.job

DatasetSaid(events, key) ==
    LET spoken == {s \in SpokenOf(events) : s.dataset.key = key}
    IN  [records |-> {DatasetRecord(s.event, key) : s \in spoken}
                     \cup {WhoAsserts(l) : l \in {m \in LineageOf(events) :
                              key \in {f.input : f \in ToSet(m.facet.fields)}}},
         facets |-> [name \in {n \in SupportedFacets : SaidOfFacet(events, key, n) # {}} |->
                       [material |-> CHOOSE material \in Materials(events, key, name) : TRUE,
                        records |-> {FacetRecord(f, key, name) : f \in SaidOfFacet(events, key, name)}]]]

Said(events) ==
    LET lineage == LineageOf(events)
        asserted == UNION {Assertions(l.dataset, l.facet) : l \in lineage}
    IN  [datasets |-> [key \in {s.dataset.key : s \in SpokenOf(events)}
                               \cup {SubSeq(a, 4, 5) : a \in asserted} |-> DatasetSaid(events, key)],
         columns |-> [a \in asserted |-> {WhoAsserts(l) : l \in
                        {m \in lineage : a \in Assertions(m.dataset, m.facet)}}],
         runs |-> [run \in {e.run : e \in OfKind(events, "run")} |->
                    [job |-> (CHOOSE e \in OfRun(events, run) : TRUE).job,
                     inputs |-> UNION {Keys(e.inputs) : e \in OfRun(events, run)},
                     outputs |-> UNION {Keys(e.outputs) : e \in OfRun(events, run)},
                     records |-> {EdgeRecord(e) : e \in OfRun(events, run)}]],
         jobs |-> {Lineage(e) : e \in OfKind(events, "job")},
         agree |-> TRUE]

Acceptable(events) == Consistent(events) /\ Mappable(Said(events))

\* What is installed, and what the configured sources are therefore good for.
Installed == ToSet(BuiltIns) \cup scenario.packages
Usable ==
    /\ \A p \in Installed : p.loads /\ p.compatible
    /\ \A p, q \in Installed : p.provider = q.provider => p = q
    /\ \A s \in scenario.configured : \E p \in Installed : p.provider = ProviderOf(s)
Capable(capability) ==
    {s \in scenario.configured :
        \E p \in Installed : p.provider = ProviderOf(s) /\ capability \in p.capabilities}
SourcesRead == Capable(Wanted)

Given == {scenario.given[s] : s \in SourcesRead \ Files}
GivenGraphs == {scenario.given[s] : s \in (SourcesRead \cap Capable("graph")) \ Files}
FoundBy(observed) == {ToSet(s.events) : s \in {t \in said : t.of.observed = observed}}
GraphSaid ==
    Together({[observations |-> {}] @@ MappedGraph(Said(events)) : events \in FoundBy(TRUE)} \cup GivenGraphs)
ObservationsSaid ==
    MergedObservations({MappedObservations(Said(events)) : events \in FoundBy(FALSE)}
                       \cup {g.observations : g \in Given})

\* The evidence a command works with is what the events it read say as a set:
\* neither their order, nor an event written twice, nor the order of the
\* sources changes an observation, who it is owed to, a known object, a
\* verdict, or a dependency of the impact graph; and the command fails exactly
\* if what it read is invalid or contradicts itself, or if any package is of no
\* use, even one it does not need: it then reads nothing, and in whatever order
\* packages are found, no provider takes the place of another.
\* (map_openlineage_events_with_observations, run_reconciliation_sources,
\* run_impact_graph, analyze_property_conflicts and build_provider_registry.)
EvidenceIsWhatWasSaid ==
    /\ pc = "failed" => \/ ~Usable
                        \/ \E s \in said : ~Acceptable(ToSet(s.events))
                        \/ \E given \in Given : ~given.intact
                        \/ purpose = "impact" /\ (SourcesRead = {} \/ Contradictory(GraphSaid))
    /\ ~Usable => pc \in {"resolve", "failed"} /\ said = {} /\ evidence = NoEvidence
    /\ pc = "done" => /\ \A s \in said : Acceptable(ToSet(s.events))
                      /\ \A given \in Given : given.intact
                      /\ {s.of.at : s \in said} = SourcesRead \cap Files
    /\ pc = "done" /\ purpose = "reconcile" =>
        /\ evidence.observations = ObservationsSaid
        /\ Objects(evidence) = Objects(GraphSaid)
        /\ report = Conflicts(ObservationsSaid, scenario.rules)
    /\ pc = "done" /\ purpose = "impact" =>
        /\ evidence.nodes = GraphOf(GraphSaid).nodes
        /\ evidence.edges = GraphOf(GraphSaid).edges
====
