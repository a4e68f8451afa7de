---- MODULE LineageEvents ----
(***************************************************************************)
(* What OpenLineage events say (integrations/openlineage/*.py,             *)
(* domain/lineage.py): their validation, the state that the mapper keeps   *)
(* while it reads them, and the graph and the observations it builds from  *)
(* that state.  Operators without state.                                   *)
(*                                                                         *)
(* An event is of a run, a job or a dataset; the dataset of a dataset      *)
(* event is its only input.  A dataset has a key (namespace and name),     *)
(* facets, and perhaps the facet of its column lineage.  A name, a         *)
(* description, a type or the value of an attribute is a sequence of       *)
(* strings, empty where it is not given.                                   *)
(***************************************************************************)
EXTENDS Evidence, Functions, SequencesExt

CONSTANTS
    Namespace,     \* the namespace of the graph
    Names          \* the strings events may hold, in their order

LOCAL Graphs == INSTANCE Impact WITH NodeOrder <- <<>>

SupportedFacets == {"schema", "hierarchy", "datasetType", "storage", "ownership"}

\* The datasets an event speaks of.
Datasets(event) == event.inputs \o event.outputs
Keys(datasets) == {datasets[n].key : n \in DOMAIN datasets}

-----------------------------------------------------------------------------
(* Validation: all events, before any is mapped.                           *)

\* A schema facet lists its fields, each by its path from the dataset, and says of
\* each whether it has a list of fields of its own ("nested"), be it empty.
FieldsDiffer(fields) == \A m, n \in DOMAIN fields : fields[m].path = fields[n].path => m = n

FacetValid(name, facet) ==
    name \in SupportedFacets =>
        /\ facet.intact /\ ~facet.deleted
        /\ name = "schema" => FieldsDiffer(facet.content)

LineageValid(facet) == facet.intact /\ facet.supported /\ ~facet.deleted

DatasetValid(d) ==
    /\ \A name \in DOMAIN d.facets : FacetValid(name, d.facets[name])
    /\ \A n \in DOMAIN d.lineage : LineageValid(d.lineage[n])

EventValid(event) ==
    /\ event.intact
    /\ \A n \in DOMAIN Datasets(event) : DatasetValid(Datasets(event)[n])

-----------------------------------------------------------------------------
(* Who said it.                                                            *)

\* source_ref is the producer and what it speaks of.
Record(producer, about) == [provider |-> "openlineage", ref |-> producer, about |-> about]
DatasetRecord(event, key) == Record(event.producer, Append(key, event.kind))
FacetRecord(facet, key, name) == Record(facet.producer, Append(key, name))
EdgeRecord(event) == Record(event.producer, Append(event.job, event.kind))

-----------------------------------------------------------------------------
(* Reading the events.                                                     *)

RankOf(name) == CHOOSE n \in DOMAIN Names : Names[n] = name

\* What a facet says, whatever the order it says it in: an empty list of fields is
\* not the same as none.
Material(name, content) ==
    CASE name = "schema" -> ToSet(content)
      [] name = "ownership" ->
            SetToSortSeq(ToSet(content), LAMBDA a, b : RankOf(a) < RankOf(b))
      [] OTHER -> content

Unseen == [records |-> {}, facets |-> [name \in {} |-> {}]]
Seen(datasets, key) == IF key \in DOMAIN datasets THEN datasets[key] ELSE Unseen

NothingRead == [datasets |-> [key \in {} |-> Unseen],   \* by key: who and what
                columns |-> [key \in {} |-> {}],        \* by assertion: who made it
                runs |-> [run \in {} |-> {}],           \* by run: job, inputs, outputs, who
                jobs |-> {},                            \* the job events
                agree |-> TRUE]                         \* nothing was contradicted

\* columnLineage: a column of a dataset comes from one of another.
Assertions(d, facet) ==
    {d.key \o <<f.output>> \o f.input \o <<f.column>> : f \in ToSet(facet.fields)}

\* _ingest_column_lineage_facet: the inputs become known, too.
ReadLineage(read, d) ==
    IF d.lineage = <<>> THEN read
    ELSE LET facet == d.lineage[1]
             who == {FacetRecord(facet, d.key, "columnLineage")}
             said == Assertions(d, facet)
             inputs == {SubSeq(a, 4, 5) : a \in said}
         IN  [read EXCEPT
                !.columns = [a \in DOMAIN read.columns \cup said |->
                                (IF a \in DOMAIN read.columns THEN read.columns[a] ELSE {})
                                    \cup (IF a \in said THEN who ELSE {})],
                !.datasets = [key \in DOMAIN read.datasets \cup inputs |->
                                [Seen(read.datasets, key) EXCEPT
                                    !.records = @ \cup (IF key \in inputs THEN who ELSE {})]]]

\* A facet is what its first observation says; another may only repeat it.
MergedFacets(known, said) ==
    [name \in DOMAIN known \cup DOMAIN said |->
        IF name \notin DOMAIN said THEN known[name]
        ELSE IF name \notin DOMAIN known THEN said[name]
        ELSE [known[name] EXCEPT !.records = @ \cup said[name].records]]

\* _merge_dataset_observation.
ReadDataset(read, event, d) ==
    LET known == Seen(read.datasets, d.key)
        said == [name \in DOMAIN d.facets \cap SupportedFacets |->
                    [material |-> Material(name, d.facets[name].content),
                     records |-> {FacetRecord(d.facets[name], d.key, name)}]]
        merged == [records |-> known.records \cup {DatasetRecord(event, d.key)},
                   facets |-> MergedFacets(known.facets, said)]
    IN  ReadLineage([read EXCEPT
            !.datasets = (d.key :> merged) @@ @,
            !.agree = @ /\ \A name \in DOMAIN said \cap DOMAIN known.facets :
                               said[name].material = known.facets[name].material], d)

ReadDatasets(read, event) ==
    FoldLeft(LAMBDA r, d : ReadDataset(r, event, d), read, Datasets(event))

Lineage(event) ==
    [inputs |-> Keys(event.inputs), outputs |-> Keys(event.outputs), records |-> {EdgeRecord(event)}]

LatestOfRun(known, event) ==        \* mutant: an event replaces those before it
    [known EXCEPT !.inputs = Lineage(event).inputs, !.outputs = Lineage(event).outputs]

\* The events of a run add up.
RunSoFar(known, event) ==
    LET new == Lineage(event)
    IN  [job |-> known.job, inputs |-> known.inputs \cup new.inputs,
         outputs |-> known.outputs \cup new.outputs, records |-> known.records \cup new.records]

ReadRunEvent(read, event) ==
    LET known == IF event.run \in DOMAIN read.runs THEN read.runs[event.run]
                 ELSE [job |-> event.job, inputs |-> {}, outputs |-> {}, records |-> {}]
    IN  [ReadDatasets(read, event) EXCEPT
            !.runs = (event.run :> RunSoFar(known, event)) @@ @,
            !.agree = @ /\ known.job = event.job]

ReadJobEvent(read, event) == [ReadDatasets(read, event) EXCEPT !.jobs = @ \cup {Lineage(event)}]

ReadEvent(read, event) ==
    CASE event.kind = "dataset" -> ReadDatasets(read, event)
      [] event.kind = "job"     -> ReadJobEvent(read, event)
      [] event.kind = "run"     -> ReadRunEvent(read, event)

-----------------------------------------------------------------------------
(* The graph and the observations.                                         *)

HierarchyKinds == <<"DATABASE", "SCHEMA", "TABLE">>
GraphKinds == <<"table", "dataset", "data_source">>

\* A hierarchy lists its levels, each a kind and a name.
InDatabase(dataset) ==
    /\ "hierarchy" \in DOMAIN dataset.facets
    /\ LET levels == dataset.facets["hierarchy"].material
       IN  Len(levels) = 3 /\ \A n \in 1..3 : levels[n][1] = HierarchyKinds[n]

\* A table of a database, or a dataset by its key.
IdentityOf(read, key) ==
    LET dataset == read.datasets[key]
    IN  IF InDatabase(dataset)
        THEN [n \in 1..3 |-> Graphs!Level(Namespace, GraphKinds[n],
                                <<dataset.facets["hierarchy"].material[4 - n][2]>>)]
        ELSE <<Graphs!Level(Namespace, "dataset", key)>>

ColumnOf(parent, path) ==
    [n \in DOMAIN path |-> Graphs!Level(Namespace, "column", <<path[Len(path) + 1 - n]>>)] \o parent

Node(i, name, description, attributes, records) ==
    [identity |-> i, records |-> records,
     payload |-> [name |-> name, description |-> description, attributes |-> attributes]]
NoAttributes == [a \in {} |-> <<>>]

Edge(source, kind, target, records) ==
    [source |-> source, kind |-> kind, target |-> target, payload |-> <<>>, records |-> records]
Inside(i) == Edge(Tail(i), "contains", i, {})

\* A property of a node as each of the records saw it.
Object(i) == [kind |-> i[1].kind, namespace |-> i[1].namespace, identity |-> i]
SeenBy(records, i, property, value) ==
    {Observation(Object(i), property, value, {r}) : r \in records}

AttributesOf(name, facet, physical) ==
    CASE name \in {"datasetType", "storage"} -> facet.material
      [] name = "ownership" -> "ownership" :> facet.material
      [] name = "hierarchy" /\ ~physical -> "hierarchy" :> FlattenSeq(facet.material)
      [] OTHER -> NoAttributes

DatasetPart(read, key) ==
    LET dataset == read.datasets[key]
        i == IdentityOf(read, key)
        physical == InDatabase(dataset)
        facets == DOMAIN dataset.facets
        Of(name) == AttributesOf(name, dataset.facets[name], physical)
        attributes == [a \in UNION {DOMAIN Of(name) : name \in facets} |->
                          LET name == CHOOSE f \in facets : a \in DOMAIN Of(f) IN Of(name)[a]]
        title == IF physical THEN i[1].name ELSE Tail(key)
        everyone == dataset.records \cup UNION {dataset.facets[name].records : name \in facets}
    IN  [nodes |-> {Node(i, title, <<>>, attributes, everyone)}
                   \cup {Node(SubSeq(i, n, 3), i[n].name, <<>>, NoAttributes, {}) :
                            n \in IF physical THEN {2, 3} ELSE {}},
         edges |-> {Inside(SubSeq(i, n, 3)) : n \in IF physical THEN {1, 2} ELSE {}},
         observations |->
            SeenBy(IF physical THEN dataset.facets["hierarchy"].records ELSE dataset.records,
                   i, "name", title)
            \cup UNION {UNION {SeenBy(dataset.facets[name].records, i, a, Of(name)[a]) :
                                  a \in DOMAIN Of(name)} : name \in facets}]

\* A field of a schema facet is a column of the dataset or of another field.
FieldPart(parent, field, records) ==
    LET i == ColumnOf(parent, field.path)
        attributes == [a \in IF field.type = <<>> THEN {} ELSE {"data_type"} |-> field.type]
    IN  [nodes |-> {Node(i, i[1].name, field.description, attributes, records)},
         edges |-> {Inside(i)},
         observations |->
            SeenBy(records, i, "name", i[1].name)
            \cup (IF field.description = <<>> THEN {}
                  ELSE SeenBy(records, i, "description", field.description))
            \cup UNION {SeenBy(records, i, a, attributes[a]) : a \in DOMAIN attributes}]

Together(parts) ==
    [nodes |-> UNION {p.nodes : p \in parts}, edges |-> UNION {p.edges : p \in parts},
     observations |-> UNION {p.observations : p \in parts}]

FieldParts(read, key) ==
    LET facets == read.datasets[key].facets
    IN  IF "schema" \notin DOMAIN facets THEN {}
        ELSE {FieldPart(IdentityOf(read, key), field, facets["schema"].records) :
                field \in facets["schema"].material}

\* _ensure_lineage_column: one no schema names is observed by who first names it.
WithColumn(part, i, records) ==
    LET known == {n \in part.nodes : n.identity = i}
        bare == Node(i, i[1].name, <<>>, NoAttributes, records)
    IN  IF known = {}
        THEN Together({part, [nodes |-> {bare}, edges |-> {Inside(i)},
                              observations |-> SeenBy(records, i, "name", i[1].name)]})
        ELSE [part EXCEPT !.nodes =
                @ \cup {[(CHOOSE n \in known : TRUE) EXCEPT !.records = @ \cup records]}]

AssertionBefore(a, b) ==
    LET Ranks(s) == [n \in DOMAIN s |-> RankOf(s[n])]
    IN  Graphs!KeyBefore(Ranks(a), Ranks(b))

WithAssertion(part, read, a) ==
    LET output == ColumnOf(IdentityOf(read, SubSeq(a, 1, 2)), <<a[3]>>)
        input == ColumnOf(IdentityOf(read, SubSeq(a, 4, 5)), <<a[6]>>)
        both == WithColumn(WithColumn(part, output, read.columns[a]), input, read.columns[a])
    IN  [both EXCEPT !.edges = @ \cup {Edge(output, "depends_on", input, read.columns[a])}]

\* What a run or a job writes depends on all it reads.
LineageEdges(read, lineage) ==
    {Edge(IdentityOf(read, o), "depends_on", IdentityOf(read, i), lineage.records) :
        o \in lineage.outputs, i \in lineage.inputs}

Parts(read) ==
    LET keys == DOMAIN read.datasets
        mapped == Together({DatasetPart(read, key) : key \in keys}
                           \cup UNION {FieldParts(read, key) : key \in keys})
        assertions == SetToSortSeq(DOMAIN read.columns, AssertionBefore)
        columns == FoldLeft(LAMBDA part, a : WithAssertion(part, read, a), mapped, assertions)
    IN  [columns EXCEPT !.edges = @ \cup UNION {LineageEdges(read, lineage) :
                                                    lineage \in Range(read.runs) \cup read.jobs}]

\* GovernanceGraph.from_parts: said twice is said once, by all who said it.
Contradictory(part) == ~Graphs!GraphBuilds(part.nodes, part.edges)

GraphOf(part) ==
    [nodes |-> {[n EXCEPT !.records = UNION {m.records :
                    m \in {o \in part.nodes : o.identity = n.identity}}] : n \in part.nodes},
     edges |-> {[e EXCEPT !.records = UNION {f.records :
                    f \in {g \in part.edges : Graphs!EdgeKey(g) = Graphs!EdgeKey(e)}}] :
                    e \in part.edges}]

Objects(graph) == {n.identity : n \in graph.nodes}

Mappable(read) == ~Contradictory(Parts(read))
MappedGraph(read) == GraphOf(Parts(read))
MappedObservations(read) == Normalised(Parts(read).observations)
====
