---- MODULE MCEvidenceSources ----
(***************************************************************************)
(* Instances of EvidenceSources: two files of OpenLineage events and one   *)
(* contract.  Each scenario is a few events that belong together: those of *)
(* a run, the facets of a dataset, the lineage of its columns, two keys    *)
(* for one table, one list in two orders, and events that are refused.     *)
(* In others a catalogue of another package is a source, and what is       *)
(* installed varies: broken, for another SDK, twice, or not at all.        *)
(***************************************************************************)
EXTENDS EvidenceSources

MCNames == <<"a", "ann", "b", "bob", "pg", "s3", "x", "y", "z">>

A == <<"pg", "a">>
B == <<"pg", "b">>
Alias == <<"s3", "a">>

Facet(producer, content) ==
    [producer |-> producer, intact |-> TRUE, deleted |-> FALSE, content |-> content]
Deleted(facet) == [facet EXCEPT !.deleted = TRUE]
Dataset(key, facets) == [key |-> key, facets |-> facets, lineage |-> <<>>]
Plain(key) == Dataset(key, [name \in {} |-> NotGiven])

From(producer, fields) ==
    [producer |-> producer, intact |-> TRUE, supported |-> TRUE, deleted |-> FALSE, fields |-> fields]
Comes(output, input, column) == [output |-> output, input |-> input, column |-> column]
WithLineage(dataset, facet) == [dataset EXCEPT !.lineage = <<facet>>]

Event(kind, producer, run, job, inputs, outputs) ==
    [kind |-> kind, producer |-> producer, intact |-> TRUE, run |-> run, job |-> <<"etl", job>>,
     inputs |-> inputs, outputs |-> outputs]
RunEvent(producer, job, inputs, outputs) == Event("run", producer, "r1", job, inputs, outputs)
JobEvent(job, inputs, outputs) == Event("job", "airflow", "", job, inputs, outputs)
DatasetEvent(producer, dataset) == Event("dataset", producer, "", "", <<dataset>>, <<>>)

Field(path, type, description) ==
    [path |-> path, type |-> type, description |-> description, nested |-> FALSE]
Column(name) == Field(<<name>>, <<"INT">>, <<>>)
Group(name) == [Column(name) EXCEPT !.nested = TRUE]
Levels == <<<<"DATABASE", "db">>, <<"SCHEMA", "sales">>, <<"TABLE", "a">>>>
InTable(producer) == "hierarchy" :> Facet(producer, Levels)
Stored(producer, layer) == "storage" :> Facet(producer, "storage_layer" :> <<layer>>)
Schema(producer, fields) == "schema" :> Facet(producer, fields)
Owned(producer, owners) == "ownership" :> Facet(producer, owners)

OfARun == {RunEvent("spark", "load", <<Plain(A)>>, <<>>),
           RunEvent("flink", "load", <<>>, <<Dataset(B, Stored("flink", "delta"))>>),
           RunEvent("spark", "clean", <<Plain(A)>>, <<Plain(B)>>),
           JobEvent("load", <<Plain(Alias)>>, <<Plain(B)>>)}

OfADataset == {DatasetEvent("spark", Dataset(A, Stored("spark", "delta"))),
               DatasetEvent("flink", Dataset(A, Stored("flink", "iceberg"))),
               DatasetEvent("spark", Dataset(A, InTable("spark"))),
               DatasetEvent("spark", Dataset(A, "hierarchy" :> Facet("spark", <<<<"LAKE", "a">>>>)))}

OfColumns == {DatasetEvent("spark", WithLineage(Plain(B), From("spark", <<Comes("x", A, "y")>>))),
              DatasetEvent("flink", WithLineage(Plain(B),
                  From("flink", <<Comes("z", A, "y"), Comes("x", A, "y")>>))),
              DatasetEvent("spark", Dataset(A, Schema("spark", <<Column("y")>>))),
              DatasetEvent("flink", Dataset(A, Schema("flink", <<Group("y")>>))),
              RunEvent("spark", "load", <<Dataset(A, InTable("spark"))>>, <<Plain(B)>>)}

OfATable == {DatasetEvent("spark", Dataset(A, InTable("spark") @@ Schema("spark", <<Column("y")>>))),
             DatasetEvent("spark", Dataset(Alias, InTable("spark"))),
             DatasetEvent("flink", Dataset(Alias, InTable("flink") @@ Stored("flink", "delta"))),
             DatasetEvent("flink", Dataset(Alias, Schema("flink",
                 <<Field(<<"y">>, <<"INT">>, <<"described">>)>>)))}

InTwoOrders == {DatasetEvent("spark", Dataset(A, Owned("spark", <<"ann", "bob">>))),
                DatasetEvent("spark", Dataset(A, Owned("flink", <<"bob", "ann", "bob">>))),
                DatasetEvent("spark", Dataset(A, Schema("spark",
                    <<Group("y"), Field(<<"y", "z">>, <<>>, <<"nested">>), Column("x")>>))),
                DatasetEvent("flink", Dataset(A, Schema("flink",
                    <<Column("x"), Group("y"), Field(<<"y", "z">>, <<>>, <<"nested">>)>>)))}

Refused == {DatasetEvent("spark", Dataset(A, Stored("spark", "delta"))),
            DatasetEvent("spark", Dataset(A, "storage" :> Deleted(Facet("spark", "storage_layer" :> <<"delta">>)))),
            DatasetEvent("spark", Dataset(A, "custom" :> Deleted(Facet("spark", <<>>)))),
            DatasetEvent("spark", Dataset(A, Schema("spark", <<Column("x"), Column("x")>>))),
            DatasetEvent("spark", WithLineage(Plain(B),
                [From("spark", <<Comes("x", A, "y")>>) EXCEPT !.supported = FALSE]))}

\* The contract describes the table, and the column y of it, otherwise.
Contracted ==
    LET table == [n \in 1..3 |-> [namespace |-> "lake", kind |-> GraphKinds[n], name |-> <<Levels[4 - n][2]>>]]
        column == ColumnOf(table, <<"y">>)
        who == {[provider |-> "odcs", ref |-> "contract", about |-> <<>>]}
    IN  [provider |-> "odcs", intact |-> TRUE,
         observations |-> {Observation(Object(table), "name", <<"orders">>, who),
                           Observation(Object(column), "data_type", <<"BIGINT">>, who)},
         nodes |-> {Node(SubSeq(table, n, 3), table[n].name, <<>>, NoAttributes, who) : n \in 1..3},
         edges |-> {Inside(SubSeq(table, n, 3)) : n \in 1..2}]

Decides(kind, property, provider) ==
    [select |-> [kind |-> kind, property |-> property, namespace |-> NotGiven],
     target |-> [provider |-> provider, ref |-> NotGiven]]

Scenario(events, packages, configured, given) ==
    [events |-> events, packages |-> packages, configured |-> configured, given |-> given,
     rules |-> {Decides("table", "name", "odcs"), Decides("column", "data_type", "openlineage")}]

Package(dist, provider, capabilities) ==
    [dist |-> dist, provider |-> provider, loads |-> TRUE, compatible |-> TRUE,
     capabilities |-> capabilities]
Catalogue(capabilities) == Package("acme-catalogue", "acme", capabilities)
Both == Catalogue({"graph", "observations"})
MCPackages ==
    {{}, {Both}, {Catalogue({"graph"})}, {Catalogue({"observations"})}, {Catalogue({})},
     {Both, [Package("broken", "other", {}) EXCEPT !.loads = FALSE]},
     {Both, [Package("old", "other", {}) EXCEPT !.compatible = FALSE]},
     {Both, Package("fork", "acme", {"graph"})}, {Both, Package("aardvark", "odcs", {"graph"})},
     {Both, Package("other", "other", {}), [Package("broken", "zero", {}) EXCEPT !.loads = FALSE]}}

MCScenarios ==
    {Scenario(events, {}, Files \cup {"contract"}, "contract" :> Contracted) :
        events \in {OfARun, OfADataset, OfColumns, OfATable, InTwoOrders, Refused}}
    \cup {Scenario({RunEvent("spark", "load", <<Plain(A)>>, <<Plain(B)>>)}, packages, configured,
                   "acme" :> [Contracted EXCEPT !.provider = "acme", !.intact = intact]) :
        packages \in MCPackages, configured \in {{"acme"}, {"acme", "runs.json"}}, intact \in BOOLEAN}
====
