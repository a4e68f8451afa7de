---- MODULE MCHistoryStore ----
(***************************************************************************)
(* Three commands on one history, two snapshots, two observation           *)
(* documents and an authority file.                                        *)
(***************************************************************************)
EXTENDS HistoryStore

Object(id, kind, path, holder, props) ==
    [id |-> id, kind |-> kind, path |-> path, holder |-> holder, props |-> props, refs |-> <<>>]

Described(v) == [p \in {"/description"} |-> v]
Named(v) == [p \in {"/name", "/description"} |-> IF p = "/name" THEN v ELSE "none"]

SnapshotOf(database, objects) ==
    [system |-> "postgresql", scanner |-> "scan", contract |-> "supported",
     source |-> "src", database |-> database,
     objects |-> objects \cup
        {Object("ds", "data_source", <<>>, "", Named("src")),
         Object("db", "database", <<>>, "ds", Named(database)),
         Object("s", "schema", <<"s">>, "db", Described("none"))}]

TableObjects(table, column, description) ==
    {Object(table, "table", <<"s", "t">>, "s", Described(description)),
     Object(column, "column", <<"s", "t", "c">>, table, Described("none"))}

mcPlain == SnapshotOf("db1", TableObjects("t1", "c1", "u"))
mcRenamed == SnapshotOf("db2", TableObjects("t1", "c1", "u"))
mcEmpty == SnapshotOf("db1", {})
\* Two tables of one name: loaded, but not projected.
mcTwice == SnapshotOf("db1", TableObjects("t1", "c1", "u") \cup
    {Object("t2", "table", <<"s", "t">>, "s", Described("u")),
     Object("c2", "column", <<"s", "t", "d">>, "t2", Described("none"))})

Snapshot(s) == [kind |-> "snapshot", snapshot |-> s]
mcObject == [kind |-> "table", namespace |-> "n", name |-> "t"]
Seen(value, provider) ==
    Observation(mcObject, "/owner", value, {[provider |-> provider, ref |-> "r"]})
Observations(entries) ==
    [kind |-> "observations", ordered |-> TRUE, intact |-> TRUE, entries |-> entries]
Rules(provider) ==
    [kind |-> "authority",
     rules |-> {[id |-> "r1",
                 select |-> [kind |-> "table", property |-> "/owner", namespace |-> NotGiven],
                 target |-> [provider |-> provider, ref |-> NotGiven]]}]

mcOne == Observations({Seen("x", "dbt")})
mcTwo == Observations({Seen("x", "dbt"), Seen("y", "odcs")})

mcVersions ==
    [a |-> {Gone} \cup {Snapshot(s) : s \in {mcPlain, mcTwice}},
     b |-> {Snapshot(s) : s \in {mcEmpty, mcRenamed}},
     o |-> {mcOne, mcTwo}, q |-> {mcTwo},
     r |-> {Gone, Rules("dbt")}]

Request(snapshot, context, labels, aligned) ==
    [snapshot |-> snapshot, observations |-> context,
     authority |-> IF context = <<>> THEN <<>> ELSE <<"r">>, labels |-> labels,
     align |-> [source |-> FALSE, database |-> aligned]]

mcRequests == {Request("a", <<"q">>, "l", FALSE), Request("b", <<"o">>, "l", TRUE),
               Request("b", <<>>, "l", FALSE)}

mcArtifacts(a, b) ==
    [p \in Paths |-> CASE p = "a" -> Snapshot(a) [] p = "b" -> Snapshot(b)
                       [] p = "o" -> mcOne [] p = "q" -> mcTwo [] p = "r" -> Rules("dbt")]

\* The history of two additions, of the plain and of the empty snapshot.
mcEntry(request, snapshot, observations) ==
    [operator |-> Operator(request),
     state |-> [snapshot |-> snapshot, labels |-> request.labels,
                context |-> ContextOf("full", observations.entries,
                                      AuthorityOf(<<Rules("dbt")>>))]]

mcEarlier ==
    {[artifacts |-> mcArtifacts(mcTwice, mcRenamed), file |-> Absent, by |-> <<>>],
     [artifacts |-> mcArtifacts(mcPlain, mcEmpty),
      file |-> Whole([source |-> FALSE, database |-> TRUE],
        <<mcEntry(Request("a", <<"q">>, "l", FALSE), mcPlain, mcTwo),
          mcEntry(Request("b", <<"o">>, "l", TRUE), mcEmpty, mcOne)>>),
      by |-> <<"e1", "e2">>]}

mcSymmetry == Permutations(Commands)

mcDescription(output) ==
    [object |-> ObjectIdentity("table", <<"s", "t">>), governance |-> NoObject,
     property |-> "/description", output |-> output]

mcQueries ==
    {mcDescription(Nothing), mcDescription("b"),
     [object |-> NoIdentity, governance |-> mcObject, property |-> Nothing, output |-> Nothing]}
====
