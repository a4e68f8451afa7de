---- MODULE MCGitHubAction ----
(***************************************************************************)
(* Two workflow runs.  The scenarios: inputs that change under a run, the  *)
(* review of snapshots and of a comparison another run has written, the    *)
(* review of observations, graphs and their changed nodes, and comments.   *)
(***************************************************************************)
EXTENDS GitHubAction

CONSTANTS r1, r2

\* Snapshots: ids are names from the data source down.
Props(pairs) == [p \in {x[1] : x \in pairs} |-> (CHOOSE x \in pairs : x[1] = p)[2]]
Object(kind, path, id, props, refs) ==
    [id |-> id, kind |-> kind, path |-> path, holder |-> SubSeq(id, 1, Len(id) - 1),
     props |-> Props(props), refs |-> refs]
At1(name) == <<"src", "db", "s", name>>
Table(name, description) ==
    Object("table", <<"s", name>>, At1(name),
           {<<"/description", description>>, <<"/ownership", "team">>}, <<>>)
mcColumnRest == {<<"/ordinal_position", 1>>, <<"/nullable", TRUE>>, <<"/description", NoText>>}
Column(table, name, type) ==
    Object("column", <<"s", table, name>>, Append(At1(table), name),
           {<<"/data_type", type>>} \cup mcColumnRest, <<>>)
Tagged(table, name) ==
    Object("column", <<"s", table, name>>, Append(At1(table), name),
           {<<"/data_type", "int">>, <<TechnicalAttribute, "x">>} \cup mcColumnRest, <<>>)
ForeignKey(table, column) ==
    Object("foreign_key", <<"s", "t", "fk">>, Append(At1("t"), "fk"), {},
           [p \in {"/column_ids", "/referenced_table_id", "/referenced_column_ids"} |->
               CASE p = "/column_ids" -> <<Append(At1("t"), "c")>>
                 [] p = "/referenced_table_id" -> <<At1(table)>>
                 [] p = "/referenced_column_ids" -> <<Append(At1(table), column)>>])
Relationship(key) ==
    Object("relationship", <<"s", "t", "rel">>, Append(At1("t"), "rel"),
           {<<"/description", NoText>>},
           [p \in {"/to_table_id", "/foreign_key_id"} |->
               IF p = "/to_table_id" THEN <<At1("u")>> ELSE key])
mcKey == <<Append(At1("t"), "fk")>>

mcNoTexts == {<<"/description", NoText>>, <<"/ownership", NoText>>}
Snapshot(database, objects) ==
    [system |-> "postgresql", scanner |-> "scan", contract |-> "supported",
     source |-> "src", database |-> database,
     objects |-> objects \cup
        {Object("data_source", <<>>, <<"src">>, {<<"/name", "src">>} \cup mcNoTexts, <<>>),
         Object("database", <<>>, <<"src", "db">>, {<<"/name", database>>} \cup mcNoTexts, <<>>),
         Object("schema", <<"s">>, <<"src", "db", "s">>, mcNoTexts, <<>>)}]

mcTables(description) ==
    {Table("t", description), Column("t", "c", "int"), Column("t", "d", "int"),
     Table("u", "text"), Column("u", "e", "int"), Column("u", "f", "int")}

mcNone == Snapshot("db", {})
mcFull == Snapshot("db", mcTables("text") \cup {ForeignKey("u", "e"), Relationship(mcKey)})
mcSnapshots ==
    <<mcFull,
     Snapshot("db", mcTables("text")),
     Snapshot("db", mcTables("other") \cup {ForeignKey("u", "f"), Relationship(<<>>)}),
     Snapshot("db", mcTables("text") \cup {ForeignKey("t", "d"), Relationship(<<>>)}),
     Snapshot("db", {Table("t", "text"), Column("t", "c", "text"), Tagged("t", "d")}),
     Snapshot("dbx", mcTables("text") \cup {ForeignKey("u", "e"), Relationship(mcKey)}),
     \* not comparable: a table without a column, two columns of one name
     Snapshot("db", {Table("t", "text")}),
     Snapshot("db", mcTables("text") \cup
         {Object("column", <<"s", "t", "c">>, Append(At1("t"), "cc"),
                 {<<"/data_type", "int">>} \cup mcColumnRest, <<>>)})>>

\* Policies.
Policy(id, severity, rule, kind, prefix) ==
    [id |-> id, severity |-> severity, rule |-> rule,
     select |-> [kind |-> kind, id |-> <<>>, prefix |-> prefix]]
PolicyFile(policies) == [kind |-> "policies", policies |-> policies]
mcDescribed(severity) == Policy("described", severity, "require_description", "table", <<>>)
mcRelated == Policy("related", "warning", "require_relationship", "table", At1("t"))
mcColumns == Policy("columns", "error", "require_owner", "column", <<>>)

Config(ok, version) == [ok |-> ok, version |-> version]

\* Observations and authority rules.
Seen(kind, property, value, provider) ==
    Observation([kind |-> kind, namespace |-> "src", name |-> "t"], property, value,
                {[provider |-> provider, ref |-> "r"]})
Observations(entries) ==
    [kind |-> "observations", ordered |-> TRUE, intact |-> TRUE, entries |-> entries]
Authority(property, namespace, provider) ==
    [id |-> <<namespace, provider>>,
     select |-> [kind |-> "table", property |-> property, namespace |-> namespace],
     target |-> [provider |-> provider, ref |-> NotGiven]]
AuthorityFile(rules) == [kind |-> "authority", rules |-> rules]
\* Two files whose rules decide the same differently: they do not load.
mcUndecided ==
    <<AuthorityFile({Authority("/description", "src", "dbt")}),
      AuthorityFile({Authority("/description", "src", "odcs")})>>

\* Graphs.
NS == "src"
mcSource == <<Level(NS, "data_source", "src")>>
mcDataset == <<Level(NS, "dataset", "db")>> \o mcSource
mcTable(name) == <<Level(NS, "table", name)>> \o mcDataset
mcColumn == <<Level(NS, "column", "c")>> \o mcTable("t")
mcJob == <<Level("jobs", "transformation", "j")>>
mcContract == <<Level("odcs", "contract", "k")>>
mcNodeOrder == <<mcColumn, mcContract, mcSource, mcDataset, mcTable("t"), mcTable("u"), mcJob>>

Node(i) == [identity |-> i, payload |-> "p"]
Edge(source, kind, target) == [source |-> source, kind |-> kind, target |-> target, payload |-> "p"]
mcEdges == {Edge(mcTable("u"), "depends_on", mcTable("t")), Edge(mcJob, "depends_on", mcTable("t")),
            Edge(mcTable("u"), "depends_on", mcJob), Edge(mcJob, "depends_on", mcTable("u")),
            Edge(mcContract, "governs", mcTable("t")), Edge(mcTable("t"), "contains", mcColumn),
            Edge(mcContract, "governs", mcTable("u"))}
mcIgnored == Edge(mcColumn, "documents", mcJob)
mcNodes == {Node(mcNodeOrder[n]) : n \in DOMAIN mcNodeOrder}

-----------------------------------------------------------------------------
(* The worlds by name.                                                     *)

mcNothingSeen == Observations({})
World ==
    [config |-> Config(TRUE, 1), policies |-> <<PolicyFile({mcDescribed("error"), mcRelated})>>,
     snapshot |-> mcNone, sources |-> <<[nodes |-> {}, edges |-> {}]>>, changed |-> {mcTable("t")},
     observations |-> mcNothingSeen, authority |-> <<>>, baseline |-> mcNone,
     candidate |-> mcNone, drift_policy |-> {}]

mcOf(snapshot) == [World EXCEPT !.snapshot = snapshot]
mcChecked == mcOf(Snapshot("db", {Table("t", "text"), Column("t", "c", "int")}))
mcUndescribed == mcOf(Snapshot("db", {Table("t", NoText), Column("t", "c", "int")}))

\* What validate, check and plan may find.
mcInputs ==
    [fine          |-> mcChecked,
     undescribed   |-> mcUndescribed,
     warned        |-> [mcUndescribed EXCEPT !.policies = <<PolicyFile({mcDescribed("warning")})>>],
     moved         |-> mcOf(Snapshot("db", {Table("t", "text"), Column("t", "d", "int")})),
     other_config  |-> [mcChecked EXCEPT !.config = Config(TRUE, 2)],
     bad_config    |-> [mcChecked EXCEPT !.config = Config(FALSE, 1)],
     bad_authority |-> [mcChecked EXCEPT !.authority = mcUndecided],
     bad_policies  |-> [mcChecked EXCEPT !.policies = <<PolicyFile({mcColumns})>>],
     twice         |-> [mcChecked EXCEPT !.policies = <<PolicyFile({mcDescribed("error")}),
                                                        PolicyFile({mcDescribed("error")})>>]]

\* Rules that expect every difference, by name or by its values, and one that
\* expects another value.
Rule(d, expected) ==
    [id |-> <<d.change, d.object, d.property>>, change |-> d.change, object |-> d.object,
     property |-> d.property, expected |-> expected]
Exactly(d) ==
    IF d.change = "changed" /\ d.baseline # Missing
    THEN [baseline |-> <<d.baseline>>, candidate |-> <<d.candidate>>] ELSE PresenceOnly
Otherwise(d) ==
    IF d.change = "changed" THEN [baseline |-> <<>>, candidate |-> <<d.baseline>>] ELSE PresenceOnly
mcDriftPolicy(b, c, style) ==
    LET differences == Differences([changes |-> ObjectChanges(Projection(b), Projection(c))])
    IN  CASE style = "empty"     -> {}
          [] style = "exact"     -> {Rule(d, Exactly(d)) : d \in differences}
          [] style = "otherwise" -> {Rule(d, Otherwise(d)) : d \in differences}
          [] style = "ambiguous" -> {Rule(d, PresenceOnly) : d \in differences} \cup
                {[Rule(d, Exactly(d)) EXCEPT !.id = <<"more", d.object, d.property>>] :
                    d \in differences}
          [] style = "some"      -> LET one == CHOOSE d \in differences : TRUE
                                    IN  {Rule(d, PresenceOnly) : d \in differences \ {one}}

mcStyles == {"empty", "exact", "otherwise", "ambiguous", "some"}
\* Pairs with the full snapshot, and some that differ in their foreign keys.
mcPairs == {<<b, c>> \in (DOMAIN mcSnapshots) \X (DOMAIN mcSnapshots) :
                1 \in {b, c} \/ <<b, c>> \in {<<3, 4>>, <<4, 3>>, <<6, 4>>}}

mcCompared(b, c, style) ==
    [World EXCEPT !.baseline = b, !.candidate = c,
        !.drift_policy = IF Projects(b) /\ Projects(c) /\ b # c
                         THEN mcDriftPolicy(b, c, style) ELSE {}]

mcDocuments ==
    {mcNothingSeen,
     Observations({Seen("table", "/description", "x", "dbt")}),
     Observations({Seen("table", "/description", "x", "dbt"), Seen("table", "/description", "y", "odcs")}),
     Observations({Seen("table", "/name", Blank, "dbt"), Seen("table", "/description", Blank, "odcs")}),
     Observations({Seen("table", "/description", "x", "dbt"),
                   Seen("table", "/description", Structured, "odcs")}),
     Observations({Seen("table", "/tags", "x", "dbt"), Seen("table", "/tags", "y", "odcs")}),
     [mcNothingSeen EXCEPT !.intact = FALSE]}
mcAuthorities ==
    {<<>>, <<AuthorityFile({Authority("/description", NotGiven, "dbt")})>>,
     <<AuthorityFile({Authority("/description", NotGiven, "dbt"),
                      Authority("/description", "src", "odcs")})>>,
     <<AuthorityFile({Authority("/description", "src", "openlineage")})>>,
     mcUndecided}

mcEvidence ==
    {[World EXCEPT !.observations = document, !.authority = authority] :
        document \in mcDocuments, authority \in mcAuthorities}

mcGraphs ==
    {[World EXCEPT !.changed = changed,
                   !.sources = <<[nodes |-> mcNodes, edges |-> edges \cup {mcIgnored}]>>] :
        edges \in SUBSET mcEdges, changed \in {{mcTable("t")}, {mcContract, mcTable("u")}}}

\* Graphs that do not build: an edge's or a parent's node is missing, two sources
\* contradict each other, the changed node is not there.  And one that would, in a
\* project whose authority rules do not load.
mcBadGraphs ==
    {[World EXCEPT !.sources = sources] :
        sources \in {<<[nodes |-> {Node(mcColumn)}, edges |-> {}]>>,
                     <<[nodes |-> mcNodes, edges |-> {}],
                       [nodes |-> {[Node(mcJob) EXCEPT !.payload = "q"]}, edges |-> {}]>>,
                     <<[nodes |-> {Node(mcJob)}, edges |-> {}]>>}}
    \cup {[World EXCEPT !.sources = <<[nodes |-> mcNodes, edges |-> {}]>>,
                         !.authority = mcUndecided]}

-----------------------------------------------------------------------------
(* The scenarios.                                                          *)

Request(op) ==
    [op |-> op, configured |-> TRUE, collides |-> FALSE, failOn |-> TRUE, comment |-> "disabled"]
Review(observations, snapshots, comparison, policy) ==
    [op |-> "review", configured |-> observations, collides |-> FALSE, failOn |-> TRUE,
     comment |-> "disabled", comparison |-> comparison, baseline |-> snapshots,
     candidate |-> snapshots, align |-> [source |-> FALSE, database |-> FALSE],
     observations |-> observations, policy |-> policy]

Only(requests) == [r \in {r1, r2} |-> IF r = r1 THEN requests ELSE {}]

Scenario(start, versions, requests, faults) ==
    [world |-> start, comments |-> <<>>,
     may |-> [versions |-> versions, requests |-> requests, discussed |-> FALSE,
             faults |-> faults]]

mcOperations ==
    {[Request(op) EXCEPT !.failOn = failOn] : op \in {"validate", "check", "plan"},
                                              failOn \in BOOLEAN}
    \cup {[Request("plan") EXCEPT !.collides = TRUE], [Request("check") EXCEPT !.configured = FALSE]}

mcChangingInputs ==
    {Scenario(start, Range(mcInputs), Only(mcOperations), 2) : start \in {mcChecked, mcUndescribed}}

Renamed(q) == [q EXCEPT !.align.database = TRUE]
mcReviews ==
    [r \in {r1, r2} |->
        IF r = r1 THEN {Renamed(Review(FALSE, TRUE, Nowhere, TRUE)), Review(FALSE, TRUE, Nowhere, FALSE)}
        ELSE {Review(FALSE, FALSE, r1, TRUE)}]

\* The policy is the same for both reviews, or another by the time of the second.
mcSavedComparisons ==
    {Scenario(mcCompared(n[1], n[2], n[3]), {mcCompared(n[1], n[2], "exact")}, mcReviews, 1) :
        n \in {<<mcSnapshots[pair[1]], mcSnapshots[pair[2]], style>> :
                pair \in mcPairs, style \in mcStyles}}

mcLanes ==
    {Scenario(seen, {World},
        Only({Review(TRUE, FALSE, Nowhere, FALSE),
              [Review(TRUE, TRUE, Nowhere, FALSE) EXCEPT !.failOn = FALSE],
              [Review(TRUE, FALSE, Nowhere, FALSE) EXCEPT !.configured = FALSE],
              Review(FALSE, FALSE, Nowhere, FALSE)}), 1) : seen \in mcEvidence}

mcImpacts ==
    {Scenario(graph, {}, Only({Request("impact"), [Request("impact") EXCEPT !.configured = FALSE]}),
              1) :
        graph \in mcGraphs \cup mcBadGraphs}

By(who) == Comment(who, who = "earlier")
mcEarlierComments ==
    {<<>>, <<By("earlier")>>,
     <<By("other"), By("other"), By("earlier")>>,
     <<By("other"), By("other"), By("other"), By("other"), By("earlier")>>}
mcPublishers ==
    [r \in {r1, r2} |->
        {[Request("validate") EXCEPT !.comment = c] :
            c \in IF r = r1 THEN {"requested", "non_pr", "fork", "no_token"} ELSE {"requested"}}
        \cup IF r = r2 THEN {}
             ELSE {[Request("plan") EXCEPT !.collides = TRUE, !.comment = "requested"]}]
mcConversations ==
    {[Scenario(World, {}, mcPublishers, 2) EXCEPT !.comments = earlier, !.may.discussed = TRUE] :
        earlier \in mcEarlierComments}

mcScenarios ==
    mcChangingInputs \cup mcSavedComparisons \cup mcLanes \cup mcImpacts \cup mcConversations
====
