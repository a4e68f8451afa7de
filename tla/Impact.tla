---- MODULE Impact ----
(***************************************************************************)
(* The governance graph and the blast radius of a change in it             *)
(* (domain/graph.py, domain/impact.py, impact/*.py), as operators.         *)
(*                                                                         *)
(* The identity of a node is the sequence of its own level and those of    *)
(* its parents, each a namespace, a kind and a name.  Identities have a    *)
(* canonical order; it is given as the sequence of all of them.            *)
(***************************************************************************)
EXTENDS Policies

CONSTANT NodeOrder    \* every identity a graph may have, in canonical order

ASSUME NodeOrderAssumption ==
    /\ NodeOrder \in Seq(Range(NodeOrder))
    /\ \A m, n \in DOMAIN NodeOrder : NodeOrder[m] = NodeOrder[n] => m = n

Level(namespace, kind, name) == [namespace |-> namespace, kind |-> kind, name |-> name]
KindOf(i) == i[1].kind
ParentsOf(i) == {SubSeq(i, n, Len(i)) : n \in 2..Len(i)}
IdentityAllowed(i) == i # <<>> /\ (KindOf(i) = "column" => Len(i) > 1)

-----------------------------------------------------------------------------
(* Building the graph: nodes and edges of several sources.                 *)

EdgeKey(e) == <<e.source, e.kind, e.target>>

\* GovernanceGraph.from_parts: what is said twice is said alike, nothing dangles.
GraphBuilds(nodes, edges) ==
    LET present == {n.identity : n \in nodes}
    IN  /\ \A n, m \in nodes : n.identity = m.identity => n.payload = m.payload
        /\ \A i \in present : ParentsOf(i) \subseteq present
        /\ \A e \in edges : {e.source, e.target} \subseteq present
        /\ \A e, f \in edges : EdgeKey(e) = EdgeKey(f) => e.payload = f.payload

Graph(nodes, edges) ==
    [nodes |-> {n.identity : n \in nodes},
     edges |-> {[source |-> e.source, kind |-> e.kind, target |-> e.target] : e \in edges},
     payload |-> [i \in {n.identity : n \in nodes} |->
                    (CHOOSE n \in nodes : n.identity = i).payload]]

-----------------------------------------------------------------------------
(* The analysis.                                                           *)

AlongTheEdge(e) == [from |-> e.source, to |-> e.target, edge |-> e, traversal |-> "forward"]

\* What depends on a changed node, is inside it or is governed by it is affected.
Hop(e) ==
    IF e.kind = "depends_on"
    THEN [from |-> e.target, to |-> e.source, edge |-> e, traversal |-> "reverse"]
    ELSE AlongTheEdge(e)

KindRank == [contains |-> 1, depends_on |-> 2, governs |-> 3]

\* Edges of other kinds are ignored.
Hops(graph) == {Hop(e) : e \in {f \in graph.edges : f.kind \in DOMAIN KindRank}}

Rank(i) == CHOOSE n \in DOMAIN NodeOrder : NodeOrder[n] = i

StepKey(step) ==
    <<Rank(step.from), Rank(step.to), Rank(step.edge.source), KindRank[step.edge.kind]>>

KeyBefore(k, l) ==
    \E n \in DOMAIN k : k[n] < l[n] /\ \A m \in 1..n - 1 : k[m] = l[m]

\* The canonical order of paths of one length: by their root and then their steps.
PathBefore(p, q) ==
    \/ Rank(p.root) < Rank(q.root)
    \/ /\ p.root = q.root
       /\ \E n \in DOMAIN p.steps :
            /\ KeyBefore(StepKey(p.steps[n]), StepKey(q.steps[n]))
            /\ \A m \in 1..n - 1 : p.steps[m] = q.steps[m]

Least(paths) == CHOOSE p \in paths : \A q \in paths \ {p} : PathBefore(p, q)

NoPath(root) == [root |-> root, target |-> root, steps |-> <<>>]
ExtendPath(path, hop) ==
    [root |-> path.root, target |-> hop.to, steps |-> Append(path.steps, hop)]

\* One layer of the search: the nodes first reached from the frontier.
NextLayer(paths, hops) ==
    [t \in {h.to : h \in hops} |->
        Least({ExtendPath(paths[h.from], h) : h \in {g \in hops : g.to = t}})]

Reached(found, layer) ==
    [frontier |-> DOMAIN layer,
     paths |-> [i \in DOMAIN found.paths \cup DOMAIN layer |->
                  IF i \in DOMAIN found.paths THEN found.paths[i] ELSE layer[i]]]

Deeper(graph, found) ==
    Reached(found, NextLayer(found.paths,
        {h \in Hops(graph) : h.from \in found.frontier /\ h.to \notin DOMAIN found.paths}))

\* What the search has found after each of its layers.
Layers(graph, roots) ==
    LET found[n \in 0..Cardinality(graph.nodes)] ==
            IF n = 0 THEN [frontier |-> roots, paths |-> [r \in roots |-> NoPath(r)]]
            ELSE Deeper(graph, found[n - 1])
    IN  found

\* The least shortest path to every node that is reached, the roots included.
ShortestPaths(graph, roots) == Layers(graph, roots)[Cardinality(graph.nodes)].paths

\* _normalize_changed_roots raises no error.
Analysable(graph, changed) == changed # {} /\ changed \subseteq graph.nodes

AssetsOf(graph, core) ==
    {i \in core \cup (UNION {ParentsOf(c) : c \in {d \in core : KindOf(d) # "contract"}}
                        \cap graph.nodes) : KindOf(i) # "contract"}

ContractsOf(graph, core) ==
    {i \in core : KindOf(i) = "contract"} \cup
    {e.source : e \in {f \in graph.edges :
        /\ f.kind = "governs" /\ KindOf(f.source) = "contract"
        /\ \E c \in core : f.target \in {c} \cup ParentsOf(c)}}

\* What is affected is what there are paths to.
BlastRadius(graph, roots, paths) ==
    LET core == DOMAIN paths
        assets == AssetsOf(graph, core)
    IN  [changed |-> roots,
         direct |-> {i \in core : Len(paths[i].steps) = 1},
         transitive |-> {i \in core : Len(paths[i].steps) > 1},
         paths |-> [i \in core \ roots |-> paths[i]],
         edges |-> {h.edge : h \in {g \in Hops(graph) : {g.from, g.to} \subseteq core}},
         contracts |-> ContractsOf(graph, core), assets |-> assets,
         relevant |-> {i \in assets :
                        KindOf(i) \in {"data_source", "dataset", "table", "column"}}]

\* analyze_downstream_impact
Analysis(graph, roots) == BlastRadius(graph, roots, ShortestPaths(graph, roots))

-----------------------------------------------------------------------------
(* The policies a change is relevant to.                                   *)

PhysicalKinds == <<"data_source", "dataset", "table", "column">>
ObjectKinds == <<"database", "schema", "table", "column">>

\* Only a complete chain of one namespace is an object of a snapshot.
Physical(i) ==
    /\ Len(i) <= 4
    /\ \A n \in DOMAIN i : i[n].kind = PhysicalKinds[Len(i) + 1 - n]
                           /\ i[n].namespace = i[1].namespace

LocalId(i) == <<i[1].namespace>> \o [n \in DOMAIN i |-> i[Len(i) + 1 - n].name]

AffectedPolicies(policies, nodes) ==
    {a \in {[policy |-> p, objects |-> {i \in nodes : Physical(i) /\
                Selects(p.select, ObjectKinds[Len(i)], LocalId(i))}] : p \in policies} :
        a.objects # {}}

ImpactResult(graph, roots, policies) ==
    LET impact == Analysis(graph, roots)
    IN  [graph |-> graph, impact |-> impact, policies |-> policies,
         affected |-> IF policies = <<>> THEN {}
                      ELSE AffectedPolicies(policies[1], impact.relevant),
         status |-> IF impact.direct \cup impact.transitive = {} THEN "clear" ELSE "impacted"]

-----------------------------------------------------------------------------
\* What the graph says a change of one node means for another.
Affects(graph, a, b) ==
    \E e \in graph.edges :
        \/ e.kind = "depends_on" /\ e.source = b /\ e.target = a
        \/ e.kind \in {"contains", "governs"} /\ e.source = a /\ e.target = b
====
