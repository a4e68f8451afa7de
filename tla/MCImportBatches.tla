---- MODULE MCImportBatches ----
(* Two schemas, two tables and a column, of which one schema has the full  *)
(* name of a table; tenants that know nothing, a part, old values, or have *)
(* an unmanaged asset of a name the import is about to use.                *)
EXTENDS ImportBatches

d  == <<<<"d">>>>
s  == d \o <<<<"s">>>>
x  == d \o <<<<"s", "t">>>>       \* a schema whose name holds a dot
t  == s \o <<<<"t">>>>
u  == s \o <<<<"u">>>>
c  == t \o <<<<"c">>>>

\* In the order of their local ids: col:, db:, sch:, tbl:.
MCLocalIds == <<c, d, s, x, t, u>>

Cycle == {<<t, u>>, <<u, t>>}
Model(objects, keys, described) ==
    [objects |-> objects, keys |-> keys,
     description |-> [o \in objects |-> IF o \in described THEN <<"text">> ELSE <<>>]]
Models ==
    {Model({d, s, t, u, c}, keys, {t, c}) : keys \in {{}, Cycle, {<<t, t>>, <<t, u>>}}}
    \cup {Model({d, s, x, t}, {}, {}), Model({d, s, t}, {<<t, u>>}, {}), Model({d}, {}, {d})}

Keys == {"local_id", "description", "data_type", "nullable", "ordinal_position"}
Mapping == [key \in Keys |-> key]
Ambiguous == [Mapping EXCEPT !["description"] = "local_id"]

NoLimits == [resources |-> <<>>, characteristics |-> <<>>]
MCLimits == {NoLimits, [NoLimits EXCEPT !.resources = <<1>>],
             [resources |-> <<2>>, characteristics |-> <<4>>],
             [NoLimits EXCEPT !.resources = <<HardMaxResources + 1>>]}

\* The tenant that knows of `ids`, with the old values of `stale`.
Remote(desired, ids, id) == Cardinality({o \in ids : RankOf(o) <= RankOf(id)})
Tenant(model, ids, stale, relations, foreign) ==
    LET desired == DesiredState(model, Mapping)
        order == SelectSeq(MCLocalIds, LAMBDA o : o \in ids)
        asset(o) == LET spec == desired.assets[o]
                    IN  [id |-> o, name |-> IF o \in stale THEN <<"old">> ELSE spec.name,
                         display |-> IF o \in stale THEN <<"old">> ELSE spec.display,
                         attributes |-> IF o \in stale
                            THEN [key \in {"local_id", "description"} |->
                                    IF key = "local_id" THEN o ELSE <<"old">>]
                            ELSE ByRef(spec.attributes)]
        managed == [n \in DOMAIN order |-> asset(order[n])]
    IN  [assets |-> managed \o [n \in DOMAIN foreign |->
                        [id |-> <<>>, name |-> foreign[n], display |-> <<"theirs">>,
                         attributes |-> [ref \in {} |-> <<>>]]],
         relations |-> {Relation(r.type, Remote(desired, ids, r.source), Remote(desired, ids, r.target)) :
                            r \in {k \in desired.relations :
                                k.source \in ids /\ k.target \in ids /\ k.type \in relations}}]

Tenants(model) ==
    LET has(ids) == ids \cap model.objects
        both == {"contains", "fk"}
    IN  {Tenant(model, {}, {}, both, <<>>), Tenant(model, {}, {}, both, <<FullName(t)>>),
         Tenant(model, {}, {}, both, <<<<"other">>>>),
         Tenant(model, has({d, s}), has({s}), both, <<>>),
         Tenant(model, has({d, s, u}), {}, {"fk"}, <<<<"other">>>>),
         Tenant(model, has({d, s, t, u}), has({d, t, u}), {"contains"}, <<>>),
         Tenant(model, model.objects, {}, both, <<>>), Tenant(model, model.objects, {}, {}, <<>>)}

MCScenarios ==
    UNION {{[model |-> model, refs |-> refs, limits |-> limits, apply |-> apply, tenant |-> tenant0] :
              refs \in {Mapping, Ambiguous}, limits \in MCLimits, apply \in BOOLEAN,
              tenant0 \in IF Maps(model) THEN Tenants(model) ELSE {Tenant(model, {}, {}, {}, <<>>)}} :
           model \in Models}
====
