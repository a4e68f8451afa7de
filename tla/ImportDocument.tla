---- MODULE ImportDocument ----
(***************************************************************************)
(* From a scanned model to the batches of an import: the desired state     *)
(* (integrations/collibra/mapping.py), the plan (sync.py), the import      *)
(* document (import_api.py) and its batches (batching.py).  Operators      *)
(* without state.                                                          *)
(*                                                                         *)
(* The local id of an object is the sequence of the names of its database, *)
(* schema, table and column, as far as it has them.  A name is a sequence  *)
(* of labels: it may hold the dots that a full name is joined with.        *)
(***************************************************************************)
EXTENDS Naturals, Sequences, FiniteSets, SequencesExt, Functions

CONSTANTS
    LocalIds,                   \* all local ids, in their order
    HardMaxResources,           \* the ceilings a batch never exceeds
    HardMaxCharacteristics

ASSUME LimitAssumption ==
    /\ HardMaxResources \in Nat \ {0} /\ HardMaxCharacteristics \in Nat \ {0}
    /\ \A m, n \in DOMAIN LocalIds : LocalIds[m] = LocalIds[n] => m = n

RankOf(id) == CHOOSE n \in DOMAIN LocalIds : LocalIds[n] = id

-----------------------------------------------------------------------------
(* The desired state.                                                      *)

FullName(id) == FlattenSeq(id)
Described(model, id) == model.description[id] # <<>>

\* The attributes of an object, each of the type the mapping refers to.
AttributeKeys(model, id) ==
    <<"local_id">> \o (IF Described(model, id) THEN <<"description">> ELSE <<>>)
        \o (IF Len(id) = 4 THEN <<"data_type", "nullable", "ordinal_position">> ELSE <<>>)
ValueOf(model, id, key) ==
    CASE key = "local_id" -> id
      [] key = "description" -> model.description[id]
      [] OTHER -> <<key>>

AssetSpec(model, refs, id) ==
    [id |-> id, name |-> FullName(id), display |-> Last(id),
     attributes |-> [n \in DOMAIN AttributeKeys(model, id) |->
        LET key == AttributeKeys(model, id)[n]
        IN  [ref |-> refs[key], value |-> ValueOf(model, id, key)]]]

Relation(type, source, target) == [type |-> type, source |-> source, target |-> target]
Containment(id) == Relation("contains", Front(id), id)

\* map_to_desired_state: the relations of what is absent are refused.
Maps(model) == \A k \in model.keys : k[1] \in model.objects /\ k[2] \in model.objects

DesiredState(model, refs) ==
    [assets |-> [id \in model.objects |-> AssetSpec(model, refs, id)],
     relations |-> {Containment(id) : id \in {o \in model.objects : Len(o) > 1}}
                   \cup {Relation("fk", k[1], k[2]) : k \in model.keys}]

-----------------------------------------------------------------------------
(* The plan.                                                               *)

Refs(attributes) == {attributes[n].ref : n \in DOMAIN attributes}

\* As a mapping: the last of several values.
ByRef(attributes) ==
    [ref \in Refs(attributes) |->
        attributes[SelectLastInSeq(attributes, LAMBDA a : a.ref = ref)].value]

\* _asset_changed_fields.
ChangedFields(spec, asset) ==
    (IF spec.name # asset.name THEN {"name"} ELSE {})
    \cup (IF spec.display # asset.display THEN {"display_name"} ELSE {})
    \cup (IF ByRef(spec.attributes) # asset.attributes THEN {"managed_attributes"} ELSE {})

NoAsset == 0

\* An asset of the tenant is managed if it carries a local id.
ManagedAs(tenant, id) ==
    LET found == {r \in DOMAIN tenant.assets : tenant.assets[r].id = id}
    IN  IF found = {} THEN NoAsset ELSE CHOOSE r \in found : TRUE

Related(tenant, relation) ==
    [type |-> relation.type, source |-> ManagedAs(tenant, relation.source),
     target |-> ManagedAs(tenant, relation.target)] \in tenant.relations

\* build_sync_plan; a plan deletes nothing.
PlanOf(desired, tenant) ==
    [assets |-> [id \in DOMAIN desired.assets |->
        LET remote == ManagedAs(tenant, id)
        IN  IF remote = NoAsset
            THEN [op |-> "CREATE", spec |-> desired.assets[id], remote |-> remote, changed |-> {}]
            ELSE LET changed == ChangedFields(desired.assets[id], tenant.assets[remote])
                 IN  [op |-> IF changed = {} THEN "UNCHANGED" ELSE "UPDATE",
                      spec |-> desired.assets[id], remote |-> remote, changed |-> changed]],
     relations |-> {r \in desired.relations : ~Related(tenant, r)}]

OfOp(plan, op) == {id \in DOMAIN plan.assets : plan.assets[id].op = op}

\* _ordered_mutating_actions: creations from databases down, then updates.
CreatedBefore(a, b) == Len(a) < Len(b) \/ (Len(a) = Len(b) /\ RankOf(a) < RankOf(b))
UpdatedBefore(a, b) == RankOf(a) < RankOf(b)
RelatedBefore(a, b) ==
    LET Key(r) == <<IF r.type = "contains" THEN 0 ELSE 1, RankOf(r.source), RankOf(r.target)>>
    IN  \E n \in 1..3 : Key(a)[n] < Key(b)[n] /\ \A m \in 1..n - 1 : Key(a)[m] = Key(b)[m]

InOrder(plan) ==
    [created |-> SetToSortSeq(OfOp(plan, "CREATE"), CreatedBefore),
     updated |-> SetToSortSeq(OfOp(plan, "UPDATE"), UpdatedBefore),
     related |-> SetToSortSeq(plan.relations, RelatedBefore)]

-----------------------------------------------------------------------------
(* The import document: a command per asset, in order.                     *)

ByName(name) == [name |-> name, remote |-> NoAsset]
ByRemote(remote) == [name |-> <<>>, remote |-> remote]

\* A creation is identified by its name, in the one domain of the mapping.
IdentifierOf(action) ==
    IF action.op = "CREATE" THEN ByName(action.spec.name) ELSE ByRemote(action.remote)

\* What a command says of the asset: the whole of it, or what changed; of
\* one that did not change nothing, it is there for its relations.
AssetCommand(action) ==
    LET says(field) == action.op = "CREATE" \/ field \in action.changed
    IN  [identifier |-> IdentifierOf(action), of |-> action.spec.id,
         name |-> IF says("name") THEN <<action.spec.name>> ELSE <<>>,
         display |-> IF says("display_name") THEN <<action.spec.display>> ELSE <<>>,
         attributes |-> IF says("managed_attributes") THEN action.spec.attributes ELSE <<>>,
         relations |-> <<>>]

\* An import cannot say two values of one type, nor tell two creations of
\* one name apart.
Compiles(plan) ==
    /\ \A id \in OfOp(plan, "CREATE") \cup OfOp(plan, "UPDATE") :
          LET said == AssetCommand(plan.assets[id]).attributes
          IN  \A m, n \in DOMAIN said : said[m].ref = said[n].ref => m = n
    /\ \A a, b \in OfOp(plan, "CREATE") :
          plan.assets[a].spec.name = plan.assets[b].spec.name => a = b

Position(commands, id) == SelectInSeq(commands, LAMBDA c : c.of = id)
Created(plan, id) == plan.assets[id].op = "CREATE"

SourceAlways(plan, commands, r) == r.source     \* mutant: the source says it

\* The later of two that are created, so that both exist when it is said.
Host(plan, commands, r) ==
    IF Created(plan, r.target) /\ (Created(plan, r.source) =>
            Position(commands, r.target) > Position(commands, r.source))
    THEN r.target ELSE r.source

\* _attach_relationship: to the command of its host, perhaps a new one.
Attached(plan, commands, r) ==
    LET host == Host(plan, commands, r)
        other == IF host = r.source THEN r.target ELSE r.source
        said == [type |-> r.type, related |-> IdentifierOf(plan.assets[other]),
                 direction |-> IF host = r.source THEN "TARGET" ELSE "SOURCE"]
        all == IF Position(commands, host) # 0 THEN commands
               ELSE Append(commands, AssetCommand(plan.assets[host]))
    IN  [all EXCEPT ![Position(all, host)].relations = Append(@, said)]

\* compile_import_document.
Document(plan) ==
    LET order == InOrder(plan)
        commands(ids) == [n \in DOMAIN ids |-> AssetCommand(plan.assets[ids[n]])]
    IN  FoldLeft(LAMBDA said, r : Attached(plan, said, r),
                 commands(order.created) \o commands(order.updated), order.related)

-----------------------------------------------------------------------------
(* The batches.                                                            *)

\* resolve_batch_limits: a limit that is not given is the ceiling.
LimitsValid(limits) ==
    /\ limits.resources \in {<<>>} \cup {<<n>> : n \in 1..HardMaxResources}
    /\ limits.characteristics \in {<<>>} \cup {<<n>> : n \in 1..HardMaxCharacteristics}
Limits(limits) ==
    [resources |-> IF limits.resources = <<>> THEN HardMaxResources ELSE limits.resources[1],
     characteristics |-> IF limits.characteristics = <<>> THEN HardMaxCharacteristics
                         ELSE limits.characteristics[1]]

\* Each command is one resource.
Characteristics(command) == Len(command.attributes) + Len(command.relations)
CharacteristicsOf(batch) == FoldLeft(LAMBDA n, c : n + Characteristics(c), 0, batch)

Fits(batch, max) == Len(batch) <= max.resources /\ CharacteristicsOf(batch) <= max.characteristics

BeforeAdding(current, command, max) == Fits(current, max)   \* mutant: counts the batch alone

StillFits(current, command, max) == Fits(Append(current, command), max)

\* partition_counts: one that exceeds a limit alone is refused.
Partitionable(document, max) == \A n \in DOMAIN document : Fits(<<document[n]>>, max)

\* Greedy and stable: a batch ends where the next command does not fit.
Batches(document, max) ==
    LET Add(batches, command) ==
            IF batches # <<>> /\ StillFits(Last(batches), command, max)
            THEN [batches EXCEPT ![Len(batches)] = Append(@, command)]
            ELSE Append(batches, <<command>>)
    IN  FoldLeft(Add, <<>>, document)
====
