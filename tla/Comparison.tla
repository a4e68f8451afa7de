---- MODULE Comparison ----
(***************************************************************************)
(* Snapshots and their comparison (snapshots/validate.py, comparison/*.py) *)
(* as operators without state: what a snapshot must satisfy to be loaded   *)
(* and to be projected, the directional comparison of two snapshots, and   *)
(* what the loader of a saved comparison accepts.                          *)
(*                                                                         *)
(* A snapshot is its envelope and the flat set of its objects.  An object  *)
(* has an id of its own, the id of the object that holds it, its path of   *)
(* names, and per pointer a value or a sequence of ids it refers to.  The  *)
(* canonical order of a document is left out: lists of changes are sets.   *)
(***************************************************************************)
EXTENDS Naturals, Sequences, FiniteSets, Functions, TLC

LOCAL INSTANCE FiniteSetsExt

Roots == {"data_source", "database"}
Members == {"column", "primary_key", "foreign_key", "relationship"}
Kinds == Roots \cup {"schema", "table"} \cup Members

ObjectIdentity(kind, path) == [kind |-> kind, path |-> path]
NoIdentity == ObjectIdentity("none", <<>>)
IdentityOf(o) == ObjectIdentity(o.kind, o.path)

\* The identity that contains another one, by its structure alone.
ParentOf(i) ==
    CASE i.kind = "data_source" -> NoIdentity
      [] i.kind = "database"    -> ObjectIdentity("data_source", <<>>)
      [] i.kind = "schema"      -> ObjectIdentity("database", <<>>)
      [] i.kind = "table"       -> ObjectIdentity("schema", SubSeq(i.path, 1, 1))
      [] i.kind \in Members     -> ObjectIdentity("table", SubSeq(i.path, 1, 2))

\* A table, schema, database and data source contain a column.
Ancestors(i) ==
    LET p1 == ParentOf(i) p2 == IF p1 = NoIdentity THEN p1 ELSE ParentOf(p1)
        p3 == IF p2 = NoIdentity THEN p2 ELSE ParentOf(p2)
        p4 == IF p3 = NoIdentity THEN p3 ELSE ParentOf(p3)
    IN  {p1, p2, p3, p4} \ {NoIdentity}

-----------------------------------------------------------------------------
(* Loading and projecting one snapshot.                                    *)

ById(s, id) == CHOOSE o \in s.objects : o.id = id
IsA(s, id, kind) == \E o \in s.objects : o.id = id /\ o.kind = kind

\* The ids of a list resolve to columns of one table.
ColumnsResolve(s, ids, table) ==
    /\ ids # <<>>
    /\ \A id \in Range(ids) :
        \E c \in s.objects : c.id = id /\ c.kind = "column" /\ c.holder = table

KeysResolve(s) ==
    /\ \A o \in s.objects : o.kind \in {"primary_key", "foreign_key"} =>
        ColumnsResolve(s, o.refs["/column_ids"], o.holder)
    /\ \A o \in s.objects : o.kind = "foreign_key" =>
        LET table == o.refs["/referenced_table_id"][1]
            columns == o.refs["/referenced_column_ids"]
        IN  /\ IsA(s, table, "table")
            /\ Len(columns) = Len(o.refs["/column_ids"])
            /\ ColumnsResolve(s, columns, table)

RelationshipsResolve(s) ==
    \A o \in s.objects : o.kind = "relationship" =>
        LET to == o.refs["/to_table_id"][1] key == o.refs["/foreign_key_id"]
        IN  /\ IsA(s, o.holder, "table") /\ IsA(s, to, "table")
            /\ key # <<>> => \E f \in s.objects :
                /\ f.id = key[1] /\ f.kind = "foreign_key"
                /\ f.holder = o.holder /\ f.refs["/referenced_table_id"] = <<to>>

\* One data source with one database, as the envelope says, in a known contract.
EnvelopeHolds(s) ==
    /\ s.contract = "supported"
    /\ \A kind \in Roots : Cardinality({o \in s.objects : o.kind = kind}) = 1
    /\ \A o \in s.objects :
        /\ o.kind = "data_source" => o.props["/name"] = s.source
        /\ o.kind = "database" => o.props["/name"] = s.database

IdsAreUnique(s) == \A o, q \in s.objects : o.id = q.id => o = q

\* validate_and_parse_snapshot_payload: the snapshot can be loaded.
Loads(s) ==
    /\ EnvelopeHolds(s) /\ IdsAreUnique(s)
    /\ \A o \in s.objects : o.kind # "data_source" =>
        \E h \in s.objects : h.id = o.holder /\ IdentityOf(h) = ParentOf(IdentityOf(o))
    /\ \A o \in s.objects : o.kind = "table" =>
        \E c \in s.objects : c.kind = "column" /\ c.holder = o.id
    /\ KeysResolve(s) /\ RelationshipsResolve(s)

\* What projection requires besides: no two objects with one identity.
Projects(s) ==
    Loads(s) /\ \A o, q \in s.objects : IdentityOf(o) = IdentityOf(q) => o = q

Missing == [has_value |-> FALSE]
Present(v) == [has_value |-> TRUE, value |-> v]

\* The comparable properties of an object: references by identity, not by id.
Properties(s, o) ==
    [p \in DOMAIN o.props \cup DOMAIN o.refs |-> Present(
        IF p \in DOMAIN o.props THEN o.props[p]
        ELSE [n \in DOMAIN o.refs[p] |-> IdentityOf(ById(s, o.refs[p][n]))])]

Projection(s) ==
    [i \in {IdentityOf(o) : o \in s.objects} |->
        Properties(s, CHOOSE o \in s.objects : IdentityOf(o) = i)]

-----------------------------------------------------------------------------
(* Comparing two snapshots.                                                *)

SideOf(properties, p) == IF p \in DOMAIN properties THEN properties[p] ELSE Missing

DiffProperties(b, c) ==
    {[property |-> p, baseline |-> SideOf(b, p), candidate |-> SideOf(c, p)] :
        p \in {q \in DOMAIN b \cup DOMAIN c : SideOf(b, q) # SideOf(c, q)}}

ObjectChange(change, i, properties) ==
    [change |-> change, object |-> i, parent |-> ParentOf(i), properties |-> properties]

\* compare_projected: objects are matched by identity.
ObjectChanges(b, c) ==
    {ObjectChange("added", i, {}) : i \in DOMAIN c \ DOMAIN b} \cup
    {ObjectChange("removed", i, {}) : i \in DOMAIN b \ DOMAIN c} \cup
    {ObjectChange("changed", i, DiffProperties(b[i], c[i])) :
        i \in {j \in DOMAIN b \cap DOMAIN c : DiffProperties(b[j], c[j]) # {}}}

Count(changes, change) == Cardinality({x \in changes : x.change = change})
PropertyCount(changes) == MapThenSumSet(LAMBDA x : Cardinality(x.properties), changes)

\* Roots of different names are matched only when the caller says so.
RootsAligned(b, c, ack) ==
    /\ b.source # c.source => ack.source
    /\ b.database # c.database => ack.database

Alignment(b, c) == [source   |-> IF b.source = c.source THEN <<>> ELSE <<b.source, c.source>>,
                    database |-> IF b.database = c.database THEN <<>>
                                 ELSE <<b.database, c.database>>]

\* build_comparison_result raises no error.
Comparable(b, c, ack) ==
    /\ Projects(b) /\ Projects(c)
    /\ b.system = c.system /\ b.scanner = c.scanner
    /\ RootsAligned(b, c, ack)

Metadata(s) == [source |-> s.source, database |-> s.database, system |-> s.system,
                scanner |-> s.scanner, contract |-> s.contract]

Compared(b, c) ==
    LET left == Projection(b) right == Projection(c)
        changes == ObjectChanges(left, right)
    IN  [baseline |-> Metadata(b), candidate |-> Metadata(c),
         changes |-> changes, alignment |-> Alignment(b, c),
         status |-> IF changes = {} THEN "identical" ELSE "different",
         summary |-> [added |-> Count(changes, "added"), removed |-> Count(changes, "removed"),
                      changed |-> Count(changes, "changed"),
                      property_changes |-> PropertyCount(changes),
                      unchanged |-> Cardinality(DOMAIN left \cap DOMAIN right)
                                        - Count(changes, "changed")]]

-----------------------------------------------------------------------------
(* Loading a saved comparison.                                             *)

FixedPointers ==
    [k \in Kinds |->
        CASE k = "primary_key"  -> {"/column_ids"}
          [] k = "foreign_key"  -> {"/column_ids", "/referenced_table_id", "/referenced_column_ids"}
          [] k = "relationship" -> {"/to_table_id", "/foreign_key_id", "/description"}
          [] k = "column"       -> {"/data_type", "/ordinal_position", "/nullable", "/description"}
          [] k \in Roots        -> {"/name", "/description", "/ownership"}
          [] OTHER              -> {"/description", "/ownership"}]

\* All the technical attributes are one pointer; which one it is makes no difference.
TechnicalAttribute == "/technical_attributes/x"

PointerAllowed(kind, p) ==
    p \in FixedPointers[kind]
        \cup (IF kind \in {"data_source", "table", "column"} THEN {TechnicalAttribute} ELSE {})

ColumnsOf(value, prefix) ==
    \A i \in Range(value) : i.kind = "column" /\ SubSeq(i.path, 1, 2) = prefix

\* A side without a value is only a technical attribute's; references keep to their tables.
SideAllowed(i, p, side) ==
    /\ side = Missing => p = TechnicalAttribute
    /\ p = "/column_ids" => side.value # <<>> /\ ColumnsOf(side.value, SubSeq(i.path, 1, 2))
    /\ p = "/referenced_column_ids" =>
        /\ side.value # <<>>
        /\ ColumnsOf(side.value, SubSeq(side.value[1].path, 1, 2))
    /\ p \in {"/referenced_table_id", "/to_table_id"} => side.value[1].kind = "table"
    /\ p = "/foreign_key_id" => \A f \in Range(side.value) :
        f.kind = "foreign_key" /\ SubSeq(f.path, 1, 2) = SubSeq(i.path, 1, 2)

\* The referenced columns are those of the referenced table, on each side.
ForeignKeyCoherent(properties) ==
    \A t, c \in properties :
        t.property = "/referenced_table_id" /\ c.property = "/referenced_column_ids" =>
            /\ ColumnsOf(c.baseline.value, t.baseline.value[1].path)
            /\ ColumnsOf(c.candidate.value, t.candidate.value[1].path)

ChangeAllowed(x) ==
    /\ x.parent = ParentOf(x.object)
    /\ (x.change = "changed") <=> (x.properties # {})
    /\ x.object.kind \in Roots => x.change = "changed"
    /\ \A d \in x.properties :
        /\ PointerAllowed(x.object.kind, d.property)
        /\ SideAllowed(x.object, d.property, d.baseline)
        /\ SideAllowed(x.object, d.property, d.candidate)
        /\ d.baseline # d.candidate
    /\ \A d, e \in x.properties : d.property = e.property => d = e
    /\ x.object.kind = "foreign_key" => ForeignKeyCoherent(x.properties)

\* What is inside an added or removed object is added or removed with it.
HierarchyConsistent(changes) ==
    \A x, a \in changes :
        a.object \in Ancestors(x.object) /\ a.change # "changed" => x.change = a.change

\* A root is renamed exactly when the metadata says so.
NamesMatch(r, kind, before, after) ==
    LET renamed == {d \in UNION {x.properties : x \in {y \in r.changes : y.object.kind = kind}} :
                        d.property = "/name"}
    IN  renamed = (IF before = after THEN {}
                   ELSE {[property |-> "/name", baseline |-> Present(before),
                          candidate |-> Present(after)]})

\* validate_comparison_result_semantics
AcceptsComparison(r) ==
    /\ r.baseline.system = r.candidate.system /\ r.baseline.scanner = r.candidate.scanner
    /\ r.baseline.contract = "supported" /\ r.candidate.contract = "supported"
    /\ r.alignment = Alignment(r.baseline, r.candidate)
    /\ \A x \in r.changes : ChangeAllowed(x)
    /\ \A x, y \in r.changes : x.object = y.object => x = y
    /\ NamesMatch(r, "data_source", r.baseline.source, r.candidate.source)
    /\ NamesMatch(r, "database", r.baseline.database, r.candidate.database)
    /\ HierarchyConsistent(r.changes)
    /\ \A change \in {"added", "removed", "changed"} : r.summary[change] = Count(r.changes, change)
    /\ r.summary.property_changes = PropertyCount(r.changes)
    /\ r.status = (IF r.changes = {} THEN "identical" ELSE "different")

-----------------------------------------------------------------------------
(* The shape of every snapshot that parses (domain/models.py), whether it  *)
(* loads or not.                                                           *)

\* The pointers whose values refer to other objects.
RefPointers ==
    [k \in Kinds |->
        CASE k = "primary_key"  -> {"/column_ids"}
          [] k = "foreign_key"  -> {"/column_ids", "/referenced_table_id", "/referenced_column_ids"}
          [] k = "relationship" -> {"/to_table_id", "/foreign_key_id"}
          [] OTHER              -> {}]

\* An object has all the pointers of its kind; technical attributes are optional.
Shaped(s) ==
    /\ IsFiniteSet(s.objects)
    /\ \A o \in s.objects :
        /\ o.kind \in Kinds /\ (o.kind \in Roots => o.path = <<>>)
        /\ FixedPointers[o.kind] \subseteq DOMAIN o.props \cup DOMAIN o.refs
        /\ \A p \in DOMAIN o.props : PointerAllowed(o.kind, p) /\ p \notin RefPointers[o.kind]
        /\ DOMAIN o.refs = RefPointers[o.kind]
        /\ \A p \in DOMAIN o.refs : o.refs[p] \in Seq(Range(o.refs[p]))
        /\ \A p \in DOMAIN o.refs : p \in {"/referenced_table_id", "/to_table_id"} =>
            Len(o.refs[p]) = 1
        /\ "/foreign_key_id" \in DOMAIN o.refs => Len(o.refs["/foreign_key_id"]) <= 1
====
