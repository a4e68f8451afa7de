---- MODULE Policies ----
(***************************************************************************)
(* Governance policies (policy/*.py): which files of policies are loaded,  *)
(* which objects of a snapshot a policy selects, and which of them violate *)
(* it.  The id of an object is the sequence of the names it is built from, *)
(* so that a prefix of an id is a prefix of the sequence.                  *)
(***************************************************************************)
EXTENDS Comparison, SequencesExt

OwnerKinds == {"data_source", "database", "schema", "table"}
AllowedKinds ==
    [require_owner |-> OwnerKinds,
     require_description |-> OwnerKinds \cup {"column", "relationship"},
     require_relationship |-> {"table"}]

\* A selector has an id, a prefix of ids, or neither.
PolicyAllowed(p) ==
    /\ p.severity \in {"error", "warning"}
    /\ p.rule \in DOMAIN AllowedKinds /\ p.select.kind \in AllowedKinds[p.rule]
    /\ p.select.id = <<>> \/ p.select.prefix = <<>>

\* load_normalized_policies: all the files of the configuration, or none.
PoliciesLoad(files) ==
    /\ \A n \in DOMAIN files :
        /\ files[n].kind = "policies"
        /\ \A p \in files[n].policies : PolicyAllowed(p)
    /\ \A m, n \in DOMAIN files : \A p \in files[m].policies, q \in files[n].policies :
        p.id = q.id => m = n /\ p = q

PoliciesOf(files) == UNION {files[n].policies : n \in DOMAIN files}

Selects(select, kind, id) ==
    /\ select.kind = kind
    /\ select.id # <<>> => select.id[1] = id
    /\ IsPrefix(select.prefix, id)

NoText == "none"
HasText(o, property) == property \in DOMAIN o.props /\ o.props[property] # NoText

Related(s, table) ==
    \E r \in s.objects :
        r.kind = "relationship" /\ table \in {r.holder, r.refs["/to_table_id"][1]}

Violates(s, o, rule) ==
    CASE rule = "require_owner"        -> ~HasText(o, "/ownership")
      [] rule = "require_description"  -> ~HasText(o, "/description")
      [] rule = "require_relationship" -> ~Related(s, o.id)

\* evaluate_policies
Violations(s, policies) ==
    {v \in [policy : policies, object : s.objects] :
        /\ v.object.kind \in AllowedKinds["require_description"]
        /\ Selects(v.policy.select, v.object.kind, v.object.id)
        /\ Violates(s, v.object, v.policy.rule)}

ReportFor(s, policies) ==
    LET violations == Violations(s, policies)
    IN  [policy |-> policies, snapshot |-> s, violations |-> violations,
         ok |-> \A v \in violations : v.policy.severity # "error"]
====
