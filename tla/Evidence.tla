---- MODULE Evidence ----
(***************************************************************************)
(* Observations, authority rules and their conflicts                       *)
(* (domain/observations.py, domain/authority.py, domain/conflicts.py, with *)
(* the loaders of both documents) as operators without state.              *)
(*                                                                         *)
(* An observation is a value seen for a property of an object, with the    *)
(* records of the sources that saw it.  A rule selects a property of a     *)
(* kind of objects, perhaps of one namespace, and names the source that    *)
(* decides.                                                                *)
(***************************************************************************)
EXTENDS Naturals, Sequences, FiniteSets

\* An optional namespace, source reference or value that is not given.
NotGiven == "not given"

-----------------------------------------------------------------------------
(* Observations.                                                           *)

Observation(object, property, value, provenance) ==
    [object |-> object, property |-> property, value |-> value, provenance |-> provenance]

SameValue(e, f) == e.object = f.object /\ e.property = f.property /\ e.value = f.value

\* One observation per value, with the provenance of all that saw it.
Normalised(entries) ==
    {[e EXCEPT !.provenance = UNION {f.provenance : f \in {g \in entries : SameValue(e, g)}}] :
        e \in entries}

MergedObservations(sets) == Normalised(UNION sets)

\* A document of observations: loaded only if it says what the program would write.
ObservationsLoad(document) ==
    /\ document.kind = "observations" /\ document.ordered /\ document.intact
    /\ Normalised(document.entries) = document.entries
    /\ \A e \in document.entries : e.provenance # {}

-----------------------------------------------------------------------------
(* Authority.                                                              *)

SelectorMatches(select, object, property) ==
    /\ select.kind = object.kind /\ select.property = property
    /\ select.namespace \in {NotGiven, object.namespace}

Specificity(select) == IF select.namespace = NotGiven THEN 1 ELSE 2

TargetMatches(target, record) ==
    /\ target.provider = record.provider
    /\ target.ref \in {NotGiven, record.ref}

\* Rules of several files, all or nothing.
AuthorityLoads(files) ==
    /\ \A n \in DOMAIN files : files[n].kind = "authority"
    /\ \A m, n \in DOMAIN files : \A r \in files[m].rules, s \in files[n].rules :
        /\ r.id = s.id => m = n /\ r = s
        /\ r.select = s.select => r.target = s.target

\* A rule is its selector and its target: ids are for the reader.
RuleKey(r) == [select |-> r.select, target |-> r.target]
AuthorityOf(files) == {RuleKey(r) : r \in UNION {files[n].rules : n \in DOMAIN files}}

-----------------------------------------------------------------------------
(* Conflicts.                                                              *)

NoRule == [select |-> [kind |-> NotGiven, property |-> NotGiven, namespace |-> NotGiven],
           target |-> [provider |-> NotGiven, ref |-> NotGiven]]

\* The most specific rules for a property of an object.
WinningRules(object, property, rules) ==
    LET matching == {r \in rules : SelectorMatches(r.select, object, property)}
    IN  {r \in matching : \A s \in matching : Specificity(s.select) <= Specificity(r.select)}

Verdict(reason, value, rule) == [reason |-> reason, effective |-> value, rule |-> rule]

\* What the observations of one property say, as the rules decide it.
Analysed(values, rules) ==
    LET base == CHOOSE e \in values : TRUE
        winners == WinningRules(base.object, base.property, rules)
        winner == CHOOSE r \in winners : TRUE
        authorised == {e \in values : \E record \in e.provenance :
                                          TargetMatches(winner.target, record)}
    IN  CASE Cardinality(values) = 1 /\ Cardinality(base.provenance) = 1 ->
                Verdict("SINGLE_OBSERVATION", base.value, NoRule)
          [] Cardinality(values) = 1 /\ Cardinality(base.provenance) # 1 ->
                Verdict("AGREEMENT", base.value, NoRule)
          [] Cardinality(values) > 1 /\ winners = {} ->
                Verdict("NO_AUTHORITY_RULE", NotGiven, NoRule)
          [] Cardinality(values) > 1 /\ Cardinality(winners) > 1 ->
                Verdict("INVALID_OR_AMBIGUOUS_AUTHORITY", NotGiven, NoRule)
          [] Cardinality(values) > 1 /\ Cardinality(winners) = 1 ->
                IF Cardinality(authorised) = 1
                THEN Verdict("RESOLVED_BY_AUTHORITY",
                             (CHOOSE e \in authorised : TRUE).value, winner)
                ELSE Verdict(IF authorised = {} THEN "AUTHORITATIVE_SOURCE_NOT_OBSERVED"
                             ELSE "AUTHORITATIVE_SOURCE_CONFLICTED", NotGiven, winner)

\* analyze_property_conflicts: the report, a verdict per observed property.
Conflicts(observed, rules) ==
    [key \in {<<e.object, e.property>> : e \in observed} |->
        Analysed({e \in observed : <<e.object, e.property>> = key}, rules)]
====
