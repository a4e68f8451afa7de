---- MODULE Drift ----
(***************************************************************************)
(* The classification of a comparison's differences by a drift policy      *)
(* (drift/*.py), as operators without state.                               *)
(*                                                                         *)
(* A rule selects an added or a removed object, or a changed property of   *)
(* an object, and may say what either side of the change must be.  A       *)
(* policy is the set of its rules; no policy at all is a sequence without  *)
(* an element.                                                             *)
(***************************************************************************)
EXTENDS Comparison

WholeObject == "no property"
PresenceOnly == [baseline |-> <<>>, candidate |-> <<>>]
Selector(r) == [change |-> r.change, object |-> r.object, property |-> r.property]

\* comparison_change_property_compatible_with_kind, and the values likewise.
SidesCompatible(r) ==
    \A side \in {"baseline", "candidate"} : r.expected[side] # <<>> =>
        SideAllowed(r.object, r.property, r.expected[side][1])

\* A rule on a change that a comparison may contain.
RuleAllowed(r) ==
    IF r.change = "changed"
    THEN /\ PointerAllowed(r.object.kind, r.property)
         /\ SidesCompatible(r)
         /\ r.expected.baseline # <<>> => r.expected.baseline # r.expected.candidate
    ELSE /\ r.change \in {"added", "removed"} /\ r.object.kind \notin Roots
         /\ r.property = WholeObject /\ r.expected = PresenceOnly

\* One selector, one expectation.
PolicyUnambiguous(rules) ==
    \A r, q \in rules : Selector(r) = Selector(q) => r.expected = q.expected

DriftPolicyLoads(rules) ==
    /\ \A r \in rules : RuleAllowed(r)
    /\ \A r, q \in rules : r.id = q.id => r = q
    /\ PolicyUnambiguous(rules)

-----------------------------------------------------------------------------
(* Classification.                                                         *)

Difference(change, object, property, baseline, candidate) ==
    [change |-> change, object |-> object, property |-> property,
     baseline |-> baseline, candidate |-> candidate]

\* An added or removed object is one difference, a changed one one per property.
Differences(r) ==
    UNION {IF x.change = "changed"
           THEN {Difference("changed", x.object, d.property, d.baseline, d.candidate) :
                    d \in x.properties}
           ELSE {Difference(x.change, x.object, WholeObject, Missing, Missing)} :
              x \in r.changes}

SideExpected(expected, actual) == expected = <<>> \/ expected[1] = actual

BaselineExpected(expected, difference) == SideExpected(expected.baseline, difference.baseline)
ExpectationsSatisfied(expected, difference) ==
    /\ SideExpected(expected.baseline, difference.baseline)
    /\ SideExpected(expected.candidate, difference.candidate)

Classified(difference, rules) ==
    LET matching == {r \in rules : Selector(r) = Selector(difference)}
        met == \A r \in matching : ExpectationsSatisfied(r.expected, difference)
    IN  [difference |-> difference, rules |-> {r.id : r \in matching},
         classification |-> IF matching # {} /\ met THEN "expected_difference"
                            ELSE "unexpected_drift",
         reason |-> CASE matching = {} -> "unmatched_difference"
                      [] matching # {} /\ met -> "matched_policy_rule"
                      [] matching # {} /\ ~met -> "expectation_mismatch"]

DeriveStatus(classified) ==
    IF classified = {} THEN "no_difference"
    ELSE IF \E x \in classified : x.classification = "unexpected_drift" THEN "unexpected_drift"
    ELSE "expected_difference"

\* build_drift_result: a difference needs a policy.
DriftBuilds(comparison, policy) == comparison.status = "identical" \/ policy # <<>>

DriftResult(comparison, policy) ==
    LET classified == IF policy = <<>> THEN {}
                      ELSE {Classified(d, policy[1]) : d \in Differences(comparison)}
        unexpected == {x \in classified : x.classification = "unexpected_drift"}
    IN  [comparison |-> comparison, policy |-> policy, classified |-> classified,
         status |-> DeriveStatus(classified),
         summary |-> [affected_objects |-> Cardinality({x.difference.object : x \in classified}),
                      expected_differences |-> Cardinality(classified \ unexpected),
                      property_drift |-> Cardinality({x \in unexpected :
                                                          x.difference.change = "changed"}),
                      unexpected_drift |-> Cardinality(unexpected)]]
====
