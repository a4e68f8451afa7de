---- MODULE Review ----
(***************************************************************************)
(* The review result of the GitHub action (github_ci/review.py), with what *)
(* decides whether the outcome of a conflict may be written to the target  *)
(* (reconciliation/safety.py, reconciliation/targets.py).  The conflict    *)
(* lane reviews observations, the drift lane a comparison.                 *)
(***************************************************************************)
EXTENDS Drift, Evidence

\* Values that not every property can take; any other value is plain text.
Blank == "blank"
Structured == "structured"

OwnershipKinds == {"data_source", "dataset", "table"}

\* path_applicable_to_identity: the properties reconciliation writes.
Mapped(object, property) ==
    \/ property \in {"/name", "/description"}
    \/ property = "/attributes/data_type" /\ object.kind = "column"
    \/ property = "/attributes/ownership" /\ object.kind \in OwnershipKinds

\* convert_effective_value is not None; for an owner, structured means not exactly one.
Convertible(property, value) ==
    value # Structured /\ (value = Blank => property = "/description")

\* PropertyConflictResult.state, from the reason of the verdict.
StateOf(verdict) ==
    IF verdict.reason \in {"NO_AUTHORITY_RULE", "AUTHORITATIVE_SOURCE_NOT_OBSERVED",
                           "AUTHORITATIVE_SOURCE_CONFLICTED"}
    THEN "UNRESOLVED_CONFLICT" ELSE verdict.reason

SafeStates == {"SINGLE_OBSERVATION", "AGREEMENT", "RESOLVED_BY_AUTHORITY"}
States == SafeStates \cup {"UNRESOLVED_CONFLICT", "INVALID_OR_AMBIGUOUS_AUTHORITY"}

Assessment(applicable, safe, reason) ==
    [applicable |-> applicable, safe |-> safe, reason |-> reason]

\* assess_reconciliation
Assessed(object, property, verdict) ==
    CASE ~Mapped(object, property) -> Assessment(FALSE, FALSE, "not_reconciliation_mapped")
      [] Mapped(object, property) /\ StateOf(verdict) \notin SafeStates ->
            Assessment(TRUE, FALSE, StateOf(verdict))
      [] Mapped(object, property) /\ StateOf(verdict) \in SafeStates ->
            IF Convertible(property, verdict.effective)
            THEN Assessment(TRUE, TRUE, "safe")
            ELSE Assessment(TRUE, FALSE, "unsupported_effective_value")

-----------------------------------------------------------------------------
(* The lanes and the result.                                               *)

ConflictStatus(summary) ==
    IF summary.blocked > 0 THEN "blocked"
    ELSE IF summary.states["UNRESOLVED_CONFLICT"]
            + summary.states["INVALID_OR_AMBIGUOUS_AUTHORITY"] > 0 THEN "findings"
    ELSE "clear"

Counted(report, assessments) ==
    [analyzed |-> Cardinality(DOMAIN report),
     states |-> [s \in States |-> Cardinality({k \in DOMAIN report : StateOf(report[k]) = s})],
     not_applicable |-> Cardinality({k \in DOMAIN assessments : ~assessments[k].applicable}),
     safe |-> Cardinality({k \in DOMAIN assessments :
                              assessments[k].applicable /\ assessments[k].safe}),
     blocked |-> Cardinality({k \in DOMAIN assessments :
                              assessments[k].applicable /\ ~assessments[k].safe})]

ConflictsBlock(observed, rules) ==
    LET report == Conflicts(observed, rules)
        assessments == [k \in DOMAIN report |-> Assessed(k[1], k[2], report[k])]
        summary == Counted(report, assessments)
    IN  [status |-> ConflictStatus(summary), summary |-> summary, report |-> report,
         assessments |-> assessments]

DriftBlock(comparison, result) ==
    [status |-> result.status, baseline |-> comparison.baseline,
     candidate |-> comparison.candidate, policy |-> result.policy, summary |-> result.summary]

NotRun == [status |-> "not_run"]

ReviewStatus(conflicts, drift) ==
    IF conflicts.status = "blocked" \/ drift.status = "unexpected_drift"
    THEN "blocked" ELSE "passed"

BuildReview(conflicts, drift) ==
    [conflicts |-> conflicts, drift |-> drift, status |-> ReviewStatus(conflicts, drift)]

ConflictsCoherent(c) ==
    /\ DOMAIN c.assessments = DOMAIN c.report
    /\ c.summary = Counted(c.report, c.assessments)
    /\ c.status = ConflictStatus(c.summary)

DriftCoherent(d) ==
    CASE d.status = "no_difference" -> \A key \in DOMAIN d.summary : d.summary[key] = 0
      [] d.status = "expected_difference" ->
            /\ d.policy # <<>> /\ d.summary.expected_differences > 0
            /\ d.summary.unexpected_drift = 0
      [] d.status = "unexpected_drift" -> d.policy # <<>> /\ d.summary.unexpected_drift > 0

\* validate_review_result, as the builder's result and a loaded one must satisfy it.
ReviewValid(r) ==
    /\ r.status = ReviewStatus(r.conflicts, r.drift)
    /\ r.conflicts.status # "not_run" => ConflictsCoherent(r.conflicts)
    /\ r.drift.status # "not_run" => DriftCoherent(r.drift)

DesiredExit(status, failOnBlocked) ==
    CASE status = "passed" -> 0
      [] status = "blocked" -> IF failOnBlocked THEN 3 ELSE 0
      [] OTHER -> 1

-----------------------------------------------------------------------------
(* What each lane owes, said without the lanes: the reference of the       *)
(* properties of a review.                                                 *)

\* A property of the target on which the sources disagree without one that decides, or
\* whose value the target cannot take.
Undecided(observed, rules) ==
    \E e \in observed :
        LET said == {f \in observed : f.object = e.object /\ f.property = e.property}
            matching == {r \in rules : SelectorMatches(r.select, e.object, e.property)}
            specific == {r \in matching : r.select.namespace # NotGiven}
            deciding == IF specific # {} THEN specific ELSE matching
            authorised == {f \in said : \E r \in deciding, record \in f.provenance :
                                            TargetMatches(r.target, record)}
            decided == IF Cardinality(said) = 1 THEN said
                       ELSE IF Cardinality(deciding) = 1 THEN authorised ELSE {}
        IN  /\ Mapped(e.object, e.property)
            /\ ~ \E f \in decided : decided = {f} /\ Convertible(e.property, f.value)

\* Some rule expects the difference; no rule expects a difference it does not name.
Expected(rules, change, i, property, before, after) ==
    \E r \in rules :
        /\ r.change = change /\ r.object = i /\ r.property = property
        /\ r.expected.baseline \in {<<>>, <<before>>}
        /\ r.expected.candidate \in {<<>>, <<after>>}

UnexpectedDifference(b, c, rules) ==
    LET left == Projection(b) right == Projection(c)
    IN  \/ \E i \in DOMAIN left \ DOMAIN right :
            ~Expected(rules, "removed", i, WholeObject, Missing, Missing)
        \/ \E i \in DOMAIN right \ DOMAIN left :
            ~Expected(rules, "added", i, WholeObject, Missing, Missing)
        \/ \E i \in DOMAIN left \cap DOMAIN right :
            \E p \in DOMAIN left[i] \cup DOMAIN right[i] :
                LET before == SideOf(left[i], p) after == SideOf(right[i], p)
                IN  before # after /\ ~Expected(rules, "changed", i, p, before, after)
====
