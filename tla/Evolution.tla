---- MODULE Evolution ----
(***************************************************************************)
(* The evolution of a queried object or property through a resolved        *)
(* history (history/evolution.py, history/result.py), as operators.  A     *)
(* state of a resolved history is a snapshot with the form of its context  *)
(* ("none", "provenance" or "full"), its observations and its rules.       *)
(***************************************************************************)
EXTENDS Comparison, Evidence

\* A query: an object of the snapshots, an object of the context, a property;
\* what is not asked for is NoIdentity, NoObject or Nothing.
Nothing == "nothing"
NoObject == [kind |-> Nothing, namespace |-> Nothing, name |-> Nothing]

PropertyState(s, object, property) ==
    LET p == Projection(s.snapshot)
    IN  IF object \in DOMAIN p THEN SideOf(p[object], property) ELSE Missing

\* The states of a history in which the context says something.
HasProvenance(s) == s.form \in {"provenance", "full"}
HasDecision(s) == s.form = "full"

Reported(s) == Conflicts(s.observations, s.rules)
ContextPaths(s, object) ==
    {e.property : e \in {f \in s.observations : f.object = object}}

RemovedKeepsItsValue(b, c, object, property) ==
    [change |-> Nothing, baseline |-> PropertyState(b, object, property),
     candidate |-> PropertyState(b, object, property)]

\* The change between two states, and the two values of the property.
SnapshotBranch(b, c, object, property) ==
    LET changes == {x \in Compared(b.snapshot, c.snapshot).changes : x.object = object}
        known == \E s \in {b, c} : object \in DOMAIN Projection(s.snapshot)
        is(change) == \E x \in changes : x.change = change
    IN  [change |-> IF changes = {} THEN Nothing ELSE (CHOOSE x \in changes : TRUE).change,
         baseline |-> IF ~known \/ is("added") THEN Missing
                      ELSE PropertyState(b, object, property),
         candidate |-> IF ~known \/ is("removed") THEN Missing
                       ELSE PropertyState(c, object, property)]

\* A dimension changed if both states have it and it differs.
Dimension(available, baseline, candidate) ==
    [available |-> available,
     change |-> IF available = <<TRUE, TRUE>> /\ baseline # candidate
                THEN <<baseline, candidate>> ELSE <<>>]

ValueGroups(s, object, property) ==
    {[value |-> e.value, provenance |-> e.provenance] :
        e \in {f \in s.observations : f.object = object /\ f.property = property}}

NoResult == [reason |-> Nothing, rule |-> NoRule]

\* What authority decided: nothing where it was not consulted.
AuthorityDecision(s, object, property) ==
    LET report == Reported(s) key == <<object, property>>
    IN  IF key \notin DOMAIN report THEN NoResult
        ELSE IF report[key].reason \in {"SINGLE_OBSERVATION", "AGREEMENT"}
             THEN [NoResult EXCEPT !.reason = "not consulted"]
             ELSE [reason |-> report[key].reason, rule |-> report[key].rule]

ConflictState(s, object, property) ==
    LET report == Reported(s) key == <<object, property>>
    IN  IF key \in DOMAIN report THEN report[key].reason ELSE Nothing

EffectiveValue(s, object, property) ==
    LET report == Reported(s) key == <<object, property>>
    IN  IF key \in DOMAIN report THEN <<report[key].effective>> ELSE <<>>

ContextChange(b, c, object, property) ==
    LET traced  == <<HasProvenance(b), HasProvenance(c)>>
        decided == <<HasDecision(b), HasDecision(c)>>
        Between(has, of(_)) == Dimension(has, of(b), of(c))
    IN  [property |-> property,
         provenance |-> Between(traced, LAMBDA s : ValueGroups(s, object, property)),
         conflict |-> Between(decided, LAMBDA s : ConflictState(s, object, property)),
         decision |-> Between(decided, LAMBDA s : AuthorityDecision(s, object, property)),
         effective |-> Between(decided, LAMBDA s : EffectiveValue(s, object, property))]

Material(change) ==
    \/ change.provenance.change # <<>> \/ change.conflict.change # <<>>
    \/ change.decision.change # <<>> \/ change.effective.change # <<>>

\* All the properties of the object that changed, or the queried one.
ContextBranch(b, c, object, property) ==
    IF object = NoObject THEN {}
    ELSE IF property # Nothing THEN {ContextChange(b, c, object, property)}
    ELSE {x \in {ContextChange(b, c, object, p) :
                    p \in ContextPaths(b, object) \cup ContextPaths(c, object)} : Material(x)}

Transition(b, c, query) ==
    [snapshot |-> SnapshotBranch(b, c, query.object, query.property),
     context |-> ContextBranch(b, c, query.governance, query.property)]

\* build_history_evolution refuses what no state of the history knows.
Answerable(states, query) ==
    /\ query.object # NoIdentity =>
        \E n \in DOMAIN states :
            /\ query.object \in DOMAIN Projection(states[n].snapshot)
            /\ query.property # Nothing =>
                query.property \in DOMAIN Projection(states[n].snapshot)[query.object]
    /\ query.governance # NoObject =>
        \E n \in DOMAIN states :
            LET known == ContextPaths(states[n], query.governance)
            IN  IF query.property = Nothing THEN known # {} ELSE query.property \in known

Transitions(states, query) ==
    [n \in 1..Len(states) - 1 |-> Transition(states[n], states[n + 1], query)]
====
