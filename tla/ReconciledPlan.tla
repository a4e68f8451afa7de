---- MODULE ReconciledPlan ----
(***************************************************************************)
(* What a saved plan is made of: the desired state with the evidence of    *)
(* other sources laid over it (reconciliation/overlay.py), the action the  *)
(* planner derives for an asset (integrations/collibra/sync.py), and the   *)
(* decisions that action depends on (reconciliation/assumptions.py).       *)
(* Operators on one asset; None stands for a property without a value.     *)
(***************************************************************************)
EXTENDS Integers, FiniteSets

CONSTANTS
    DisplayName,   \* the property written with the asset's header
    Attributes,    \* the properties that are managed attributes
    Values,        \* the values of a property
    None           \* no value

ASSUME PropertyAssumption == DisplayName \notin Attributes
ASSUME NoneAssumption == None \notin Values

Properties == {DisplayName} \cup Attributes
Descriptions == [Properties -> Values \cup {None}]

\* What the conflict analysis says of one property: no observation, an
\* effective value (possibly null) that may be used, or a conflict that is
\* unresolved, ambiguous or has no representable value.
NoDecision == [state |-> "none", value |-> None]
Unsafe     == [state |-> "unsafe", value |-> None]
Safe(v)    == [state |-> "safe", value |-> v]
Decisions  == {NoDecision, Unsafe} \cup {Safe(v) : v \in Values \cup {None}}

\* A managed remote asset, as its identity projection shows it.
Missing == [managed |-> FALSE, has |-> [p \in Properties |-> None]]
RemoteAssets == [managed : BOOLEAN, has : Descriptions]

\* apply_reconciliation_overlay: a null preserves the remote value, which
\* there is none of for an asset to create.
Reconciled(base, remote, decision) ==
    CASE decision.state # "safe" -> base
      [] decision.state = "safe" /\ decision.value # None -> decision.value
      [] decision.state = "safe" /\ decision.value = None -> remote

Overlay(base, remote, decision) ==
    [p \in Properties |-> Reconciled(base[p], remote.has[p], decision[p])]

\* build_sync_plan, for one asset.
ActionType(want, remote) ==
    IF ~remote.managed THEN "CREATE"
    ELSE IF want # remote.has THEN "UPDATE" ELSE "UNCHANGED"

OverlaidOnly(base, remote, want) ==           \* mutant: no mutation role
    CASE ActionType(want, remote) = "CREATE" -> Properties
      [] OTHER -> {p \in Properties : base[p] # want[p]}

\* build_reconciliation_assumptions: the properties whose decision a plan
\* depends on, by the mutation role, the overlay role or both.
Boundary(base, remote, want) ==
    CASE ActionType(want, remote) = "CREATE"    -> Properties
      [] ActionType(want, remote) = "UPDATE"    ->
            {p \in Properties : want[p] # remote.has[p] \/ base[p] # want[p]}
      [] ActionType(want, remote) = "UNCHANGED" -> {p \in Properties : base[p] # want[p]}

\* recompute_assumptions_on_saved_boundary.
OnBoundary(decision, boundary) == [p \in boundary |-> decision[p]]

\* validate_assumptions_safety: no decision of the boundary is unsafe.
SafeBoundary(assumptions) == \A p \in DOMAIN assumptions : assumptions[p].state # "unsafe"

====
