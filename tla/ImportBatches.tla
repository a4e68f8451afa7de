---- MODULE ImportBatches ----
(***************************************************************************)
(* An import_v2 execution: planned, compiled, partitioned, proved free of  *)
(* collisions and handed to the tenant batch by batch, each batch a job.   *)
(* A run may lose sight of a job, which the tenant may then still work on; *)
(* the user runs the command again.                                        *)
(*                                                                         *)
(* The tenant is external: an import creates the asset of a name it does   *)
(* not have and updates the one it has, a command at a time.               *)
(***************************************************************************)
EXTENDS ImportDocument

CONSTANTS
    Scenarios,      \* what is scanned, the mapping, the limits, the tenant
    MaxRuns         \* bounds how often the command is run

VARIABLES
    scenario,       \* [model, refs, limits, apply, tenant]
    tenant,         \* [assets: a sequence, relations: a set]
    pc,             \* where the run is
    plan,
    batches,        \* still to be submitted
    job,            \* of the submitted batch, what the tenant has still to do
    late,           \* of a job the client gave up
    runs            \* how often the command was run

vars == <<scenario, tenant, pc, plan, batches, job, late, runs>>

Init ==
    /\ scenario \in Scenarios
    /\ tenant = scenario.tenant
    /\ pc = "start" /\ plan = <<>> /\ batches = <<>> /\ job = <<>> /\ late = <<>>
    /\ runs = 1

Desired == DesiredState(scenario.model, scenario.refs)

-----------------------------------------------------------------------------
(* The client.                                                             *)

\* map_to_desired_state and build_sync_plan.
Plan ==
    /\ pc = "start"
    /\ IF Maps(scenario.model)
       THEN pc' = "planned" /\ plan' = PlanOf(Desired, tenant)
       ELSE pc' = "failed" /\ UNCHANGED plan
    /\ UNCHANGED <<scenario, tenant, batches, job, late, runs>>

\* compile_import_document and partition_document.  A dry run ends here.
Compile ==
    /\ pc = "planned"
    /\ LET max == Limits(scenario.limits)
           document == Document(plan)
       IN  IF Compiles(plan) /\ LimitsValid(scenario.limits) /\ Partitionable(document, max)
           THEN /\ batches' = Batches(document, max)
                /\ pc' = CASE ~scenario.apply -> "previewed"
                           [] scenario.apply /\ document = <<>> -> "succeeded"
                           [] OTHER -> "compiled"
           ELSE pc' = "failed" /\ UNCHANGED batches
    /\ UNCHANGED <<scenario, tenant, plan, job, late, runs>>

Named(assets, name) == {r \in DOMAIN assets : assets[r].name = name}

Uncontested(p, assets) == TRUE      \* mutant: creations are not looked up

\* lookup_assets_by_natural_identifier finds nothing under the names.
Absent(p, assets) == \A id \in OfOp(p, "CREATE") : Named(assets, p.assets[id].spec.name) = {}

\* prove_import_create_identifiers_absent.
Prove ==
    /\ pc = "compiled"
    /\ pc' = IF Absent(plan, tenant.assets) THEN "submitting" ELSE "failed"
    /\ UNCHANGED <<scenario, tenant, plan, batches, job, late, runs>>

Submit ==
    /\ pc = "submitting"
    /\ IF batches = <<>>
       THEN pc' = "succeeded" /\ UNCHANGED <<batches, job>>
       ELSE pc' = "waiting" /\ job' = Head(batches) /\ batches' = Tail(batches)
    /\ UNCHANGED <<scenario, tenant, plan, late, runs>>

Observe ==
    /\ pc = "waiting" /\ job = <<>>
    /\ pc' = "submitting"
    /\ UNCHANGED <<scenario, tenant, plan, batches, job, late, runs>>

\* The submission is uncertain, the job fails or is not observed to its
\* end: no batch follows.  The tenant may be working on it still.
GiveUp ==
    /\ pc = "waiting" /\ late = <<>>
    /\ pc' = "failed" /\ job' = <<>> /\ late' \in {<<>>, job}
    /\ UNCHANGED <<scenario, tenant, plan, batches, runs>>

RunAgain ==
    /\ pc = "failed" /\ runs < MaxRuns
    /\ runs' = runs + 1 /\ pc' = "start" /\ plan' = <<>> /\ batches' = <<>>
    /\ UNCHANGED <<scenario, tenant, job, late>>

-----------------------------------------------------------------------------
(* The tenant.                                                             *)

Resolves(assets, identifier) ==
    identifier.remote \in DOMAIN assets \/ Named(assets, identifier.name) # {}
Resolved(assets, identifier) ==
    IF identifier.remote # NoAsset THEN identifier.remote
    ELSE CHOOSE r \in Named(assets, identifier.name) : TRUE

\* MERGE: the asset of a command, created if its name is new.
WithAsset(assets, command) ==
    IF Resolves(assets, command.identifier) THEN assets
    ELSE Append(assets, [id |-> <<>>, name |-> command.identifier.name, display |-> <<>>,
                         attributes |-> [ref \in {} |-> <<>>]])

RelationFrom(assets, remote, said) ==
    LET other == Resolved(assets, said.related)
    IN  IF said.direction = "TARGET" THEN Relation(said.type, remote, other)
        ELSE Relation(said.type, other, remote)

\* What a command leaves: the fields it lists, and more relations.
Imported(t, command) ==
    LET assets == WithAsset(t.assets, command)
        remote == Resolved(assets, command.identifier)
        said == ByRef(command.attributes)
        local == scenario.refs["local_id"]
        one(new, old) == IF new = <<>> THEN old ELSE new[1]
    IN  [assets |-> [assets EXCEPT ![remote] =
            [id |-> IF local \in DOMAIN said THEN said[local] ELSE @.id,
             name |-> one(command.name, @.name), display |-> one(command.display, @.display),
             attributes |-> said @@ @.attributes]],
         relations |-> t.relations \cup {RelationFrom(assets, remote, command.relations[n]) :
                                        n \in DOMAIN command.relations}]

\* A reference to nothing fails the job.
CanImport(t, command) ==
    \A n \in DOMAIN command.relations :
        Resolves(WithAsset(t.assets, command), command.relations[n].related)

Work ==
    /\ job # <<>> /\ CanImport(tenant, Head(job))
    /\ tenant' = Imported(tenant, Head(job)) /\ job' = Tail(job)
    /\ UNCHANGED <<scenario, pc, plan, batches, late, runs>>

WorkLate ==
    /\ late # <<>>
    /\ IF CanImport(tenant, Head(late))
       THEN tenant' = Imported(tenant, Head(late)) /\ late' = Tail(late)
       ELSE late' = <<>> /\ UNCHANGED tenant
    /\ UNCHANGED <<scenario, pc, plan, batches, job, runs>>

Finished ==
    /\ pc \in {"previewed", "succeeded"} \/ (pc = "failed" /\ runs = MaxRuns)
    /\ late = <<>>
    /\ UNCHANGED vars

Next ==
    \/ Plan \/ Compile \/ Prove \/ Submit \/ Observe \/ GiveUp \/ RunAgain
    \/ Work \/ WorkLate \/ Finished

Spec == Init /\ [][Next]_vars

-----------------------------------------------------------------------------
(* Properties.                                                             *)

\* import_api.py: a relation hangs at the later endpoint, "so Import never
\* depends on a forward identifier", also not on one of a later batch; and
\* no batch exceeds the ceilings of an import.  So a tenant can take every
\* job to its end, the late ones too.
EveryJobCanRun ==
    LET hard == [resources |-> HardMaxResources, characteristics |-> HardMaxCharacteristics]
    IN  \A work \in {job, late} \ {<<>>} :
            CanImport(tenant, Head(work)) /\ Fits(work, hard)

\* What the scan found is in the tenant once, with its values and relations.
Realised ==
    /\ \A id \in DOMAIN Desired.assets :
          LET spec == Desired.assets[id]
              remote == ManagedAs(tenant, id)
          IN  /\ Cardinality({r \in DOMAIN tenant.assets : tenant.assets[r].id = id}) = 1
              /\ tenant.assets[remote].name = spec.name
              /\ tenant.assets[remote].display = spec.display
              /\ \A n \in DOMAIN spec.attributes :
                    tenant.assets[remote].attributes[spec.attributes[n].ref] = spec.attributes[n].value
    /\ \A r \in Desired.relations : Related(tenant, r)

\* The compiler tells creations of one name apart, not a creation from an
\* asset that is about to be renamed to its name.
RenamedOnto ==
    \E a, b \in scenario.model.objects :
        /\ a # b /\ FullName(a) = FullName(b)
        /\ \E r \in DOMAIN scenario.tenant.assets :
              scenario.tenant.assets[r].id = a /\ scenario.tenant.assets[r].name # FullName(a)

\* An apply that succeeds has realised the plan, even when an earlier run
\* left it half done and its job is still at work; and no run ever writes to
\* an asset that is not managed, or of an object that was not scanned.
ImportRealisesThePlan ==
    /\ pc = "succeeded" /\ ~RenamedOnto => Realised
    /\ \A r \in DOMAIN scenario.tenant.assets :
          LET before == scenario.tenant.assets[r]
          IN  before.id \notin scenario.model.objects => tenant.assets[r] = before
    /\ \A r \in DOMAIN tenant.assets \ DOMAIN scenario.tenant.assets :
          tenant.assets[r].id \in scenario.model.objects
====
