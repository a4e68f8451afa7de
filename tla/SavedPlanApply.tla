---- MODULE SavedPlanApply ----
(***************************************************************************)
(* `governance plan` and `governance apply` (cli.py): a plan is generated  *)
(* from what one command reads, saved, reviewed, and applied by a later    *)
(* command that reads everything again and refuses a stale plan.           *)
(*                                                                         *)
(* The two commands share one file and nothing else; between any two steps *)
(* of either, the scanned database, the evidence, the configuration and    *)
(* the tenant may change.  The plan is applied in core_rest mode, call by  *)
(* call, to a live tenant, and a command may fail or be killed anywhere.   *)
(* A call whose outcome is unclear has its effect, or none, before the     *)
(* command fails; later effects are a change by another client.  No write  *)
(* is redirected (see RemoteCall).                                         *)
(***************************************************************************)
EXTENDS ReconciledPlan

CONSTANTS
    Assets,        \* local ids, numbered in the order of creation
    Targets,       \* target contexts: endpoint and execution mode
    LocalId,       \* the attribute that makes an asset managed
    Settings,      \* the rest of the configuration with the mapping, and contract versions
    DerivedId,     \* sync_v2 without a configured synchronization id
    Worlds,        \* the worlds a behaviour may start in
    MaxChanges,    \* bound on changes from outside
    MaxCommands    \* bound on commands

Gone == [exists |-> FALSE, managed |-> FALSE, has |-> Missing.has]
TenantAssets == {Gone} \cup [exists : {TRUE}, managed : BOOLEAN, has : Descriptions]
WorldSpace ==
    [base : [Assets -> Descriptions], evidence : [Assets -> [Properties -> Decisions]],
     policy : SUBSET Properties, settings : Settings, target : Targets,
     tenant : [Targets -> [Assets -> TenantAssets]]]
Knowledge ==
    [settings : Settings, target : Targets, policy : SUBSET Properties,
     base : [Assets -> Descriptions], decision : [Assets -> [Properties -> Decisions]],
     remote : [Assets -> RemoteAssets]]
Reviews == {"dry run", "apply", "unconfirmed", "confirm only"}
Outcomes == {"running", "ok", "error", "usage", "policy", "refused", "stale",
             "killed", "no synchronization id"}

ASSUME AssetAssumption ==
    /\ Assets \subseteq Nat \ {0} /\ LocalId \notin Properties /\ DerivedId \in BOOLEAN
    /\ MaxChanges \in Nat /\ MaxCommands \in Nat
ASSUME WorldAssumption == Worlds \subseteq WorldSpace

VARIABLES
    world,     \* base model, evidence, policy, settings, target and tenant, as they are
    file,      \* the saved plan
    cmd,       \* the command: its name, flags (with evidence sources) and review;
               \* asof: the changes before it (history)
    pc,        \* its next step
    got,       \* what it has read
    todo,      \* the assets it has not begun to write
    at,        \* the asset it is writing; 0 for none
    left,      \* the attributes of it not written yet
    exit,      \* how the command ended
    wrote,     \* it has changed the tenant (history)
    met,       \* another client has, since it started (history)
    changes,   \* changes from outside
    commands,  \* commands started
    since      \* since the plan: its flags, changes before it, foreign changes,
               \* applies of it that changed the tenant (history)

running == <<cmd, pc, got, exit>>
writing == <<todo, at, left, wrote>>
vars == <<world, file, running, writing, met, changes, commands, since>>

\* What a command knows that has read its configuration only.
Blank(settings, target) ==
    [settings |-> settings, target |-> target, policy |-> {},
     base     |-> [a \in Assets |-> [p \in Properties |-> None]],
     decision |-> [a \in Assets |-> [p \in Properties |-> NoDecision]],
     remote   |-> [a \in Assets |-> Missing]]

\* The managed state of a tenant: an asset without a local id is not seen.
AsRead(tenant) ==
    [a \in Assets |-> IF tenant[a].managed
                      THEN [managed |-> TRUE, has |-> tenant[a].has] ELSE Missing]

Assumptions(base, remote, decision, want) ==
    OnBoundary(decision, Boundary(base, remote, want))

\* build_saved_plan, from what the command has read.
PlanFrom(version, g) ==
    LET want == [a \in Assets |-> Overlay(g.base[a], g.remote[a], g.decision[a])]
    IN  [version |-> version, settings |-> g.settings, target |-> g.target,
         policy |-> g.policy, base |-> g.base, remote |-> g.remote, want |-> want,
         assumes |-> [a \in Assets |->
             Assumptions(g.base[a], g.remote[a], g.decision[a], want[a])]]

\* The policies: the properties every asset must have.
Accepts(policy, base) == \A a \in Assets, p \in policy : base[a][p] # None

NoPlan == [version |-> 0]

\* A behaviour starts without a plan, or with one of the version before
\* assumptions were recorded.
Init ==
    /\ world \in Worlds
    /\ \/ file = NoPlan
       \/ /\ Accepts(world.policy, world.base)
          /\ file = PlanFrom(1, [Blank(world.settings, world.target) EXCEPT
                                   !.policy = world.policy, !.base = world.base,
                                   !.remote = AsRead(world.tenant[world.target])])
    /\ cmd = [name |-> "none", flags |-> FALSE, review |-> "dry run", asof |-> 0]
    /\ pc = "idle" /\ got = Blank(world.settings, world.target) /\ exit = "running"
    /\ todo = {} /\ at = 0 /\ left = {} /\ wrote = FALSE /\ met = FALSE
    /\ changes = 0 /\ commands = 0
    /\ since = [flags |-> FALSE, changes |-> 0, foreign |-> FALSE, applies |-> 0]

-----------------------------------------------------------------------------
(* The outside.                                                            *)

Outside == UNCHANGED <<file, running, writing, commands>>

\* Nothing is observed after the last command.
Observed == pc # "idle" \/ commands < MaxCommands

ReconfiguredTo(w) ==
    /\ Observed /\ w # world /\ changes < MaxChanges
    /\ world' = w
    /\ changes' = changes + 1
    /\ Outside /\ UNCHANGED <<met, since>>

SourceChanges ==
    \E a \in Assets, p \in Properties, v \in Values \cup {None} :
        ReconfiguredTo([world EXCEPT !.base[a][p] = v])

EvidenceChanges ==
    \E a \in Assets, p \in Properties, d \in Decisions :
        ReconfiguredTo([world EXCEPT !.evidence[a][p] = d])

ConfigurationChanges ==
    \/ \E s \in Settings : ReconfiguredTo([world EXCEPT !.settings = s])
    \/ \E t \in Targets : ReconfiguredTo([world EXCEPT !.target = t])
    \/ \E required \in SUBSET Properties : ReconfiguredTo([world EXCEPT !.policy = required])

TenantChanges(state) ==
    /\ Observed /\ state # world.tenant /\ changes < MaxChanges
    /\ world' = [world EXCEPT !.tenant = state]
    /\ changes' = changes + 1
    /\ met' = TRUE
    /\ since' = [since EXCEPT !.foreign = TRUE]
    /\ Outside

\* Another client edits or deletes an asset.
OtherClient ==
    \E t \in Targets, a \in Assets :
        /\ world.tenant[t][a].exists
        /\ \/ TenantChanges([world.tenant EXCEPT ![t][a] = Gone])
           \/ \E p \in Properties, v \in Values \cup {None} :
                 TenantChanges([world.tenant EXCEPT ![t][a].has[p] = v])

-----------------------------------------------------------------------------
(* A command.                                                              *)

Step == UNCHANGED <<world, commands, changes, met>>
Keep == UNCHANGED <<file, cmd, writing, since>>

Goto(label) == pc' = label /\ UNCHANGED exit
Exit(outcome) == pc' = "idle" /\ exit' = outcome

Begin(name, flags, review, label, outcome) ==
    /\ pc = "idle" /\ commands < MaxCommands
    /\ commands' = commands + 1
    /\ cmd' = [name |-> name, flags |-> flags, review |-> review, asof |-> changes]
    /\ got' = [Blank(world.settings, world.target) EXCEPT
                 !.policy = IF name = "plan" THEN world.policy ELSE {}]
    /\ pc' = label /\ exit' = outcome
    /\ todo' = {} /\ at' = 0 /\ left' = {} /\ wrote' = FALSE /\ met' = FALSE
    /\ UNCHANGED <<world, file, changes, since>>

\* The configuration is read first; a plan reads the policies with it.
StartPlan == \E flags \in BOOLEAN : Begin("plan", flags, "dry run", "evidence", "running")

\* The saved plan is loaded before the configuration.
StartApply ==
    /\ file # NoPlan
    /\ \E flags \in BOOLEAN, review \in Reviews :
          IF review = "confirm only" THEN Begin("apply", flags, review, "idle", "usage")
          ELSE Begin("apply", flags, review, "evidence", "running")

NullsForgotten(decision) ==         \* mutant: a null is recomputed as no decision
    [a \in Assets |-> [p \in DOMAIN file.assumes[a] |->
        IF decision[a][p] = Safe(None) THEN NoDecision ELSE decision[a][p]]]

\* recompute_assumptions_on_saved_boundary.
Recomputed(decision) ==
    [a \in Assets |-> OnBoundary(decision[a], DOMAIN file.assumes[a])]

\* A plan of version 1 has no assumptions: it excludes evidence.
StaleEvidence(decision) ==
    IF file.version = 1 THEN cmd.flags ELSE Recomputed(decision) # file.assumes

\* The sources named on the command line are read and analysed.  An apply
\* compares the decisions its plan depends on before anything else.
ComposeEvidence ==
    LET decision == IF cmd.flags THEN world.evidence ELSE got.decision
    IN  /\ pc = "evidence"
        /\ IF cmd.name = "plan"
           THEN Goto("scan") /\ got' = [got EXCEPT !.decision = decision]
           ELSE IF StaleEvidence(decision) THEN Exit("stale") /\ UNCHANGED got
           ELSE Goto("flags") /\ got' = [got EXCEPT !.decision = decision]
        /\ Step /\ Keep

\* An apply checks its flags against the effective mode, then reads policies.
CheckFlags ==
    /\ pc = "flags"
    /\ IF cmd.review = "unconfirmed" THEN Exit("usage") /\ UNCHANGED got
       ELSE Goto("scan") /\ got' = [got EXCEPT !.policy = world.policy]
    /\ Step /\ Keep

\* The database is scanned; a plan is generated only for a model the policies accept.
Scan ==
    /\ pc = "scan"
    /\ got' = [got EXCEPT !.base = world.base]
    /\ IF cmd.name = "plan" /\ ~Accepts(got.policy, world.base) THEN Exit("policy")
       ELSE Goto(IF cmd.name = "plan" \/ got.target = file.target THEN "read" ELSE "gate")
    /\ Step /\ Keep

\* The managed remote state is read; an apply reads it only from the target of the plan.
ReadRemote ==
    /\ pc = "read"
    /\ got' = [got EXCEPT !.remote = AsRead(world.tenant[got.target])]
    /\ Goto(IF cmd.name = "plan" THEN "save" ELSE "gate")
    /\ Step /\ Keep

SavedAnyway(plan) == TRUE           \* mutant: saves a plan with conflicts

Savable(plan) == \A a \in Assets : SafeBoundary(plan.assumes[a])

\* The plan is validated and written (atomically) to its file.
SavePlan ==
    LET plan == PlanFrom(2, got)
    IN  /\ pc = "save"
        /\ IF Savable(plan)
           THEN /\ file' = plan
                /\ since' = [flags |-> cmd.flags, changes |-> cmd.asof,
                             foreign |-> met, applies |-> 0]
                /\ Exit("ok")
           ELSE Exit("refused") /\ UNCHANGED <<file, since>>
        /\ Step /\ UNCHANGED <<cmd, got, writing>>

\* Operational errors, and evidence that cannot be composed or analysed.
Fails ==
    /\ \/ pc = "evidence" /\ Exit("refused")
       \/ pc \in {"evidence", "scan", "read"} /\ Exit("error")
    /\ UNCHANGED got
    /\ Step /\ Keep

Killed == pc # "idle" /\ Exit("killed") /\ UNCHANGED got /\ Step /\ Keep

-----------------------------------------------------------------------------
(* Applying the plan.                                                      *)

RemoteUnchecked ==                  \* mutant: the remote state is not compared
    /\ got.settings = file.settings /\ got.target = file.target
    /\ got.policy = file.policy /\ got.base = file.base

PolicyUnchecked ==                  \* mutant: the policies are not compared
    /\ got.settings = file.settings /\ got.target = file.target
    /\ got.base = file.base /\ got.remote = file.remote

\* Every identity of the plan is compared, the remote one if it was read.
Fresh ==
    /\ got.settings = file.settings /\ got.target = file.target
    /\ got.policy = file.policy /\ got.base = file.base /\ got.remote = file.remote

ActionOf(a) == ActionType(file.want[a], file.remote[a])

\* A dry run reports the plan; sync_v2 needs a synchronization id for the mutation.
Gate ==
    /\ pc = "gate"
    /\ IF ~Fresh THEN Exit("stale") /\ UNCHANGED todo
       ELSE IF cmd.review = "dry run" THEN Exit("ok") /\ UNCHANGED todo
       ELSE IF DerivedId THEN Exit("no synchronization id") /\ UNCHANGED todo
       ELSE Goto("mutate") /\ todo' = {a \in Assets : ActionOf(a) # "UNCHANGED"}
    /\ Step /\ UNCHANGED <<file, cmd, got, at, left, wrote, since>>

AnyOrder(a) == a \in todo /\ left = {}     \* mutant: no order of the actions

\* Creations come first, each kind in the order of the local ids.
IsNext(a) ==
    /\ a \in todo /\ left = {}
    /\ \A b \in todo : IF ActionOf(a) = ActionOf(b) THEN a <= b ELSE ActionOf(a) = "CREATE"

AsHeader(a) == {p \in Properties : file.want[a][p] # None}   \* mutant: the name as well

OnlyOverlaid(a) ==                  \* mutant: leaves out what the model itself provides
    {p \in Attributes : file.want[a][p] \notin {None, file.base[a][p]}}

Wanted(a) == {p \in Attributes : file.want[a][p] # None}

Write(a, state) ==
    /\ world' = [world EXCEPT !.tenant[got.target][a] = state]
    /\ wrote' = (wrote \/ state # world.tenant[got.target][a])
    /\ since' = IF wrote' /\ ~wrote THEN [since EXCEPT !.applies = @ + 1] ELSE since
    /\ UNCHANGED <<file, running, met, changes, commands>>

\* create_asset: the header, then every attribute, the local id among them.
\* The tenant refuses a second asset of the same name.
CreateAsset(a) ==
    /\ pc = "mutate" /\ IsNext(a) /\ ActionOf(a) = "CREATE"
    /\ ~world.tenant[got.target][a].exists
    /\ Write(a, [exists |-> TRUE, managed |-> FALSE,
                 has |-> [Missing.has EXCEPT ![DisplayName] = file.want[a][DisplayName]]])
    /\ at' = a /\ left' = Wanted(a) \cup {LocalId}
    /\ todo' = todo \ {a}

\* update_asset: the header if the plan changes it to a value, then every
\* attribute the plan has a value for that differs from the one found now.
UpdateAsset(a) ==
    LET state == world.tenant[got.target][a]
        title == file.want[a][DisplayName]
        patch == title # file.remote[a].has[DisplayName] /\ title # None
    IN  /\ pc = "mutate" /\ IsNext(a) /\ ActionOf(a) = "UPDATE"
        /\ state.exists
        /\ Write(a, IF patch THEN [state EXCEPT !.has[DisplayName] = title] ELSE state)
        /\ at' = a /\ left' = {p \in Wanted(a) : file.want[a][p] # state.has[p]}
        /\ todo' = todo \ {a}

WriteAttribute(p) ==
    LET state == world.tenant[got.target][at]
    IN  /\ pc = "mutate" /\ p \in left
        /\ state.exists
        /\ Write(at, IF p = LocalId THEN [state EXCEPT !.managed = TRUE]
                     ELSE [state EXCEPT !.has[p] = file.want[at][p]])
        /\ left' = left \ {p}
        /\ UNCHANGED <<todo, at>>

\* A call is refused, or its outcome unclear: the plan fails fast.
CallFails == pc = "mutate" /\ Exit("error") /\ UNCHANGED got /\ Step /\ Keep

Applied ==
    /\ pc = "mutate" /\ todo = {} /\ left = {}
    /\ Exit("ok") /\ UNCHANGED got
    /\ Step /\ Keep

Mutates == \/ \E a \in Assets : CreateAsset(a) \/ UpdateAsset(a)
           \/ \E p \in Attributes \cup {LocalId} : WriteAttribute(p)

Command == \/ StartPlan \/ StartApply \/ ComposeEvidence \/ CheckFlags \/ Scan \/ ReadRemote
           \/ SavePlan \/ Fails \/ Killed \/ Gate \/ CallFails \/ Applied \/ Mutates

Rest == ~Observed /\ UNCHANGED vars

Next == \/ Command
        \/ SourceChanges \/ EvidenceChanges \/ ConfigurationChanges \/ OtherClient
        \/ Rest

Spec == Init /\ [][Next]_vars

-----------------------------------------------------------------------------
(* Properties.                                                             *)

TypeOK ==
    /\ world \in WorldSpace
    /\ file # NoPlan =>
          /\ file.version \in {1, 2} /\ file.settings \in Settings /\ file.target \in Targets
          /\ file.policy \subseteq Properties /\ file.base \in [Assets -> Descriptions]
          /\ file.remote \in [Assets -> RemoteAssets] /\ file.want \in [Assets -> Descriptions]
    /\ cmd \in [name : {"none", "plan", "apply"}, flags : BOOLEAN, review : Reviews, asof : Nat]
    /\ pc \in {"idle", "evidence", "flags", "scan", "read", "save", "gate", "mutate"}
    /\ got \in Knowledge
    /\ todo \subseteq Assets /\ at \in Assets \cup {0}
    /\ left \subseteq Attributes \cup {LocalId} /\ (left # {} => at # 0)
    /\ exit \in Outcomes
    /\ wrote \in BOOLEAN /\ met \in BOOLEAN
    /\ changes \in 0..MaxChanges /\ commands \in 0..MaxCommands
    /\ since \in [flags : BOOLEAN, changes : Nat, foreign : BOOLEAN, applies : Nat]

\* The command changes property p of asset a to something it did not read there.
Changes(t, a, p) ==
    /\ changes' = changes
    /\ world'.tenant[t][a].has[p] # world.tenant[t][a].has[p]
    /\ world'.tenant[t][a].has[p] # got.remote[a].has[p]

\* _cmd_apply executes a plan made earlier, from other reads: yet it changes a
\* property only on the target it resolves now, and only to the value that
\* planning from what it has just read itself would give.
WritesAreJustified ==
    [][\A t \in Targets, a \in Assets, p \in Properties : Changes(t, a, p) =>
          /\ t = got.target
          /\ got.settings = file.settings
          /\ world'.tenant[t][a].has[p]
                = Overlay(got.base[a], got.remote[a], got.decision[a])[p]]_vars

\* An unresolved or invalid conflict, in the evidence the apply composes itself, is
\* never overridden: no property with such a decision is changed (README.md:369).
ConflictsBlockWrites ==
    [][\A t \in Targets, a \in Assets, p \in Properties :
          Changes(t, a, p) => got.decision[a][p].state # "unsafe"]_vars

\* An apply does not evaluate the policies: even so it changes the tenant only
\* for a scanned model that the policies it has loaded accept.
RejectedModelsAreNotApplied ==
    [][wrote' /\ ~wrote => Accepts(got.policy, got.base)]_vars

\* While no other client changes the tenant, a saved plan changes it in one apply
\* at most: after any part of it, killed or failed, a second apply is refused.
PlanAppliesOnce == since.foreign \/ since.applies <= 1

\* Exit codes 2 to 5 (and a dry run) report that nothing was written; success of
\* an apply, that every value of the plan is in the tenant of the plan.
ExitTellsTheTruth ==
    /\ exit \in {"usage", "policy", "refused", "stale"} => ~wrote
    /\ wrote => cmd.name = "apply" /\ cmd.review = "apply"
    /\ exit = "ok" /\ cmd.name = "apply" /\ cmd.review = "apply" /\ ~met =>
          \A a \in Assets :
              /\ world.tenant[file.target][a].managed
              /\ \A p \in Properties : file.want[a][p] # None =>
                    world.tenant[file.target][a].has[p] = file.want[a][p]

\* A plan is refused as stale only after something changed since its generation
\* began, after it was applied, or when its evidence sources are not given again.
OnlyStalePlansAreRefused ==
    exit = "stale" /\ file.version = 2 =>
        \/ changes > since.changes \/ since.applies > 0 \/ cmd.flags # since.flags

\* An apply that passes the gate has the synchronization id to proceed: the
\* effective one, "override or derived" (integrations/collibra/synchronization.py:123).
EffectiveIdIsUsed == exit # "no synchronization id"
====
