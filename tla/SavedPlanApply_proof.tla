---- MODULE SavedPlanApply_proof ----
(***************************************************************************)
(* Proofs about SavedPlanApply: the type invariant, and that a plan made   *)
(* from earlier reads is applied only where planning from the reads of the *)
(* apply itself would write the same.                                      *)
(*                                                                         *)
(* The plan keeps the decisions of its boundary and nothing else of the    *)
(* evidence, so the invariant says what they are worth: on the boundary    *)
(* the plan is what they reconcile to (PlanInv), an apply that got past    *)
(* the evidence decides them the same way (AgreeInv), and an apply that    *)
(* writes has read what the plan was made from (GateInv).  A property that *)
(* is changed lies in the boundary.                                        *)
(*                                                                         *)
(* The second half is about a plan over several applies: what an exit says *)
(* of the writes (ExitInv, ProgressInv), that a plan once applied, if only *)
(* in part, is told from its tenant (OnceInv), and that a plan is current  *)
(* as long as nothing changed (CurrencyInv).                               *)
(***************************************************************************)
EXTENDS SavedPlanApply, TLAPS

Planned(a) == Boundary(file.base[a], file.remote[a], file.want[a])

\* The decision a plan was made with, for a property of its boundary.
DecisionOf(a, p) == IF file.version = 1 THEN NoDecision ELSE file.assumes[a][p]

\* On its boundary a saved plan is what its decisions reconcile to, safely.
PlanInv ==
    file # NoPlan =>
        /\ Accepts(file.policy, file.base)
        /\ file.version = 2 => \A a \in Assets : DOMAIN file.assumes[a] = Planned(a)
        /\ \A a \in Assets : \A p \in Planned(a) :
              /\ DecisionOf(a, p).state # "unsafe"
              /\ file.want[a][p]
                    = Reconciled(file.base[a][p], file.remote[a].has[p], DecisionOf(a, p))

PastEvidence == cmd.name = "apply" /\ pc \in {"flags", "scan", "read", "gate", "mutate"}

\* An apply past the evidence decides the boundary as the plan did.
AgreeInv ==
    PastEvidence => /\ file # NoPlan
                    /\ \A a \in Assets : \A p \in Planned(a) :
                          got.decision[a][p] = DecisionOf(a, p)

\* Who can be where; only an apply that has read what the plan was made from writes.
GateInv ==
    /\ pc \in {"flags", "gate", "mutate"} => cmd.name = "apply"
    /\ pc = "save" => cmd.name = "plan" /\ Accepts(got.policy, got.base)
    /\ pc = "read" /\ cmd.name = "plan" => Accepts(got.policy, got.base)
    /\ pc # "idle" /\ cmd.name = "apply" => file # NoPlan
    /\ pc = "evidence" => \A a \in Assets, p \in Properties : got.decision[a][p] = NoDecision
    /\ pc # "idle" => cmd.name # "none"
    /\ pc = "mutate" => Fresh

IInv == TypeOK /\ PlanInv /\ AgreeInv /\ GateInv

-----------------------------------------------------------------------------
(* Types of what the operators return.                                     *)

\* Reconciling a property yields a value or None.
LEMMA ReconciledType ==
    ASSUME NEW b \in Values \cup {None}, NEW r \in Values \cup {None}, NEW d \in Decisions
    PROVE  Reconciled(b, r, d) \in Values \cup {None}
  BY DEF Reconciled, Decisions, Safe, Unsafe, NoDecision

\* An asset that is not there is described by None alone.
LEMMA MissingType == Missing \in RemoteAssets /\ Missing.has \in Descriptions
  BY DEF Missing, RemoteAssets, Descriptions

LEMMA GoneType == Gone \in TenantAssets /\ Gone.has \in Descriptions /\ ~Gone.managed
  BY MissingType DEF Gone, TenantAssets

\* The asset of a tenant has a description.
LEMMA HasType ==
    ASSUME NEW x \in TenantAssets
    PROVE  x.has \in Descriptions /\ x.exists \in BOOLEAN /\ x.managed \in BOOLEAN
  <1>1. CASE x = Gone
    BY <1>1, GoneType DEF Gone
  <1>2. CASE x \in [exists : {TRUE}, managed : BOOLEAN, has : Descriptions]
    BY <1>2
  <1>3. QED
    BY <1>1, <1>2 DEF TenantAssets

LEMMA AsReadType ==
    ASSUME NEW tenant \in [Assets -> TenantAssets]
    PROVE  AsRead(tenant) \in [Assets -> RemoteAssets]
  BY HasType, MissingType DEF AsRead, RemoteAssets

LEMMA BlankType ==
    ASSUME NEW s \in Settings, NEW t \in Targets
    PROVE  Blank(s, t) \in Knowledge
  BY MissingType DEF Blank, Knowledge, Descriptions, Decisions

LEMMA OverlayType ==
    ASSUME NEW b \in Descriptions, NEW r \in RemoteAssets, NEW d \in [Properties -> Decisions]
    PROVE  Overlay(b, r, d) \in Descriptions
  <1>1. \A p \in Properties : Reconciled(b[p], r.has[p], d[p]) \in Values \cup {None}
    BY ReconciledType DEF Descriptions, RemoteAssets
  <1>2. QED
    BY <1>1 DEF Overlay, Descriptions

\* A boundary is a set of properties, and all that the plan would change lies in it.
LEMMA BoundaryType ==
    ASSUME NEW b, NEW r, NEW want
    PROVE  /\ Boundary(b, r, want) \subseteq Properties
           /\ \A p \in Properties :
                 want \in Descriptions /\ r.has \in Descriptions /\ want[p] # r.has[p]
                    => p \in Boundary(b, r, want)
  BY DEF Boundary, ActionType

\* What build_saved_plan records: what was read, and for each property of the
\* boundary its decision and what it reconciles to.
LEMMA PlanFromType ==
    ASSUME NEW v \in {1, 2}, NEW g \in Knowledge, NEW plan, plan = PlanFrom(v, g)
    PROVE  /\ plan # NoPlan /\ plan.version = v
           /\ plan.settings = g.settings /\ plan.target = g.target /\ plan.policy = g.policy
           /\ plan.base = g.base /\ plan.remote = g.remote
           /\ plan.want \in [Assets -> Descriptions]
           /\ \A a \in Assets :
                 /\ DOMAIN plan.assumes[a]
                       = Boundary(plan.base[a], plan.remote[a], plan.want[a])
                 /\ \A p \in Properties : plan.want[a][p]
                       = Reconciled(g.base[a][p], g.remote[a].has[p], g.decision[a][p])
                 /\ \A p \in DOMAIN plan.assumes[a] : plan.assumes[a][p] = g.decision[a][p]
  <1> DEFINE want == [a \in Assets |-> Overlay(g.base[a], g.remote[a], g.decision[a])]
             bound(a) == Boundary(g.base[a], g.remote[a], want[a])
  <1>1. /\ plan.version = v /\ plan.settings = g.settings /\ plan.target = g.target
        /\ plan.policy = g.policy /\ plan.base = g.base /\ plan.remote = g.remote
        /\ plan.want = want
        /\ plan.assumes = [a \in Assets |->
              Assumptions(g.base[a], g.remote[a], g.decision[a], want[a])]
    BY DEF PlanFrom
  <1>2. plan # NoPlan
    BY <1>1 DEF NoPlan
  <1>3. want \in [Assets -> Descriptions]
    BY OverlayType DEF Knowledge
  <1>5. \A a \in Assets : \A p \in Properties :
           want[a][p] = Reconciled(g.base[a][p], g.remote[a].has[p], g.decision[a][p])
    BY DEF Overlay
  <1>6. \A a \in Assets : plan.assumes[a] = [p \in bound(a) |-> g.decision[a][p]]
    BY <1>1 DEF Assumptions, OnBoundary
  <1>7. \A a \in Assets :
           /\ DOMAIN plan.assumes[a] = bound(a)
           /\ \A p \in bound(a) : plan.assumes[a][p] = g.decision[a][p]
    BY <1>6
  <1>8. \A a \in Assets :
           bound(a) = Boundary(plan.base[a], plan.remote[a], plan.want[a])
    BY <1>1
  <1>9. QED
    <2> HIDE DEF want
    <2>1. \A a \in Assets :
             /\ DOMAIN plan.assumes[a]
                   = Boundary(plan.base[a], plan.remote[a], plan.want[a])
             /\ \A p \in DOMAIN plan.assumes[a] : plan.assumes[a][p] = g.decision[a][p]
      <3> HIDE DEF bound
      <3> QED
        BY <1>7, <1>8
    <2>2. QED
      BY <1>1, <1>2, <1>3, <1>5, <2>1

-----------------------------------------------------------------------------
(* Type correctness.                                                       *)

\* What a command has read stays typed when it reads another part.
LEMMA ReadType ==
    ASSUME TypeOK
    PROVE  /\ [got EXCEPT !.policy = world.policy] \in Knowledge
           /\ [got EXCEPT !.base = world.base] \in Knowledge
           /\ [got EXCEPT !.decision = world.evidence] \in Knowledge
           /\ [got EXCEPT !.decision = got.decision] \in Knowledge
           /\ [got EXCEPT !.remote = AsRead(world.tenant[got.target])] \in Knowledge
  <1>1. AsRead(world.tenant[got.target]) \in [Assets -> RemoteAssets]
    BY AsReadType DEF TypeOK, WorldSpace, Knowledge
  <1>2. QED
    BY <1>1 DEF TypeOK, WorldSpace, Knowledge

\* A tenant stays typed when one asset changes.
LEMMA TenantType ==
    ASSUME world \in WorldSpace, NEW t \in Targets, NEW a \in Assets, NEW x \in TenantAssets
    PROVE  /\ [world EXCEPT !.tenant[t][a] = x] \in WorldSpace
           /\ [world EXCEPT !.tenant = [world.tenant EXCEPT ![t][a] = x]] \in WorldSpace
  BY DEF WorldSpace

LEMMA ExistingType ==
    ASSUME NEW x \in TenantAssets, x.exists
    PROVE  x \in [exists : {TRUE}, managed : BOOLEAN, has : Descriptions]
  <1>1. x # Gone
    BY DEF Gone
  <1>2. QED
    BY <1>1 DEF TenantAssets

\* An existing asset stays typed when one property changes, or when it becomes managed.
LEMMA WrittenType ==
    ASSUME NEW x \in TenantAssets, x.exists,
           NEW p \in Properties, NEW v \in Values \cup {None}
    PROVE  /\ [x EXCEPT !.has[p] = v] \in TenantAssets
           /\ [x EXCEPT !.managed = TRUE] \in TenantAssets
  <1>1. x \in [exists : {TRUE}, managed : BOOLEAN, has : Descriptions]
    BY ExistingType
  <1>2. [x.has EXCEPT ![p] = v] \in Descriptions
    BY <1>1 DEF Descriptions
  <1>3. QED
    BY <1>1, <1>2 DEF TenantAssets

\* Init yields typed states; a first plan is one of version 1.
LEMMA TypeInit == Init => TypeOK
  <1> SUFFICES ASSUME Init PROVE TypeOK
    OBVIOUS
  <1> DEFINE g == [Blank(world.settings, world.target) EXCEPT
                     !.policy = world.policy, !.base = world.base,
                     !.remote = AsRead(world.tenant[world.target])]
  <1>1. world \in WorldSpace
    BY WorldAssumption DEF Init
  <1>2. Blank(world.settings, world.target) \in Knowledge
    BY <1>1, BlankType DEF WorldSpace
  <1>3. AsRead(world.tenant[world.target]) \in [Assets -> RemoteAssets]
    BY <1>1, AsReadType DEF WorldSpace
  <1>4. g \in Knowledge
    BY <1>1, <1>2, <1>3 DEF WorldSpace, Knowledge
  <1>5. file = NoPlan \/ file = PlanFrom(1, g)
    BY DEF Init
  <1>6. file # NoPlan => /\ file.version \in {1, 2} /\ file.settings \in Settings
                         /\ file.target \in Targets /\ file.policy \subseteq Properties
                         /\ file.base \in [Assets -> Descriptions]
                         /\ file.remote \in [Assets -> RemoteAssets]
                         /\ file.want \in [Assets -> Descriptions]
    <2> HIDE DEF g
    <2> QED
      BY <1>4, <1>5, PlanFromType DEF Knowledge
  <1>7. /\ cmd \in [name : {"none", "plan", "apply"}, flags : BOOLEAN, review : Reviews, asof : Nat]
        /\ since \in [flags : BOOLEAN, changes : Nat, foreign : BOOLEAN, applies : Nat]
        /\ exit \in Outcomes /\ got \in Knowledge
    BY <1>2 DEF Init, Reviews, Outcomes
  <1>8. /\ pc = "idle" /\ todo = {} /\ at = 0 /\ left = {} /\ wrote = FALSE /\ met = FALSE
        /\ changes = 0 /\ commands = 0
    BY DEF Init
  <1>9. changes \in 0..MaxChanges /\ commands \in 0..MaxCommands
    <2>1. MaxChanges \in Nat /\ MaxCommands \in Nat
      BY AssetAssumption
    <2>2. QED
      BY <2>1, <1>8
  <1> HIDE DEF g
  <1>10. QED
    BY <1>1, <1>6, <1>7, <1>8, <1>9 DEF TypeOK

\* A change from outside leaves the command alone.
LEMMA OutsideType ==
    ASSUME TypeOK, NEW w \in WorldSpace, world' = w, changes' = changes + 1,
           changes < MaxChanges, Outside, met' \in BOOLEAN,
           since' = since \/ since' = [since EXCEPT !.foreign = TRUE]
    PROVE  TypeOK'
  <1>1. since' \in [flags : BOOLEAN, changes : Nat, foreign : BOOLEAN, applies : Nat]
    BY DEF TypeOK
  <1>2. changes' \in 0..MaxChanges
    BY AssetAssumption DEF TypeOK
  <1>3. QED
    BY <1>1, <1>2 DEF TypeOK, Outside, running, writing

LEMMA ReconfiguredType ==
    ASSUME TypeOK, SourceChanges \/ EvidenceChanges \/ ConfigurationChanges
    PROVE  TypeOK'
  <1>1. ASSUME NEW w \in WorldSpace, ReconfiguredTo(w) PROVE TypeOK'
    BY <1>1, OutsideType DEF ReconfiguredTo, TypeOK
  <1>2. CASE SourceChanges
    <2>1. PICK a \in Assets, p \in Properties, v \in Values \cup {None} :
             ReconfiguredTo([world EXCEPT !.base[a][p] = v])
      BY <1>2 DEF SourceChanges
    <2>2. [world EXCEPT !.base[a][p] = v] \in WorldSpace
      BY DEF TypeOK, WorldSpace, Descriptions
    <2>3. QED
      BY <2>1, <2>2, <1>1
  <1>3. CASE EvidenceChanges
    <2>1. PICK a \in Assets, p \in Properties, d \in Decisions :
             ReconfiguredTo([world EXCEPT !.evidence[a][p] = d])
      BY <1>3 DEF EvidenceChanges
    <2>2. [world EXCEPT !.evidence[a][p] = d] \in WorldSpace
      BY DEF TypeOK, WorldSpace
    <2>3. QED
      BY <2>1, <2>2, <1>1
  <1>4. CASE ConfigurationChanges
    <2>1. \/ \E s \in Settings : ReconfiguredTo([world EXCEPT !.settings = s])
          \/ \E t \in Targets : ReconfiguredTo([world EXCEPT !.target = t])
          \/ \E required \in SUBSET Properties :
                ReconfiguredTo([world EXCEPT !.policy = required])
      BY <1>4 DEF ConfigurationChanges
    <2>2. /\ \A s \in Settings : [world EXCEPT !.settings = s] \in WorldSpace
          /\ \A t \in Targets : [world EXCEPT !.target = t] \in WorldSpace
          /\ \A required \in SUBSET Properties :
                [world EXCEPT !.policy = required] \in WorldSpace
      BY DEF TypeOK, WorldSpace
    <2>3. QED
      BY <2>1, <2>2, <1>1
  <1>5. QED
    BY <1>2, <1>3, <1>4

LEMMA OtherClientType ==
    ASSUME TypeOK, OtherClient
    PROVE  TypeOK'
  <1>1. PICK t \in Targets, a \in Assets, x \in TenantAssets :
           TenantChanges([world.tenant EXCEPT ![t][a] = x])
    <2>1. PICK t \in Targets, a \in Assets :
             /\ world.tenant[t][a].exists
             /\ \/ TenantChanges([world.tenant EXCEPT ![t][a] = Gone])
                \/ \E p \in Properties, v \in Values \cup {None} :
                      TenantChanges([world.tenant EXCEPT ![t][a].has[p] = v])
      BY DEF OtherClient
    <2>2. world.tenant[t][a] \in TenantAssets
      BY DEF TypeOK, WorldSpace
    <2>3. CASE TenantChanges([world.tenant EXCEPT ![t][a] = Gone])
      BY <2>3, GoneType
    <2>4. CASE \E p \in Properties, v \in Values \cup {None} :
                  TenantChanges([world.tenant EXCEPT ![t][a].has[p] = v])
      <3>1. PICK p \in Properties, v \in Values \cup {None} :
               TenantChanges([world.tenant EXCEPT ![t][a].has[p] = v])
        BY <2>4
      <3> DEFINE x == [world.tenant[t][a] EXCEPT !.has[p] = v]
      <3>2. x \in TenantAssets
        BY <2>1, <2>2, WrittenType
      <3>3. [world.tenant EXCEPT ![t][a].has[p] = v] = [world.tenant EXCEPT ![t][a] = x]
        OBVIOUS
      <3>4. QED
        BY <3>1, <3>2, <3>3
    <2>5. QED
      BY <2>1, <2>3, <2>4
  <1> DEFINE w == [world EXCEPT !.tenant = [world.tenant EXCEPT ![t][a] = x]]
  <1>2. w \in WorldSpace
    BY TenantType DEF TypeOK
  <1>3. /\ world' = w /\ changes < MaxChanges /\ changes' = changes + 1 /\ met' = TRUE
        /\ since' = [since EXCEPT !.foreign = TRUE] /\ Outside
    BY <1>1 DEF TenantChanges
  <1>4. QED
    BY <1>2, <1>3, OutsideType

\* A call that writes an asset.
LEMMA WriteType ==
    ASSUME TypeOK, NEW a \in Assets, NEW x \in TenantAssets, Write(a, x),
           todo' \subseteq Assets, at' \in Assets, left' \subseteq Attributes \cup {LocalId}
    PROVE  TypeOK'
  <1>1. world' \in WorldSpace
    BY TenantType DEF Write, TypeOK, Knowledge
  <1>2. wrote' \in BOOLEAN
    BY HasType DEF Write, TypeOK
  <1>3. since' \in [flags : BOOLEAN, changes : Nat, foreign : BOOLEAN, applies : Nat]
    BY DEF Write, TypeOK
  <1>4. at' # 0
    BY AssetAssumption
  <1>5. QED
    BY <1>1, <1>2, <1>3, <1>4 DEF Write, TypeOK, running

\* What an update writes first: its header, or nothing.
Header(a) ==
    IF /\ file.want[a][DisplayName] # file.remote[a].has[DisplayName]
       /\ file.want[a][DisplayName] # None
    THEN [world.tenant[got.target][a] EXCEPT !.has[DisplayName] = file.want[a][DisplayName]]
    ELSE world.tenant[got.target][a]

LEMMA MutatesType ==
    ASSUME TypeOK, Mutates, file # NoPlan
    PROVE  TypeOK'
  <1>1. DisplayName \in Properties /\ Attributes \subseteq Properties
    BY DEF Properties
  <1>2. /\ file.want \in [Assets -> [Properties -> Values \cup {None}]]
        /\ \A a \in Assets : world.tenant[got.target][a] \in TenantAssets
        /\ \A a \in Assets : Wanted(a) \subseteq Attributes
    BY DEF TypeOK, WorldSpace, Knowledge, Descriptions, Wanted
  <1>3. ASSUME NEW a \in Assets, CreateAsset(a) PROVE TypeOK'
    <2> DEFINE has == [Missing.has EXCEPT ![DisplayName] = file.want[a][DisplayName]]
               x == [exists |-> TRUE, managed |-> FALSE, has |-> has]
    <2>1. has \in Descriptions
      BY <1>1, <1>2, MissingType DEF Descriptions
    <2>2. x \in TenantAssets
      BY <2>1 DEF TenantAssets
    <2>3. /\ Write(a, x) /\ at' = a
          /\ left' = Wanted(a) \cup {LocalId} /\ todo' = todo \ {a}
      BY <1>3 DEF CreateAsset
    <2>4. todo' \subseteq Assets /\ left' \subseteq Attributes \cup {LocalId}
      BY <2>3, <1>2 DEF TypeOK
    <2>5. QED
      <3> HIDE DEF x
      <3> QED
        BY <2>2, <2>3, <2>4, WriteType
  <1>4. ASSUME NEW a \in Assets, UpdateAsset(a) PROVE TypeOK'
    <2>1. /\ world.tenant[got.target][a].exists /\ Write(a, Header(a))
          /\ at' = a /\ left' \subseteq Wanted(a) /\ todo' = todo \ {a}
      BY <1>4 DEF UpdateAsset, Header
    <2>2. Header(a) \in TenantAssets
      BY <1>1, <1>2, <2>1, WrittenType DEF Header
    <2>3. todo' \subseteq Assets /\ left' \subseteq Attributes \cup {LocalId}
      BY <2>1, <1>2 DEF TypeOK
    <2>4. QED
      BY <2>1, <2>2, <2>3, WriteType
  <1>5. ASSUME NEW p \in Attributes \cup {LocalId}, WriteAttribute(p) PROVE TypeOK'
    <2> DEFINE x == IF p = LocalId THEN [world.tenant[got.target][at] EXCEPT !.managed = TRUE]
                    ELSE [world.tenant[got.target][at] EXCEPT !.has[p] = file.want[at][p]]
    <2>1. /\ world.tenant[got.target][at].exists /\ Write(at, x) /\ p \in left
          /\ at' = at /\ left' = left \ {p} /\ todo' = todo
      BY <1>5 DEF WriteAttribute
    <2>2. at \in Assets
      BY <2>1 DEF TypeOK
    <2>3. x \in TenantAssets
      BY <1>1, <1>2, <2>1, <2>2, WrittenType
    <2>4. todo' \subseteq Assets /\ left' \subseteq Attributes \cup {LocalId}
      BY <2>1 DEF TypeOK
    <2>5. QED
      <3> HIDE DEF x
      <3> QED
        BY <2>1, <2>2, <2>3, <2>4, WriteType
  <1>6. QED
    BY <1>3, <1>4, <1>5 DEF Mutates

Labels == {"idle", "evidence", "flags", "scan", "read", "save", "gate", "mutate"}

\* A step of a command that changes neither the tenant nor the plan.
LEMMA StepType ==
    ASSUME TypeOK, Step, UNCHANGED <<file, cmd, at, left, wrote, since>>,
           got' \in Knowledge, pc' \in Labels, exit' \in Outcomes, todo' \subseteq Assets
    PROVE  TypeOK'
  BY DEF TypeOK, Step, Labels

\* A step is to the next label, or the end of the command.
LEMMA LabelType ==
    ASSUME TypeOK,
           \/ \E label \in Labels : Goto(label)
           \/ \E outcome \in Outcomes : Exit(outcome)
    PROVE  pc' \in Labels /\ exit' \in Outcomes
  BY DEF Goto, Exit, Labels, TypeOK

LEMMA BeginType ==
    ASSUME TypeOK, NEW name \in {"plan", "apply"}, NEW flags \in BOOLEAN, NEW review \in Reviews,
           NEW label \in Labels, NEW outcome \in Outcomes,
           Begin(name, flags, review, label, outcome)
    PROVE  TypeOK'
  <1>1. got' \in Knowledge
    <2> DEFINE known == Blank(world.settings, world.target)
    <2>1. known \in Knowledge
      BY BlankType DEF TypeOK, WorldSpace
    <2>2. \A policy \in SUBSET Properties : [known EXCEPT !.policy = policy] \in Knowledge
      <3> HIDE DEF known
      <3> QED
        BY <2>1 DEF Knowledge
    <2>3. got' = [known EXCEPT !.policy = IF name = "plan" THEN world.policy ELSE {}]
      BY DEF Begin
    <2>4. QED
      BY <2>2, <2>3 DEF TypeOK, WorldSpace
  <1>2. cmd' \in [name : {"none", "plan", "apply"}, flags : BOOLEAN, review : Reviews, asof : Nat]
    BY DEF Begin, TypeOK
  <1>3. commands' \in 0..MaxCommands
    BY AssetAssumption DEF Begin, TypeOK
  <1>4. /\ UNCHANGED <<world, file, changes, since>>
        /\ todo' = {} /\ at' = 0 /\ left' = {} /\ wrote' = FALSE /\ met' = FALSE
        /\ pc' \in Labels /\ exit' \in Outcomes
    BY DEF Begin
  <1>5. QED
    BY <1>1, <1>2, <1>3, <1>4 DEF TypeOK, Labels

LEMMA StartType ==
    ASSUME TypeOK, StartPlan \/ StartApply
    PROVE  TypeOK'
  <1>1. \E flags \in BOOLEAN, review \in Reviews :
           \/ Begin("plan", flags, review, "evidence", "running")
           \/ Begin("apply", flags, review, "evidence", "running")
           \/ Begin("apply", flags, review, "idle", "usage")
    BY DEF StartPlan, StartApply, Reviews
  <1>2. "evidence" \in Labels /\ "idle" \in Labels /\ "running" \in Outcomes /\ "usage" \in Outcomes
    BY DEF Labels, Outcomes
  <1>3. QED
    BY <1>1, <1>2, BeginType

LEMMA ReadingType ==
    ASSUME TypeOK, ComposeEvidence \/ CheckFlags \/ Scan \/ ReadRemote \/ Fails \/ Killed
                     \/ Gate \/ CallFails \/ Applied
    PROVE  TypeOK'
  <1>1. got \in Knowledge /\ todo \subseteq Assets
    BY DEF TypeOK
  <1>2. CASE ComposeEvidence
    <2>1. got' \in {got, [got EXCEPT !.decision = world.evidence],
                    [got EXCEPT !.decision = got.decision]}
      BY <1>2 DEF ComposeEvidence
    <2>2. \/ \E label \in Labels : Goto(label)
          \/ \E outcome \in Outcomes : Exit(outcome)
      BY <1>2 DEF ComposeEvidence, Labels, Outcomes
    <2>3. Step /\ Keep
      BY <1>2 DEF ComposeEvidence
    <2>4. QED
      BY <1>1, <2>1, <2>2, <2>3, ReadType, LabelType, StepType DEF Keep, writing
  <1>3. CASE CheckFlags
    <2>1. got' \in {got, [got EXCEPT !.policy = world.policy]}
      BY <1>3 DEF CheckFlags
    <2>2. \/ \E label \in Labels : Goto(label)
          \/ \E outcome \in Outcomes : Exit(outcome)
      BY <1>3 DEF CheckFlags, Labels, Outcomes
    <2>3. Step /\ Keep
      BY <1>3 DEF CheckFlags
    <2>4. QED
      BY <1>1, <2>1, <2>2, <2>3, ReadType, LabelType, StepType DEF Keep, writing
  <1>4. CASE Scan
    <2>1. got' = [got EXCEPT !.base = world.base]
      BY <1>4 DEF Scan
    <2>2. \/ \E label \in Labels : Goto(label)
          \/ \E outcome \in Outcomes : Exit(outcome)
      BY <1>4 DEF Scan, Labels, Outcomes
    <2>3. Step /\ Keep
      BY <1>4 DEF Scan
    <2>4. QED
      BY <1>1, <2>1, <2>2, <2>3, ReadType, LabelType, StepType DEF Keep, writing
  <1>5. CASE ReadRemote
    <2>1. got' = [got EXCEPT !.remote = AsRead(world.tenant[got.target])]
      BY <1>5 DEF ReadRemote
    <2>2. \/ \E label \in Labels : Goto(label)
          \/ \E outcome \in Outcomes : Exit(outcome)
      BY <1>5 DEF ReadRemote, Labels, Outcomes
    <2>3. Step /\ Keep
      BY <1>5 DEF ReadRemote
    <2>4. QED
      BY <1>1, <2>1, <2>2, <2>3, ReadType, LabelType, StepType DEF Keep, writing
  <1>6. CASE Fails \/ Killed \/ CallFails \/ Applied
    <2>1. \E outcome \in Outcomes : Exit(outcome)
      BY <1>6 DEF Fails, Killed, CallFails, Applied, Outcomes
    <2>2. Step /\ Keep /\ UNCHANGED got
      BY <1>6 DEF Fails, Killed, CallFails, Applied
    <2>3. QED
      BY <1>1, <2>1, <2>2, LabelType, StepType DEF Keep, writing
  <1>7. CASE Gate
    <2>1. \/ \E label \in Labels : Goto(label)
          \/ \E outcome \in Outcomes : Exit(outcome)
      BY <1>7 DEF Gate, Labels, Outcomes
    <2>2. Step /\ UNCHANGED <<file, cmd, got, at, left, wrote, since>>
      BY <1>7 DEF Gate
    <2>3. todo' = todo \/ todo' = {a \in Assets : ActionOf(a) # "UNCHANGED"}
      BY <1>7 DEF Gate
    <2>4. QED
      BY <1>1, <2>1, <2>2, <2>3, LabelType, StepType
  <1>8. QED
    BY <1>2, <1>3, <1>4, <1>5, <1>6, <1>7

LEMMA SavePlanType ==
    ASSUME TypeOK, SavePlan
    PROVE  TypeOK'
  <1>1. CASE Savable(PlanFrom(2, got))
    <2>1. /\ file' = PlanFrom(2, got)
          /\ since' = [flags |-> cmd.flags, changes |-> cmd.asof,
                       foreign |-> met, applies |-> 0]
          /\ Exit("ok") /\ Step /\ UNCHANGED <<cmd, got, writing>>
      BY <1>1 DEF SavePlan
    <2>2. since' \in [flags : BOOLEAN, changes : Nat, foreign : BOOLEAN, applies : Nat]
      BY <2>1 DEF TypeOK
    <2>3. /\ file'.version \in {1, 2} /\ file'.settings \in Settings /\ file'.target \in Targets
          /\ file'.policy \subseteq Properties /\ file'.base \in [Assets -> Descriptions]
          /\ file'.remote \in [Assets -> RemoteAssets] /\ file'.want \in [Assets -> Descriptions]
      BY <2>1, PlanFromType DEF TypeOK, Knowledge
    <2>4. pc' = "idle" /\ exit' \in Outcomes
      BY <2>1 DEF Exit, Outcomes
    <2>5. QED
      BY <2>1, <2>2, <2>3, <2>4 DEF TypeOK, Step, writing
  <1>2. CASE ~Savable(PlanFrom(2, got))
    <2>1. /\ Exit("refused") /\ UNCHANGED <<file, since>>
          /\ Step /\ UNCHANGED <<cmd, got, writing>>
      BY <1>2 DEF SavePlan
    <2>2. QED
      BY <2>1, LabelType, StepType DEF writing, Outcomes, TypeOK
  <1>3. QED
    BY <1>1, <1>2

LEMMA TypeNext ==
    ASSUME IInv, [Next]_vars
    PROVE  TypeOK'
  <1>1. TypeOK
    BY DEF IInv
  <1>2. CASE StartPlan \/ StartApply
    BY <1>1, <1>2, StartType
  <1>3. CASE ComposeEvidence \/ CheckFlags \/ Scan \/ ReadRemote \/ Fails \/ Killed
               \/ Gate \/ CallFails \/ Applied
    BY <1>1, <1>3, ReadingType
  <1>4. CASE SavePlan
    BY <1>1, <1>4, SavePlanType
  <1>5. CASE Mutates
    <2>1. pc = "mutate"
      BY <1>5 DEF Mutates, CreateAsset, UpdateAsset, WriteAttribute
    <2>2. file # NoPlan
      BY <2>1 DEF IInv, GateInv
    <2>3. QED
      BY <1>1, <1>5, <2>2, MutatesType
  <1>6. CASE SourceChanges \/ EvidenceChanges \/ ConfigurationChanges
    BY <1>1, <1>6, ReconfiguredType
  <1>7. CASE OtherClient
    BY <1>1, <1>7, OtherClientType
  <1>8. CASE Rest \/ UNCHANGED vars
    BY <1>1, <1>8 DEF Rest, vars, running, writing, TypeOK
  <1>9. QED
    BY <1>2, <1>3, <1>4, <1>5, <1>6, <1>7, <1>8 DEF Next, Command

-----------------------------------------------------------------------------
(* The invariant.                                                          *)

\* The saved plan keeps its worth while its file is left alone.
LEMMA PlanKept ==
    ASSUME PlanInv, file' = file
    PROVE  /\ PlanInv'
           /\ \A a \in Assets : Planned(a)' = Planned(a)
           /\ \A a, p : DecisionOf(a, p)' = DecisionOf(a, p)
  BY DEF PlanInv, Planned, DecisionOf

\* A step that leaves the command where it is.
LEMMA QuietStep ==
    ASSUME IInv, UNCHANGED <<file, cmd, got, pc>>
    PROVE  PlanInv' /\ AgreeInv' /\ GateInv'
  BY PlanKept DEF IInv, AgreeInv, PastEvidence, GateInv, Fresh

\* A step that ends the command.
LEMMA LastStep ==
    ASSUME IInv, file' = file, pc' = "idle"
    PROVE  PlanInv' /\ AgreeInv' /\ GateInv'
  BY PlanKept DEF IInv, AgreeInv, PastEvidence, GateInv

LEMMA InvInit == Init => IInv
  <1> SUFFICES ASSUME Init PROVE IInv
    OBVIOUS
  <1> DEFINE g == [Blank(world.settings, world.target) EXCEPT
                     !.policy = world.policy, !.base = world.base,
                     !.remote = AsRead(world.tenant[world.target])]
  <1>1. TypeOK
    BY TypeInit
  <1>2. /\ pc = "idle"
        /\ file = NoPlan \/ (Accepts(world.policy, world.base) /\ file = PlanFrom(1, g))
    <2>1. pc = "idle"
      BY DEF Init
    <2>2. file = NoPlan \/ (Accepts(world.policy, world.base) /\ file = PlanFrom(1, g))
      BY Zenon DEF Init
    <2>3. QED
      BY <2>1, <2>2
  <1>3. g \in Knowledge
    <2>1. Blank(world.settings, world.target) \in Knowledge
      BY <1>1, BlankType DEF TypeOK, WorldSpace
    <2>2. AsRead(world.tenant[world.target]) \in [Assets -> RemoteAssets]
      BY <1>1, AsReadType DEF TypeOK, WorldSpace
    <2>3. QED
      BY <1>1, <2>1, <2>2 DEF TypeOK, WorldSpace, Knowledge
  <1>4. /\ g.policy = world.policy /\ g.base = world.base
        /\ \A a \in Assets : \A p \in Properties : g.decision[a][p] = NoDecision
    BY DEF Blank
  <1>5. PlanInv
    <2> HIDE DEF g
    <2> SUFFICES ASSUME file # NoPlan PROVE PlanInv
      BY DEF PlanInv
    <2>1. file = PlanFrom(1, g) /\ Accepts(world.policy, world.base)
      BY <1>2
    <2>2. /\ file.version = 1 /\ file.base = g.base /\ file.remote = g.remote
          /\ file.policy = g.policy
          /\ \A a \in Assets : \A p \in Properties : file.want[a][p]
                = Reconciled(g.base[a][p], g.remote[a].has[p], g.decision[a][p])
      BY <1>3, <2>1, PlanFromType
    <2>3. \A a \in Assets : Planned(a) \subseteq Properties
      BY BoundaryType DEF Planned
    <2>4. \A a, p : DecisionOf(a, p) = NoDecision
      BY <2>2 DEF DecisionOf
    <2>5. NoDecision.state # "unsafe"
      BY DEF NoDecision
    <2>6. QED
      BY <1>4, <2>1, <2>2, <2>3, <2>4, <2>5 DEF PlanInv
  <1>6. QED
    BY <1>1, <1>2, <1>5 DEF IInv, AgreeInv, PastEvidence, GateInv

\* A new plan is what the decisions read reconcile to, and safe.
LEMMA SavePlanInv ==
    ASSUME IInv, SavePlan
    PROVE  PlanInv' /\ AgreeInv' /\ GateInv'
  <1>1. CASE ~Savable(PlanFrom(2, got))
    BY <1>1, LastStep DEF SavePlan, Exit
  <1>2. CASE Savable(PlanFrom(2, got))
    <2>1. file' = PlanFrom(2, got) /\ pc' = "idle"
      BY <1>2 DEF SavePlan, Exit
    <2>2. got \in Knowledge /\ Accepts(got.policy, got.base)
      BY DEF IInv, TypeOK, GateInv, SavePlan
    <2> DEFINE plan == file'
    <2>3. /\ plan.version = 2 /\ plan.policy = got.policy /\ plan.base = got.base
          /\ plan.remote = got.remote
          /\ \A a \in Assets :
                /\ DOMAIN plan.assumes[a] = Boundary(plan.base[a], plan.remote[a], plan.want[a])
                /\ \A p \in Properties : plan.want[a][p]
                      = Reconciled(got.base[a][p], got.remote[a].has[p], got.decision[a][p])
                /\ \A p \in DOMAIN plan.assumes[a] : plan.assumes[a][p] = got.decision[a][p]
      BY <2>1, <2>2, PlanFromType
    <2>4. \A a \in Assets : \A p \in DOMAIN plan.assumes[a] :
             plan.assumes[a][p].state # "unsafe"
      BY <1>2, <2>1 DEF Savable, SafeBoundary
    <2>5. \A a \in Assets : Boundary(plan.base[a], plan.remote[a], plan.want[a]) \subseteq Properties
      BY BoundaryType
    <2>6. PlanInv'
      BY <2>2, <2>3, <2>4, <2>5 DEF PlanInv, Planned, DecisionOf
    <2>7. QED
      BY <2>1, <2>6 DEF AgreeInv, PastEvidence, GateInv
  <1>3. QED
    BY <1>1, <1>2

\* An apply that gets past the evidence decides the boundary as the plan did.
LEMMA ComposeInv ==
    ASSUME IInv, ComposeEvidence
    PROVE  PlanInv' /\ AgreeInv' /\ GateInv'
  <1> DEFINE decision == IF cmd.flags THEN world.evidence ELSE got.decision
  <1>1. pc = "evidence" /\ UNCHANGED <<file, cmd>> /\ cmd.name \in {"plan", "apply"}
    BY DEF ComposeEvidence, Keep, IInv, TypeOK, GateInv
  <1>2. CASE cmd.name = "plan"
    <2>1. pc' = "scan" /\ cmd'.name = "plan"
      BY <1>1, <1>2 DEF ComposeEvidence, Goto
    <2>2. QED
      BY <2>1, <1>1, PlanKept DEF IInv, AgreeInv, PastEvidence, GateInv
  <1>3. CASE cmd.name = "apply" /\ StaleEvidence(decision)
    BY <1>1, <1>3, LastStep DEF ComposeEvidence, Exit
  <1>4. CASE cmd.name = "apply" /\ ~StaleEvidence(decision)
    <2>1. pc' = "flags" /\ got' = [got EXCEPT !.decision = decision]
      BY <1>4 DEF ComposeEvidence, Goto
    <2>2. got'.decision = decision
      BY <2>1 DEF IInv, TypeOK, Knowledge
    <2>3. file # NoPlan /\ file.version \in {1, 2}
      BY <1>1, <1>4 DEF IInv, GateInv, TypeOK
    <2>4. \A a \in Assets : \A p \in Planned(a) : decision[a][p] = DecisionOf(a, p)
      <3>1. CASE file.version = 1
        <4>1. decision = got.decision
          BY <1>4, <3>1 DEF StaleEvidence
        <4>2. \A a \in Assets : Planned(a) \subseteq Properties
          BY BoundaryType DEF Planned
        <4>3. QED
          BY <1>1, <3>1, <4>1, <4>2 DEF IInv, GateInv, DecisionOf
      <3>2. CASE file.version = 2
        <4> HIDE DEF decision
        <4>1. Recomputed(decision) = file.assumes
          BY <1>4, <3>2 DEF StaleEvidence
        <4>2. \A a \in Assets :
                 file.assumes[a] = [p \in DOMAIN file.assumes[a] |-> decision[a][p]]
          BY <4>1 DEF Recomputed, OnBoundary
        <4>3. \A a \in Assets : DOMAIN file.assumes[a] = Planned(a)
          BY <2>3, <3>2 DEF IInv, PlanInv
        <4>4. \A a \in Assets : \A p \in DOMAIN file.assumes[a] :
                 file.assumes[a][p] = decision[a][p]
          BY <4>2
        <4>5. QED
          BY <3>2, <4>3, <4>4 DEF DecisionOf
      <3>3. QED
        BY <2>3, <3>1, <3>2
    <2>5. PlanInv' /\ AgreeInv'
      <3> HIDE DEF decision
      <3> QED
        BY <1>1, <2>2, <2>3, <2>4, PlanKept DEF IInv, AgreeInv
    <2>6. GateInv'
      BY <1>1, <1>4, <2>1, <2>3 DEF GateInv
    <2>7. QED
      BY <2>5, <2>6
  <1>5. QED
    BY <1>1, <1>2, <1>3, <1>4

\* The other steps of a command: what was read of the evidence stays.
LEMMA ReadingInv ==
    ASSUME IInv, CheckFlags \/ Scan \/ ReadRemote \/ Gate
    PROVE  PlanInv' /\ AgreeInv' /\ GateInv'
  <1>1. UNCHANGED <<file, cmd>>
    BY DEF CheckFlags, Scan, ReadRemote, Gate, Keep
  <1>2. got \in Knowledge
    BY DEF IInv, TypeOK
  <1>3. got'.decision = got.decision
    BY <1>2 DEF CheckFlags, Scan, ReadRemote, Gate, Knowledge
  <1>4. PlanInv'
    BY <1>1, PlanKept DEF IInv
  <1>5. AgreeInv'
    <2>1. PastEvidence' => PastEvidence
      BY <1>1 DEF PastEvidence, CheckFlags, Scan, ReadRemote, Gate
    <2>2. QED
      BY <1>1, <1>3, <2>1, PlanKept DEF IInv, AgreeInv
  <1>6. GateInv'
    <2>1. CASE CheckFlags
      BY <2>1, <1>1 DEF CheckFlags, Goto, Exit, IInv, GateInv
    <2>2. CASE Scan
      <3>1. got'.base = world.base /\ got'.policy = got.policy
        BY <2>2, <1>2 DEF Scan, Knowledge
      <3>2. pc' \in {"idle", "read", "gate"}
        BY <2>2 DEF Scan, Goto, Exit
      <3>3. pc' = "read" /\ cmd.name = "plan" => Accepts(got'.policy, got'.base)
        BY <2>2, <3>1 DEF Scan, Goto, Exit
      <3>4. pc' = "gate" => cmd.name = "apply"
        BY <2>2 DEF Scan, Goto, Exit, IInv, GateInv, TypeOK
      <3>5. QED
        BY <2>2, <1>1, <3>2, <3>3, <3>4 DEF Scan, IInv, GateInv
    <2>3. CASE ReadRemote
      <3>1. got'.base = got.base /\ got'.policy = got.policy
        BY <2>3, <1>2 DEF ReadRemote, Knowledge
      <3>2. pc = "read" /\ pc' = IF cmd.name = "plan" THEN "save" ELSE "gate"
        BY <2>3 DEF ReadRemote, Goto
      <3>3. cmd.name \in {"plan", "apply"}
        BY <3>2 DEF IInv, GateInv, TypeOK
      <3>4. QED
        BY <1>1, <3>1, <3>2, <3>3 DEF IInv, GateInv
    <2>4. CASE Gate
      <3>1. pc = "gate" /\ got' = got
        BY <2>4 DEF Gate
      <3>2. pc' = "idle" \/ (pc' = "mutate" /\ Fresh)
        BY <2>4 DEF Gate, Goto, Exit
      <3>3. Fresh => Fresh'
        BY <1>1, <3>1 DEF Fresh
      <3>4. QED
        BY <1>1, <3>1, <3>2, <3>3 DEF IInv, GateInv
    <2>5. QED
      BY <2>1, <2>2, <2>3, <2>4
  <1>7. QED
    BY <1>4, <1>5, <1>6

LEMMA StartInv ==
    ASSUME IInv, StartPlan \/ StartApply
    PROVE  PlanInv' /\ AgreeInv' /\ GateInv'
  <1>1. PICK name \in {"plan", "apply"}, flags \in BOOLEAN, review \in Reviews,
             label \in {"idle", "evidence"}, outcome \in Outcomes :
           /\ Begin(name, flags, review, label, outcome)
           /\ name = "apply" => file # NoPlan
    BY DEF StartPlan, StartApply, Reviews, Outcomes
  <1>2. /\ file' = file /\ pc' = label
        /\ cmd' = [name |-> name, flags |-> flags, review |-> review, asof |-> changes]
        /\ got' = [Blank(world.settings, world.target) EXCEPT
                     !.policy = IF name = "plan" THEN world.policy ELSE {}]
    BY <1>1 DEF Begin
  <1>3. cmd'.name = name
    BY <1>2
  <1>4. \A a \in Assets, p \in Properties : got'.decision[a][p] = NoDecision
    BY <1>2 DEF Blank
  <1>5. QED
    BY <1>1, <1>2, <1>3, <1>4, PlanKept DEF IInv, AgreeInv, PastEvidence, GateInv

LEMMA InvNext ==
    ASSUME IInv, [Next]_vars
    PROVE  IInv'
  <1>1. TypeOK'
    BY TypeNext
  <1>2. CASE StartPlan \/ StartApply
    BY <1>1, <1>2, StartInv DEF IInv
  <1>3. CASE ComposeEvidence
    BY <1>1, <1>3, ComposeInv DEF IInv
  <1>4. CASE CheckFlags \/ Scan \/ ReadRemote \/ Gate
    BY <1>1, <1>4, ReadingInv DEF IInv
  <1>5. CASE SavePlan
    BY <1>1, <1>5, SavePlanInv DEF IInv
  <1>6. CASE Fails \/ Killed \/ CallFails \/ Applied
    <2>1. file' = file /\ pc' = "idle"
      BY <1>6 DEF Fails, Killed, CallFails, Applied, Exit, Keep
    <2>2. QED
      BY <1>1, <2>1, LastStep DEF IInv
  <1>7. CASE Mutates
    <2>1. UNCHANGED <<file, cmd, got, pc>>
      BY <1>7 DEF Mutates, CreateAsset, UpdateAsset, WriteAttribute, Write, running
    <2>2. QED
      BY <1>1, <2>1, QuietStep DEF IInv
  <1>8. CASE \/ SourceChanges \/ EvidenceChanges \/ ConfigurationChanges \/ OtherClient
             \/ Rest \/ UNCHANGED vars
    <2>1. UNCHANGED <<file, cmd, got, pc>>
      BY <1>8 DEF SourceChanges, EvidenceChanges, ConfigurationChanges, ReconfiguredTo,
                  OtherClient, TenantChanges, Outside, Rest, vars, running
    <2>2. QED
      BY <1>1, <2>1, QuietStep DEF IInv
  <1>9. QED
    BY <1>2, <1>3, <1>4, <1>5, <1>6, <1>7, <1>8 DEF Next, Command

\* The plan file, the reads of a running command and its place fit together:
\* the invariant every theorem below rests on.
THEOREM Invariance == Spec => []IInv
  <1>1. Init => IInv
    BY InvInit
  <1>2. IInv /\ [Next]_vars => IInv'
    BY InvNext
  <1>3. QED
    BY <1>1, <1>2, PTL DEF Spec

\* Every state of the two commands is typed (TypeOK).
THEOREM TypeCorrect == Spec => []TypeOK
  <1>1. IInv => TypeOK
    BY DEF IInv
  <1>2. QED
    BY <1>1, Invariance, PTL

-----------------------------------------------------------------------------
(* What an apply writes.                                                   *)

\* The gate is sound: a property that an apply past it would change from what it
\* has read lies in the boundary, so planning again would decide and write the same.
LEMMA GateIsSound ==
    ASSUME IInv, pc = "mutate", NEW a \in Assets, NEW p \in Properties,
           file.want[a][p] # got.remote[a].has[p]
    PROVE  /\ file.want[a][p] = Overlay(got.base[a], got.remote[a], got.decision[a])[p]
           /\ got.decision[a][p].state # "unsafe"
  <1>1. /\ cmd.name = "apply" /\ file # NoPlan
        /\ got.base = file.base /\ got.remote = file.remote
    BY DEF IInv, GateInv, Fresh
  <1>2. p \in Planned(a)
    <2>1. file.want[a] \in Descriptions /\ file.remote[a].has \in Descriptions
      BY <1>1 DEF IInv, TypeOK, RemoteAssets
    <2>2. QED
      BY <1>1, <2>1, BoundaryType DEF Planned
  <1>3. got.decision[a][p] = DecisionOf(a, p)
    BY <1>1, <1>2 DEF IInv, AgreeInv, PastEvidence
  <1>4. /\ DecisionOf(a, p).state # "unsafe"
        /\ file.want[a][p]
              = Reconciled(file.base[a][p], file.remote[a].has[p], DecisionOf(a, p))
    BY <1>1, <1>2 DEF IInv, PlanInv
  <1>5. QED
    BY <1>1, <1>3, <1>4 DEF Overlay

\* A command changes a property only while it applies the plan, on the target it
\* has resolved, and to the value of the plan.
LEMMA ChangesAreWrites ==
    ASSUME IInv, [Next]_vars, NEW t \in Targets, NEW a \in Assets, NEW p \in Properties,
           Changes(t, a, p)
    PROVE  /\ pc = "mutate" /\ t = got.target
           /\ world'.tenant[t][a].has[p] = file.want[a][p]
  <1>1. TypeOK /\ (pc = "mutate" => file # NoPlan)
    BY DEF IInv, GateInv
  <1>2. /\ world'.tenant # world.tenant
        /\ changes' = changes
    BY DEF Changes
  <1>3. Mutates
    <2>1. world' # world /\ changes' # changes + 1
      BY <1>1, <1>2 DEF TypeOK
    <2>2. ~(StartPlan \/ StartApply \/ ComposeEvidence \/ CheckFlags \/ Scan \/ ReadRemote
              \/ SavePlan \/ Fails \/ Killed \/ Gate \/ CallFails \/ Applied)
      BY <2>1 DEF StartPlan, StartApply, Begin, ComposeEvidence, CheckFlags, Scan, ReadRemote,
                  SavePlan, Fails, Killed, Gate, CallFails, Applied, Step
    <2>3. ~(SourceChanges \/ EvidenceChanges \/ ConfigurationChanges \/ OtherClient
              \/ Rest \/ UNCHANGED vars)
      BY <2>1 DEF SourceChanges, EvidenceChanges, ConfigurationChanges, ReconfiguredTo,
                  OtherClient, TenantChanges, Rest, vars
    <2>4. QED
      BY <2>2, <2>3 DEF Next, Command
  <1>4. /\ pc = "mutate" /\ file # NoPlan
        /\ got.target \in Targets /\ world.tenant \in [Targets -> [Assets -> TenantAssets]]
        /\ file.want \in [Assets -> Descriptions] /\ world \in WorldSpace
    BY <1>1, <1>3 DEF Mutates, CreateAsset, UpdateAsset, WriteAttribute, TypeOK, WorldSpace, Knowledge
  <1>5. ASSUME NEW b \in Assets, NEW x, Write(b, x)
        PROVE  t = got.target /\ a = b /\ x.has[p] = world'.tenant[t][a].has[p]
    <2>1. world' = [world EXCEPT !.tenant[got.target][b] = x]
      BY <1>5 DEF Write
    <2>2. world'.tenant = [world.tenant EXCEPT ![got.target][b] = x]
      BY <2>1, <1>4 DEF WorldSpace
    <2>3. world'.tenant[t][a].has[p] # world.tenant[t][a].has[p]
      BY DEF Changes
    <2>4. QED
      BY <2>2, <2>3, <1>4
  <1>6. ASSUME NEW b \in Assets, CreateAsset(b)
        PROVE  t = got.target /\ world'.tenant[t][a].has[p] = file.want[a][p]
    <2> DEFINE has == [Missing.has EXCEPT ![DisplayName] = file.want[b][DisplayName]]
               x == [exists |-> TRUE, managed |-> FALSE, has |-> has]
    <2>1. Write(b, x) /\ ~world.tenant[got.target][b].exists
      BY <1>6 DEF CreateAsset
    <2>2. x.has = has
      OBVIOUS
    <2>3. t = got.target /\ a = b /\ has[p] = world'.tenant[t][a].has[p]
      <3> HIDE DEF has
      <3>1. t = got.target /\ a = b /\ x.has[p] = world'.tenant[t][a].has[p]
        <4> HIDE DEF x
        <4> QED
          BY <2>1, <1>5
      <3>2. QED
        BY <2>2, <3>1
    <2>4. world.tenant[got.target][b] = Gone
      <3>1. world.tenant[got.target][b] \in TenantAssets
        BY <1>4
      <3>2. QED
        BY <2>1, <3>1 DEF TenantAssets
    <2>5. world.tenant[t][a].has = Missing.has
      BY <2>3, <2>4 DEF Gone
    <2>6. p = DisplayName
      BY <2>3, <2>5, MissingType DEF Changes, Descriptions
    <2>7. QED
      BY <2>3, <2>6, MissingType DEF Descriptions
  <1>7. ASSUME NEW b \in Assets, UpdateAsset(b)
        PROVE  t = got.target /\ world'.tenant[t][a].has[p] = file.want[a][p]
    <2>1. Write(b, Header(b))
      BY <1>7 DEF UpdateAsset, Header
    <2>2. t = got.target /\ a = b /\ Header(b).has[p] = world'.tenant[t][a].has[p]
      BY <2>1, <1>5
    <2>3. world.tenant[t][a] \in TenantAssets /\ world.tenant[t][a].has \in Descriptions
      BY <1>4, HasType
    <2>4. Header(b).has[p] # world.tenant[t][a].has[p]
      BY <2>2 DEF Changes
    <2>5. /\ Header(b) = [world.tenant[t][a] EXCEPT !.has[DisplayName] = file.want[a][DisplayName]]
      BY <2>2, <2>4 DEF Header
    <2>6. world.tenant[t][a] \in [exists : {TRUE}, managed : BOOLEAN, has : Descriptions]
      <3>1. world.tenant[t][a].exists
        BY <2>2, <1>7 DEF UpdateAsset
      <3>2. QED
        BY <2>3, <3>1, ExistingType
    <2>7. Header(b).has = [world.tenant[t][a].has EXCEPT ![DisplayName] = file.want[a][DisplayName]]
      BY <2>5, <2>6
    <2>8. QED
      BY <2>2, <2>3, <2>4, <2>7 DEF Descriptions
  <1>8. ASSUME NEW q \in Attributes \cup {LocalId}, WriteAttribute(q)
        PROVE  t = got.target /\ world'.tenant[t][a].has[p] = file.want[a][p]
    <2> DEFINE state == world.tenant[got.target][at]
               x == IF q = LocalId THEN [state EXCEPT !.managed = TRUE]
                    ELSE [state EXCEPT !.has[q] = file.want[at][q]]
    <2>1. Write(at, x) /\ state.exists /\ q \in left
      BY <1>8 DEF WriteAttribute
    <2>2. at \in Assets
      BY <1>1, <2>1 DEF TypeOK
    <2>3. t = got.target /\ a = at /\ x.has[p] = world'.tenant[t][a].has[p]
      <3> HIDE DEF x
      <3> QED
        BY <2>1, <2>2, <1>5
    <2>4. state \in [exists : {TRUE}, managed : BOOLEAN, has : Descriptions]
      <3>1. state \in TenantAssets
        BY <2>2, <1>4
      <3>2. QED
        <4> HIDE DEF state
        <4> QED
          BY <2>1, <3>1, ExistingType
    <2>5. x.has[p] # state.has[p]
      BY <2>3 DEF Changes
    <2>6. q # LocalId /\ x.has = [state.has EXCEPT ![q] = file.want[at][q]]
      BY <2>4, <2>5
    <2>7. p = q /\ x.has[p] = file.want[at][p]
      <3> HIDE DEF x, state
      <3> QED
        BY <2>4, <2>5, <2>6 DEF Descriptions
    <2>8. QED
      BY <2>3, <2>7
  <1>9. QED
    BY <1>3, <1>4, <1>6, <1>7, <1>8 DEF Mutates

\* Whatever a saved plan was made from, applying it changes a property only on the
\* target resolved by the apply and only to what planning again from the reads of the
\* apply would give (WritesAreJustified).
THEOREM WritesJustified == Spec => WritesAreJustified
  <1>1. ASSUME IInv, [Next]_vars, NEW t \in Targets, NEW a \in Assets, NEW p \in Properties,
               Changes(t, a, p)
        PROVE  /\ t = got.target
               /\ got.settings = file.settings
               /\ world'.tenant[t][a].has[p]
                     = Overlay(got.base[a], got.remote[a], got.decision[a])[p]
    <2>1. /\ pc = "mutate" /\ t = got.target
          /\ world'.tenant[t][a].has[p] = file.want[a][p]
      BY <1>1, ChangesAreWrites
    <2>2. file.want[a][p] # got.remote[a].has[p]
      BY <1>1, <2>1 DEF Changes
    <2>3. got.settings = file.settings
      BY <1>1, <2>1 DEF IInv, GateInv, Fresh
    <2>4. QED
      BY <1>1, <2>1, <2>2, <2>3, GateIsSound
  <1>2. IInv /\ [Next]_vars =>
           [\A t \in Targets, a \in Assets, p \in Properties : Changes(t, a, p) =>
               /\ t = got.target
               /\ got.settings = file.settings
               /\ world'.tenant[t][a].has[p]
                     = Overlay(got.base[a], got.remote[a], got.decision[a])[p]]_vars
    BY <1>1
  <1>3. QED
    BY <1>2, Invariance, PTL DEF Spec, WritesAreJustified

\* No property is changed whose conflict the apply finds unresolved or invalid
\* (ConflictsBlockWrites).
THEOREM ConflictsBlock == Spec => ConflictsBlockWrites
  <1>1. ASSUME IInv, [Next]_vars, NEW t \in Targets, NEW a \in Assets, NEW p \in Properties,
               Changes(t, a, p)
        PROVE  got.decision[a][p].state # "unsafe"
    <2>1. pc = "mutate" /\ world'.tenant[t][a].has[p] = file.want[a][p]
      BY <1>1, ChangesAreWrites
    <2>2. file.want[a][p] # got.remote[a].has[p]
      BY <1>1, <2>1 DEF Changes
    <2>3. QED
      BY <1>1, <2>1, <2>2, GateIsSound
  <1>2. IInv /\ [Next]_vars =>
           [\A t \in Targets, a \in Assets, p \in Properties :
               Changes(t, a, p) => got.decision[a][p].state # "unsafe"]_vars
    BY <1>1
  <1>3. QED
    BY <1>2, Invariance, PTL DEF Spec, ConflictsBlockWrites

\* Without evaluating the policies, an apply writes only for a model they accept
\* (RejectedModelsAreNotApplied).
THEOREM RejectedNotApplied == Spec => RejectedModelsAreNotApplied
  <1>1. ASSUME IInv, [Next]_vars, wrote', ~wrote
        PROVE  Accepts(got.policy, got.base)
    <2>1. Mutates
      BY <1>1 DEF Next, Command, StartPlan, StartApply, Begin, ComposeEvidence, CheckFlags, Scan,
                  ReadRemote, SavePlan, Fails, Killed, Gate, CallFails, Applied, Keep, writing,
                  SourceChanges, EvidenceChanges, ConfigurationChanges, ReconfiguredTo,
                  OtherClient, TenantChanges, Outside, Rest, vars
    <2>2. pc = "mutate"
      BY <2>1 DEF Mutates, CreateAsset, UpdateAsset, WriteAttribute
    <2>3. Fresh /\ file # NoPlan
      BY <1>1, <2>2 DEF IInv, GateInv
    <2>4. QED
      BY <1>1, <2>3 DEF IInv, PlanInv, Fresh
  <1>2. IInv /\ [Next]_vars => [wrote' /\ ~wrote => Accepts(got.policy, got.base)]_vars
    BY <1>1
  <1>3. QED
    BY <1>2, Invariance, PTL DEF Spec, RejectedModelsAreNotApplied

-----------------------------------------------------------------------------
(* What a command has written when it ends.                                *)

\* An asset of the tenant the plan is for.
Held(a) == world.tenant[file.target][a]

\* How far a command may be, by its review, and what its exit says of its writes.
ExitInv ==
    /\ cmd.name # "apply" => cmd.review = "dry run"
    /\ pc # "idle" => exit = "running" /\ cmd.review # "confirm only"
    /\ pc \in {"scan", "read", "gate"} => cmd.review # "unconfirmed"
    /\ pc = "mutate" => cmd.review = "apply"
    /\ pc \notin {"mutate", "idle"} => ~wrote /\ todo = {} /\ at = 0 /\ left = {}
    /\ wrote => /\ cmd.name = "apply" /\ cmd.review = "apply"
                /\ exit \in {"running", "ok", "error", "killed"}
                /\ since.applies >= 1
    /\ met => since.foreign

\* Every value the plan has for the asset is there.
Delivered(a) ==
    /\ Held(a).managed
    /\ \A p \in Properties : file.want[a][p] # None => Held(a).has[p] = file.want[a][p]

\* Every asset is as it was planned from, being written, or as the plan wants it.
Underway ==
    \A a \in Assets :
        /\ a \in todo => AsRead(world.tenant[file.target])[a] = file.remote[a]
        /\ a \notin todo /\ a # at => Delivered(a)
        /\ a = at /\ LocalId \notin left => Held(a).managed
        /\ a = at => \A p \in Properties :
              file.want[a][p] # None /\ p \notin left => Held(a).has[p] = file.want[a][p]

\* How far an apply is with a tenant that no other client changes: at the gate it
\* has read it, then it is underway, and where it succeeds everything is delivered.
ProgressInv ==
    /\ pc = "gate" /\ ~met /\ got.target = file.target =>
          got.remote = AsRead(world.tenant[file.target])
    /\ pc = "mutate" => at \notin todo /\ (~met => Underway)
    /\ exit = "ok" /\ cmd.name = "apply" /\ cmd.review = "apply" /\ ~met =>
          \A a \in Assets : Delivered(a)

\* The creation every apply of the plan begins with.
FirstCreation(a) ==
    /\ ActionOf(a) = "CREATE"
    /\ \A b \in Assets : ActionOf(b) = "CREATE" => a <= b

\* The tenant shows that the plan was applied, if only in part: its first creation
\* has begun, or an update has changed a property to the plan's value.
Spent ==
    \/ \E a \in Assets : FirstCreation(a) /\ Held(a).exists
    \/ \E a \in Assets, p \in Properties :
          /\ file.remote[a].managed /\ Held(a).managed
          /\ Held(a).has[p] = file.want[a][p] /\ file.want[a][p] # file.remote[a].has[p]

\* An apply that has written nothing finds the tenant as the plan was made from,
\* and has all its actions before it if it begins with a creation.
Opening ==
    /\ ~met => AsRead(world.tenant[file.target]) = file.remote
    /\ (\E a \in Assets : ActionOf(a) = "CREATE") =>
          left = {} /\ todo = {a \in Assets : ActionOf(a) # "UNCHANGED"}

AtMostOnce ==
    ~since.foreign => since.applies <= 1 /\ (since.applies = 1 => file # NoPlan /\ Spent)

OnceInv == (pc = "mutate" /\ ~wrote => Opening) /\ AtMostOnce

ApplyInv == ExitInv /\ ProgressInv /\ OnceInv

-----------------------------------------------------------------------------
(* What was read while nothing changed is what is there.                   *)

Given(flags, a, p) == IF flags THEN world.evidence[a][p] ELSE NoDecision

\* A command before its writes, since whose start nothing changed.
CommandIsCurrent ==
    pc \notin {"idle", "mutate"} /\ changes = cmd.asof =>
        /\ got.settings = world.settings /\ got.target = world.target
        /\ pc \in {"scan", "read", "save", "gate"} \/ cmd.name = "plan" =>
              got.policy = world.policy
        /\ pc \in {"read", "save", "gate"} => got.base = world.base
        /\ pc = "save" \/ (pc = "gate" /\ got.target = file.target) =>
              got.remote = AsRead(world.tenant[got.target])
        /\ cmd.name = "plan" /\ pc \in {"scan", "read", "save"} =>
              \A a \in Assets, p \in Properties :
                  got.decision[a][p] = Given(cmd.flags, a, p)

\* A plan since which nothing changed, and that was not applied.
PlanIsCurrent ==
    file.version = 2 /\ changes = since.changes /\ since.applies = 0 =>
        /\ file.settings = world.settings /\ file.target = world.target
        /\ file.policy = world.policy /\ file.base = world.base
        /\ file.remote = AsRead(world.tenant[world.target])
        /\ file.assumes = [a \in Assets |-> [p \in Planned(a) |-> Given(since.flags, a, p)]]

CurrencyInv ==
    /\ since.changes <= cmd.asof /\ cmd.asof <= changes
    /\ CommandIsCurrent /\ PlanIsCurrent
    /\ OnlyStalePlansAreRefused

-----------------------------------------------------------------------------
(* The steps, as far as these invariants tell them apart.                  *)

\* A change from outside: by another client, or not of the tenant.
LEMMA OutsideStep ==
    ASSUME TypeOK, SourceChanges \/ EvidenceChanges \/ ConfigurationChanges \/ OtherClient
    PROVE  /\ changes' = changes + 1
           /\ UNCHANGED <<file, cmd, pc, got, exit, todo, at, left, wrote>>
           /\ \/ world'.tenant = world.tenant /\ UNCHANGED <<met, since>>
              \/ met' = TRUE /\ since' = [since EXCEPT !.foreign = TRUE]
  <1>1. ASSUME NEW w, ReconfiguredTo(w), w.tenant = world.tenant
        PROVE  /\ changes' = changes + 1 /\ Outside
               /\ world'.tenant = world.tenant /\ UNCHANGED <<met, since>>
    BY <1>1 DEF ReconfiguredTo
  <1>2. ASSUME NEW state, TenantChanges(state)
        PROVE  /\ changes' = changes + 1 /\ Outside
               /\ met' = TRUE /\ since' = [since EXCEPT !.foreign = TRUE]
    BY <1>2 DEF TenantChanges
  <1>3. /\ \A a \in Assets, p \in Properties, v \in Values \cup {None} :
              [world EXCEPT !.base[a][p] = v].tenant = world.tenant
        /\ \A a \in Assets, p \in Properties, d \in Decisions :
              [world EXCEPT !.evidence[a][p] = d].tenant = world.tenant
        /\ \A s \in Settings : [world EXCEPT !.settings = s].tenant = world.tenant
        /\ \A t \in Targets : [world EXCEPT !.target = t].tenant = world.tenant
        /\ \A required \in SUBSET Properties :
              [world EXCEPT !.policy = required].tenant = world.tenant
    BY DEF TypeOK, WorldSpace
  <1>4. CASE SourceChanges \/ EvidenceChanges \/ ConfigurationChanges
    <2> DEFINE quiet == \E w : ReconfiguredTo(w) /\ w.tenant = world.tenant
    <2>1. CASE SourceChanges
      <3>1. PICK a \in Assets, p \in Properties, v \in Values \cup {None} :
               ReconfiguredTo([world EXCEPT !.base[a][p] = v])
        BY <2>1 DEF SourceChanges
      <3>2. [world EXCEPT !.base[a][p] = v].tenant = world.tenant
        BY <1>3
      <3>3. quiet
        BY <3>1, <3>2
      <3>4. QED
        BY <1>1, <3>3 DEF Outside, running, writing
    <2>2. CASE EvidenceChanges
      <3>1. PICK a \in Assets, p \in Properties, d \in Decisions :
               ReconfiguredTo([world EXCEPT !.evidence[a][p] = d])
        BY <2>2 DEF EvidenceChanges
      <3>2. [world EXCEPT !.evidence[a][p] = d].tenant = world.tenant
        BY <1>3
      <3>3. quiet
        BY <3>1, <3>2
      <3>4. QED
        BY <1>1, <3>3 DEF Outside, running, writing
    <2>3. CASE ConfigurationChanges
      <3>1. \/ \E s \in Settings : ReconfiguredTo([world EXCEPT !.settings = s])
            \/ \E t \in Targets : ReconfiguredTo([world EXCEPT !.target = t])
            \/ \E required \in SUBSET Properties :
                  ReconfiguredTo([world EXCEPT !.policy = required])
        BY <2>3 DEF ConfigurationChanges
      <3>2. quiet
        <4>1. ASSUME NEW w, ReconfiguredTo(w), w.tenant = world.tenant PROVE quiet
          BY <4>1
        <4>2. /\ \A s \in Settings : ReconfiguredTo([world EXCEPT !.settings = s]) => quiet
              /\ \A t \in Targets : ReconfiguredTo([world EXCEPT !.target = t]) => quiet
              /\ \A required \in SUBSET Properties :
                    ReconfiguredTo([world EXCEPT !.policy = required]) => quiet
          <5> HIDE DEF quiet
          <5>1. QED
            BY <1>3, <4>1
        <4>3. QED
          BY <3>1, <4>2
      <3>3. QED
        BY <1>1, <3>2 DEF Outside, running, writing
    <2>4. QED
      BY <1>4, <2>1, <2>2, <2>3
  <1>5. CASE OtherClient
    <2>1. PICK state : TenantChanges(state)
      BY <1>5 DEF OtherClient
    <2>2. QED
      BY <1>2, <2>1 DEF Outside, running, writing
  <1>6. QED
    BY <1>4, <1>5

\* A call of the apply: what it does to the tenant of the plan and records.
LEMMA WriteStep ==
    ASSUME IInv, pc = "mutate", NEW a \in Assets, NEW x \in TenantAssets, Write(a, x)
    PROVE  /\ UNCHANGED <<file, cmd, pc, got, exit, met, changes>>
           /\ Held(a)' = x /\ (\A b \in Assets : b # a => Held(b)' = Held(b))
           /\ (wrote' <=> wrote \/ x # Held(a))
           /\ x = Held(a) => world' = world
           /\ wrote \/ ~wrote' => since' = since
           /\ ~wrote /\ wrote' => since' = [since EXCEPT !.applies = since.applies + 1]
  <1>1. got.target = file.target /\ file.target \in Targets
    BY DEF IInv, GateInv, Fresh, TypeOK, Knowledge
  <1>2. world' = [world EXCEPT !.tenant[file.target][a] = x]
    BY <1>1 DEF Write
  <1>3. UNCHANGED <<file, cmd, pc, got, exit, met, changes>>
    BY DEF Write, running
  <1>4. Held(a)' = x /\ \A b \in Assets : b # a => Held(b)' = Held(b)
    BY <1>1, <1>2, <1>3 DEF Held, IInv, TypeOK, WorldSpace
  <1>5. x = Held(a) => world' = world
    <2> SUFFICES ASSUME x = Held(a) PROVE world' = world
      OBVIOUS
    <2>1. [world.tenant EXCEPT ![file.target][a] = x] = world.tenant
      BY <1>1 DEF Held, IInv, TypeOK, WorldSpace
    <2>2. world' = [world EXCEPT !.tenant = [world.tenant EXCEPT ![file.target][a] = x]]
      BY <1>2
    <2>3. QED
      BY <2>1, <2>2 DEF IInv, TypeOK, WorldSpace
  <1>6. wrote' <=> wrote \/ x # Held(a)
    BY <1>1 DEF Write, Held
  <1>7. /\ wrote \/ ~wrote' => since' = since
        /\ ~wrote /\ wrote' => since' = [since EXCEPT !.applies = since.applies + 1]
    BY DEF Write
  <1>8. QED
    BY <1>3, <1>4, <1>5, <1>6, <1>7

\* The three calls of an apply.
Creates(a, x) ==
    /\ IsNext(a) /\ ActionOf(a) = "CREATE" /\ ~Held(a).exists
    /\ x.exists /\ ~x.managed /\ x.has[DisplayName] = file.want[a][DisplayName]
    /\ at' = a /\ left' = Wanted(a) \cup {LocalId} /\ todo' = todo \ {a}

Updates(a, x) ==
    /\ IsNext(a) /\ ActionOf(a) = "UPDATE" /\ x = Header(a)
    /\ Held(a).exists
    /\ at' = a /\ left' = {p \in Wanted(a) : file.want[a][p] # Held(a).has[p]}
    /\ todo' = todo \ {a}

Continues(a, x) ==
    /\ a = at /\ Held(a).exists
    /\ \E p \in left :
          /\ x = IF p = LocalId THEN [Held(a) EXCEPT !.managed = TRUE]
                 ELSE [Held(a) EXCEPT !.has[p] = file.want[a][p]]
          /\ left' = left \ {p}
    /\ UNCHANGED <<todo, at>>

LEMMA MutatesStep ==
    ASSUME IInv, Mutates
    PROVE  /\ pc = "mutate" /\ file # NoPlan /\ got.target = file.target
           /\ \E a \in Assets, x \in TenantAssets :
                 Write(a, x) /\ (Creates(a, x) \/ Updates(a, x) \/ Continues(a, x))
  <1>1. pc = "mutate"
    BY DEF Mutates, CreateAsset, UpdateAsset, WriteAttribute
  <1>2. file # NoPlan /\ got.target = file.target /\ got.target \in Targets
    BY <1>1 DEF IInv, GateInv, Fresh, TypeOK, Knowledge
  <1>3. \A a \in Assets : Held(a) \in TenantAssets /\ Held(a) = world.tenant[got.target][a]
    BY <1>2 DEF IInv, TypeOK, WorldSpace, Held
  <1>4. /\ file.want \in [Assets -> [Properties -> Values \cup {None}]]
        /\ DisplayName \in Properties /\ Attributes \subseteq Properties
    BY <1>2 DEF IInv, TypeOK, Descriptions, Properties
  <1>5. ASSUME NEW a \in Assets, CreateAsset(a)
        PROVE  \E x \in TenantAssets : Write(a, x) /\ Creates(a, x)
    <2> DEFINE has == [Missing.has EXCEPT ![DisplayName] = file.want[a][DisplayName]]
               x == [exists |-> TRUE, managed |-> FALSE, has |-> has]
    <2>1. has \in Descriptions /\ has[DisplayName] = file.want[a][DisplayName]
      BY <1>4, MissingType DEF Descriptions
    <2>2. /\ x \in TenantAssets
          /\ x.exists /\ ~x.managed /\ x.has[DisplayName] = file.want[a][DisplayName]
      BY <2>1 DEF TenantAssets
    <2>3. /\ Write(a, x) /\ IsNext(a) /\ ActionOf(a) = "CREATE"
          /\ ~world.tenant[got.target][a].exists
          /\ at' = a /\ left' = Wanted(a) \cup {LocalId} /\ todo' = todo \ {a}
      BY <1>5 DEF CreateAsset
    <2> HIDE DEF x
    <2>4. QED
      BY <1>3, <2>2, <2>3 DEF Creates
  <1>6. ASSUME NEW a \in Assets, UpdateAsset(a)
        PROVE  \E x \in TenantAssets : Write(a, x) /\ Updates(a, x)
    <2>1. /\ Write(a, Header(a)) /\ Held(a).exists /\ IsNext(a) /\ ActionOf(a) = "UPDATE"
          /\ at' = a /\ todo' = todo \ {a}
          /\ left' = {p \in Wanted(a) : file.want[a][p] # Held(a).has[p]}
      BY <1>3, <1>6 DEF UpdateAsset, Header
    <2>2. Header(a) \in TenantAssets
      BY <1>3, <1>4, <2>1, WrittenType DEF Header
    <2>3. QED
      BY <2>1, <2>2 DEF Updates
  <1>7. ASSUME NEW p \in Attributes \cup {LocalId}, WriteAttribute(p)
        PROVE  \E a \in Assets, x \in TenantAssets : Write(a, x) /\ Continues(a, x)
    <2> DEFINE x == IF p = LocalId THEN [Held(at) EXCEPT !.managed = TRUE]
                    ELSE [Held(at) EXCEPT !.has[p] = file.want[at][p]]
    <2>1. p \in left /\ at \in Assets
      BY <1>7 DEF WriteAttribute, IInv, TypeOK
    <2>2. /\ Held(at).exists /\ Write(at, x) /\ left' = left \ {p} /\ UNCHANGED <<todo, at>>
      BY <1>3, <1>7, <2>1 DEF WriteAttribute
    <2>3. x \in TenantAssets
      <3>1. /\ Held(at) \in TenantAssets /\ Held(at).exists
            /\ file.want[at] \in [Properties -> Values \cup {None}]
        BY <1>3, <1>4, <2>1, <2>2
      <3>2. CASE p = LocalId
        <4>1. [Held(at) EXCEPT !.managed = TRUE] \in TenantAssets
          BY <1>4, <3>1, WrittenType
        <4>2. QED
          BY <3>2, <4>1
      <3>3. CASE p # LocalId
        <4>1. p \in Properties
          BY <1>4, <3>3
        <4>2. [Held(at) EXCEPT !.has[p] = file.want[at][p]] \in TenantAssets
          BY <3>1, <4>1, WrittenType
        <4>3. QED
          BY <3>3, <4>2
      <3>4. QED
        BY <3>2, <3>3
    <2>4. Continues(at, x)
      BY <2>1, <2>2 DEF Continues
    <2> HIDE DEF x
    <2>5. QED
      BY <2>1, <2>2, <2>3, <2>4
  <1>8. QED
    BY <1>1, <1>2, <1>5, <1>6, <1>7 DEF Mutates

\* A command that ends before its time, or with its last call.
LEMMA EndStep ==
    ASSUME Fails \/ Killed \/ CallFails \/ Applied
    PROVE  /\ UNCHANGED <<world, file, cmd, got, todo, at, left, wrote, met, changes, since>>
           /\ pc # "idle" /\ pc' = "idle"
           /\ \/ exit' \in {"error", "killed"}
              \/ pc = "evidence" /\ exit' = "refused"
              \/ Applied /\ exit' = "ok"
  BY DEF Fails, Killed, CallFails, Applied, Exit, Step, Keep, writing

\* What a call leaves of the asset it writes.
LEMMA UpdateEffect ==
    ASSUME IInv, pc = "mutate", NEW a \in Assets, NEW x, Updates(a, x)
    PROVE  /\ x.exists /\ x.managed = Held(a).managed
           /\ \A q \in Properties : x.has[q] =
                 IF /\ q = DisplayName /\ file.want[a][q] # None
                    /\ file.want[a][q] # file.remote[a].has[q]
                 THEN file.want[a][q] ELSE Held(a).has[q]
           /\ x # Held(a) => file.want[a][DisplayName] # Held(a).has[DisplayName]
                             /\ x.has[DisplayName] = file.want[a][DisplayName]
  <1>1. got.target = file.target /\ got.target \in Targets
    BY DEF IInv, GateInv, Fresh, TypeOK, Knowledge
  <1>2. Held(a) = world.tenant[got.target][a] /\ Held(a) \in TenantAssets
    BY <1>1 DEF IInv, TypeOK, WorldSpace, Held
  <1>3. Held(a) \in [exists : {TRUE}, managed : BOOLEAN, has : Descriptions]
    BY <1>2, ExistingType DEF Updates
  <1>4. x = IF /\ file.want[a][DisplayName] # file.remote[a].has[DisplayName]
               /\ file.want[a][DisplayName] # None
            THEN [Held(a) EXCEPT !.has[DisplayName] = file.want[a][DisplayName]]
            ELSE Held(a)
    BY <1>2 DEF Updates, Header
  <1>5. DisplayName \in Properties
    BY DEF Properties
  <1> HIDE DEF Held
  <1>6. QED
    BY <1>3, <1>4, <1>5 DEF Descriptions

LEMMA ContinueEffect ==
    ASSUME IInv, pc = "mutate", NEW a \in Assets, NEW x, Continues(a, x)
    PROVE  \E p \in left :
              /\ left' = left \ {p} /\ x.exists
              /\ p = LocalId => /\ x.managed /\ x.has = Held(a).has
                                /\ Held(a).managed => x = Held(a)
              /\ p # LocalId => /\ p \in Properties /\ x.managed = Held(a).managed
                                /\ x.has[p] = file.want[a][p]
                                /\ \A q \in Properties \ {p} : x.has[q] = Held(a).has[q]
                                /\ x # Held(a) => file.want[a][p] # Held(a).has[p]
  <1>1. got.target = file.target /\ got.target \in Targets
    BY DEF IInv, GateInv, Fresh, TypeOK, Knowledge
  <1>2. Held(a) \in TenantAssets
    BY <1>1 DEF IInv, TypeOK, WorldSpace, Held
  <1>3. Held(a) \in [exists : {TRUE}, managed : BOOLEAN, has : Descriptions]
    BY <1>2, ExistingType DEF Continues
  <1>4. PICK p \in left :
           /\ x = IF p = LocalId THEN [Held(a) EXCEPT !.managed = TRUE]
                  ELSE [Held(a) EXCEPT !.has[p] = file.want[a][p]]
           /\ left' = left \ {p}
    BY DEF Continues
  <1>5. p # LocalId => p \in Properties
    BY DEF IInv, TypeOK, Properties
  <1>6. CASE p = LocalId
    BY <1>3, <1>4, <1>6
  <1>7. CASE p # LocalId
    <2>1. x.has = [Held(a).has EXCEPT ![p] = file.want[a][p]] /\ x.exists
          /\ x.managed = Held(a).managed
      BY <1>3, <1>4, <1>7
    <2>2. Held(a).has \in Descriptions
      BY <1>3
    <2>3. x.has[p] = file.want[a][p] /\ \A q \in Properties \ {p} : x.has[q] = Held(a).has[q]
      BY <2>1, <2>2, <1>5, <1>7 DEF Descriptions
    <2>4. file.want[a][p] = Held(a).has[p] => x = Held(a)
      <3>1. file.want[a][p] = Held(a).has[p] => x.has = Held(a).has
        BY <2>1, <2>2, <1>5, <1>7 DEF Descriptions
      <3>2. QED
        BY <1>3, <1>4, <1>7, <2>1, <3>1
    <2>5. QED
      BY <1>4, <1>5, <1>7, <2>1, <2>3, <2>4
  <1>8. QED
    BY <1>6, <1>7

\* What the tenant shows of an asset.
LEMMA Shown ==
    ASSUME NEW a \in Assets
    PROVE  AsRead(world.tenant[file.target])[a]
              = IF Held(a).managed THEN [managed |-> TRUE, has |-> Held(a).has] ELSE Missing
  BY DEF AsRead, Held

\* An asset to update that the tenant shows as planned from has the planned description.
LEMMA ShownManaged ==
    ASSUME NEW a \in Assets, AsRead(world.tenant[file.target])[a] = file.remote[a],
           file.remote[a].managed
    PROVE  Held(a).managed /\ Held(a).has = file.remote[a].has
  <1>1. CASE Held(a).managed
    <2>1. file.remote[a] = [managed |-> TRUE, has |-> Held(a).has]
      BY <1>1, Shown
    <2>2. QED
      BY <1>1, <2>1
  <1>2. CASE ~Held(a).managed
    <2>1. file.remote[a] = Missing
      BY <1>2, Shown
    <2>2. QED
      BY <2>1 DEF Missing
  <1>3. QED
    BY <1>1, <1>2

-----------------------------------------------------------------------------
(* Exits.                                                                  *)

LEMMA ExitInit == Init => ExitInv
  <1> SUFFICES ASSUME Init PROVE ExitInv
    OBVIOUS
  <1>1. /\ cmd = [name |-> "none", flags |-> FALSE, review |-> "dry run", asof |-> 0]
        /\ pc = "idle" /\ ~wrote /\ ~met
    BY DEF Init
  <1>2. cmd.name = "none" /\ cmd.review = "dry run"
    BY <1>1
  <1>3. QED
    BY <1>1, <1>2 DEF ExitInv

LEMMA ExitNext ==
    ASSUME IInv, ExitInv, [Next]_vars
    PROVE  ExitInv'
  <1>0. ExitInv /\ TypeOK /\ GateInv
    BY DEF IInv
  <1>1. CASE StartPlan \/ StartApply
    <2> DEFINE Begun(name, flags, review, label, outcome) ==
                 /\ name \in {"plan", "apply"} /\ Begin(name, flags, review, label, outcome)
                 /\ name = "plan" => review = "dry run"
                 /\ \/ label = "idle" /\ outcome = "usage"
                    \/ label = "evidence" /\ outcome = "running" /\ review # "confirm only"
    <2>0. \E name, flags, review, label, outcome : Begun(name, flags, review, label, outcome)
      <3>1. CASE StartPlan
        <4>1. PICK flags : Begin("plan", flags, "dry run", "evidence", "running")
          BY <3>1 DEF StartPlan
        <4>2. Begun("plan", flags, "dry run", "evidence", "running")
          BY <4>1
        <4> HIDE DEF Begun
        <4>3. QED
          BY <4>2
      <3>2. CASE StartApply
        <4>1. PICK flags, review :
                 IF review = "confirm only" THEN Begin("apply", flags, review, "idle", "usage")
                 ELSE Begin("apply", flags, review, "evidence", "running")
          BY <3>2 DEF StartApply
        <4>2. CASE review = "confirm only"
          <5>1. Begun("apply", flags, review, "idle", "usage")
            BY <4>1, <4>2
          <5> HIDE DEF Begun
          <5>2. QED
            BY <5>1
        <4>3. CASE review # "confirm only"
          <5>1. Begun("apply", flags, review, "evidence", "running")
            BY <4>1, <4>3
          <5> HIDE DEF Begun
          <5>2. QED
            BY <5>1
        <4>4. QED
          BY <4>2, <4>3
      <3>3. QED
        BY <1>1, <3>1, <3>2
    <2>1. PICK name, flags, review, label, outcome : Begun(name, flags, review, label, outcome)
      BY <2>0
    <2>2. /\ wrote' = FALSE /\ met' = FALSE /\ todo' = {} /\ at' = 0 /\ left' = {}
          /\ pc' = label /\ exit' = outcome
          /\ cmd' = [name |-> name, flags |-> flags, review |-> review, asof |-> changes]
      BY <2>1 DEF Begin
    <2>3. cmd'.name = name /\ cmd'.review = review
      BY <2>2
    <2>4. QED
      BY <2>1, <2>2, <2>3 DEF ExitInv
  <1>2. CASE ComposeEvidence \/ CheckFlags \/ Scan \/ ReadRemote
    <2>1. /\ UNCHANGED <<cmd, todo, at, left, wrote, met, since>> /\ pc \notin {"idle", "mutate"}
          /\ \/ exit' = exit /\ pc' \in {"flags", "scan", "read", "save", "gate"}
             \/ pc' = "idle" /\ exit' \in {"stale", "usage", "policy"}
          /\ pc' \in {"scan", "read", "gate"} =>
                pc \in {"scan", "read"} \/ cmd.name = "plan" \/ cmd.review # "unconfirmed"
      BY <1>2 DEF ComposeEvidence, CheckFlags, Scan, ReadRemote, Goto, Exit, Step, Keep, writing
    <2>2. QED
      BY <1>0, <2>1 DEF ExitInv
  <1>3. CASE SavePlan
    <2>1. /\ pc = "save" /\ pc' = "idle" /\ exit' \in {"ok", "refused"}
          /\ UNCHANGED <<cmd, todo, at, left, wrote, met>>
          /\ since' = since \/ since' = [flags |-> cmd.flags, changes |-> cmd.asof,
                                         foreign |-> met, applies |-> 0]
      BY <1>3 DEF SavePlan, Exit, Step, writing
    <2>2. met => since'.foreign
      <3>1. CASE since' = since
        BY <1>0, <3>1 DEF ExitInv
      <3>2. CASE since' # since
        <4>1. since'.foreign = met
          BY <2>1, <3>2
        <4>2. QED
          BY <1>0, <4>1 DEF TypeOK
      <3>3. QED
        BY <3>1, <3>2
    <2>3. QED
      BY <1>0, <2>1, <2>2 DEF ExitInv
  <1>4. CASE Gate
    <2>1. /\ pc = "gate" /\ UNCHANGED <<cmd, at, left, wrote, met, since>>
          /\ \/ pc' = "idle"
             \/ pc' = "mutate" /\ exit' = exit /\ cmd.review # "dry run"
      BY <1>4 DEF Gate, Goto, Exit, Step
    <2>2. cmd.review \in Reviews
      BY DEF IInv, TypeOK
    <2>3. QED
      BY <2>1, <2>2 DEF ExitInv, Reviews
  <1>5. CASE Fails \/ Killed \/ CallFails \/ Applied
    <2>1. /\ UNCHANGED <<cmd, todo, at, left, wrote, met, since>>
          /\ pc # "idle" /\ pc' = "idle"
          /\ exit' \in {"error", "killed", "ok"} \/ pc = "evidence"
      BY <1>5, EndStep
    <2>2. pc \notin {"mutate", "idle"} => ~wrote
      BY <1>0 DEF ExitInv
    <2>3. wrote => exit' \in {"error", "killed", "ok"}
      BY <2>1, <2>2
    <2>4. QED
      BY <1>0, <2>1, <2>3 DEF ExitInv
  <1>6. CASE Mutates
    <2>1. PICK a \in Assets, x \in TenantAssets : Write(a, x)
      BY <1>6, MutatesStep
    <2>2. pc = "mutate" /\ cmd.name = "apply" /\ since.applies \in Nat
      BY <1>6, MutatesStep DEF IInv, TypeOK, GateInv
    <2>3. /\ UNCHANGED <<cmd, pc, exit, met>>
          /\ wrote \/ ~wrote' => since' = since
          /\ ~wrote /\ wrote' => since' = [since EXCEPT !.applies = since.applies + 1]
      BY <2>1, <2>2, WriteStep
    <2>4. since'.foreign = since.foreign /\ (wrote' => since'.applies >= 1)
      <3>1. CASE wrote \/ ~wrote'
        BY <1>0, <2>3, <3>1 DEF ExitInv
      <3>2. CASE ~wrote /\ wrote'
        BY <1>0, <2>2, <2>3, <3>2 DEF TypeOK
      <3>3. QED
        BY <2>3, <3>1, <3>2
    <2>5. pc' = "mutate" /\ exit' = "running" /\ cmd'.review = "apply" /\ cmd'.name = "apply"
      BY <1>0, <2>2, <2>3 DEF ExitInv
    <2>6. met' => since'.foreign
      BY <1>0, <2>3, <2>4 DEF ExitInv
    <2>7. QED
      BY <2>4, <2>5, <2>6 DEF ExitInv
  <1>7. CASE SourceChanges \/ EvidenceChanges \/ ConfigurationChanges \/ OtherClient
    <2>1. /\ UNCHANGED <<cmd, pc, exit, todo, at, left, wrote>>
          /\ \/ UNCHANGED <<met, since>>
             \/ met' = TRUE /\ since' = [since EXCEPT !.foreign = TRUE]
      BY <1>7, OutsideStep DEF IInv
    <2>2. since'.applies = since.applies /\ (met' => since'.foreign)
      <3>1. CASE UNCHANGED <<met, since>>
        BY <1>0, <3>1 DEF ExitInv
      <3>2. CASE since' = [since EXCEPT !.foreign = TRUE]
        BY <1>0, <3>2 DEF TypeOK
      <3>3. QED
        BY <2>1, <3>1, <3>2
    <2>3. QED
      BY <1>0, <2>1, <2>2 DEF ExitInv
  <1>8. CASE Rest \/ UNCHANGED vars
    <2>1. UNCHANGED <<cmd, pc, exit, todo, at, left, wrote, met, since>>
      BY <1>8 DEF Rest, vars, running, writing
    <2>2. QED
      BY <1>0, <2>1 DEF ExitInv
  <1>9. QED
    BY <1>1, <1>2, <1>3, <1>4, <1>5, <1>6, <1>7, <1>8 DEF Next, Command

-----------------------------------------------------------------------------
(* Progress.                                                               *)

\* With nothing left to write of it, the asset at hand is delivered.
LEMMA Finished ==
    ASSUME TypeOK, Underway, left = {}, NEW a \in Assets, a \notin todo
    PROVE  Delivered(a)
  BY DEF Underway, Delivered

\* An asset that is not written now stays as far as it was.
LEMMA UnderwayOther ==
    ASSUME TypeOK, Underway, NEW b \in Assets, Held(b)' = Held(b), UNCHANGED file,
           b # at', b \in todo' => b \in todo,
           b \notin todo' => b \notin todo /\ (b = at => left = {})
    PROVE  /\ b \in todo' => AsRead(world.tenant[file.target])'[b] = file'.remote[b]
           /\ b \notin todo' => Delivered(b)'
  <1>1. b \in todo' => AsRead(world.tenant[file.target])'[b] = file'.remote[b]
    <2>1. AsRead(world.tenant[file.target])'[b] = AsRead(world.tenant[file.target])[b]
      BY DEF AsRead, Held
    <2>2. QED
      BY <2>1 DEF Underway
  <1>2. b \notin todo' => Delivered(b)
    BY Finished DEF Underway
  <1>3. Delivered(b) => Delivered(b)'
    BY DEF Delivered
  <1>4. QED
    BY <1>1, <1>2, <1>3

\* Every call takes the asset it writes closer to the plan, and leaves the others.
LEMMA UnderwayNext ==
    ASSUME IInv, Mutates, at \notin todo, Underway
    PROVE  Underway'
  <1>1. /\ TypeOK /\ pc = "mutate" /\ file # NoPlan
    BY MutatesStep DEF IInv
  <1>2. PICK a \in Assets, x \in TenantAssets :
           Write(a, x) /\ (Creates(a, x) \/ Updates(a, x) \/ Continues(a, x))
    BY MutatesStep
  <1>3. /\ UNCHANGED file /\ Held(a)' = x
        /\ \A b \in Assets : b # a => Held(b)' = Held(b)
    BY <1>1, <1>2, WriteStep
  <1>4. a = at' /\ at' \notin todo'
    BY <1>2 DEF Creates, Updates, Continues
  <1>5. \A b \in Assets : b # a =>
           /\ b \in todo' => b \in todo
           /\ b \notin todo' => b \notin todo /\ (b = at => left = {})
    BY <1>2 DEF Creates, Updates, Continues, IsNext
  <1>6. \A b \in Assets : b # a =>
           /\ b \in todo' => AsRead(world.tenant[file.target])'[b] = file'.remote[b]
           /\ b \notin todo' => Delivered(b)'
    <2>1. SUFFICES ASSUME NEW b \in Assets, b # a
                   PROVE  /\ b \in todo' => AsRead(world.tenant[file.target])'[b] = file'.remote[b]
                          /\ b \notin todo' => Delivered(b)'
      OBVIOUS
    <2>2. QED
      BY <1>1, <1>3, <1>4, <1>5, <2>1, UnderwayOther
  <1>7. /\ LocalId \notin left' => x.managed
        /\ \A p \in Properties :
              file.want[a][p] # None /\ p \notin left' => x.has[p] = file.want[a][p]
    <2>1. \A p \in Properties : p # DisplayName /\ file.want[a][p] # None => p \in Wanted(a)
      BY DEF Properties, Wanted
    <2>2. CASE Creates(a, x)
      BY <2>1, <2>2 DEF Creates
    <2>3. CASE Updates(a, x)
      <3>1. a \in todo /\ ActionOf(a) = "UPDATE"
        BY <2>3 DEF Updates, IsNext
      <3>2. file.remote[a].managed
        BY <3>1 DEF ActionOf, ActionType
      <3>3. Held(a).managed /\ Held(a).has = file.remote[a].has
        BY <3>1, <3>2, ShownManaged DEF Underway
      <3>4. /\ x.managed = Held(a).managed
            /\ \A q \in Properties : x.has[q] =
                  IF /\ q = DisplayName /\ file.want[a][q] # None
                     /\ file.want[a][q] # file.remote[a].has[q]
                  THEN file.want[a][q] ELSE Held(a).has[q]
        BY <1>1, <2>3, UpdateEffect
      <3>5. left' = {p \in Wanted(a) : file.want[a][p] # Held(a).has[p]}
        BY <2>3 DEF Updates
      <3>6. QED
        BY <2>1, <3>3, <3>4, <3>5
    <2>4. CASE Continues(a, x)
      <3>1. PICK p \in left :
               /\ left' = left \ {p}
               /\ p = LocalId => x.managed /\ x.has = Held(a).has
               /\ p # LocalId => /\ p \in Properties /\ x.managed = Held(a).managed
                                 /\ x.has[p] = file.want[a][p]
                                 /\ \A q \in Properties \ {p} : x.has[q] = Held(a).has[q]
        BY <1>1, <2>4, ContinueEffect
      <3>2. /\ LocalId \notin left => Held(a).managed
            /\ \A q \in Properties :
                  file.want[a][q] # None /\ q \notin left => Held(a).has[q] = file.want[a][q]
        BY <2>4 DEF Continues, Underway
      <3>3. LocalId \notin Properties
        BY AssetAssumption
      <3>4. QED
        BY <3>1, <3>2, <3>3
    <2>5. QED
      BY <1>2, <2>2, <2>3, <2>4
  <1>8. /\ a \notin todo'
        /\ LocalId \notin left' => Held(a)'.managed
        /\ \A p \in Properties :
              file'.want[a][p] # None /\ p \notin left' => Held(a)'.has[p] = file'.want[a][p]
    BY <1>3, <1>4, <1>7
  <1>9. QED
    <2>1. SUFFICES ASSUME NEW b \in Assets
                   PROVE  /\ b \in todo' => AsRead(world.tenant[file.target])'[b] = file'.remote[b]
                          /\ b \notin todo' /\ b # at' => Delivered(b)'
                          /\ b = at' /\ LocalId \notin left' => Held(b)'.managed
                          /\ b = at' => \A p \in Properties :
                                file'.want[b][p] # None /\ p \notin left' =>
                                   Held(b)'.has[p] = file'.want[b][p]
      BY DEF Underway
    <2>2. CASE b = a
      BY <1>4, <1>8, <2>2
    <2>3. CASE b # a
      BY <1>4, <1>6, <2>3
    <2>4. QED
      BY <2>2, <2>3

\* Past the gate, what is not to be written is delivered already.
PastGate ==
    /\ TypeOK /\ file # NoPlan /\ AsRead(world.tenant[file.target]) = file.remote
    /\ todo = {a \in Assets : ActionOf(a) # "UNCHANGED"} /\ at = 0

LEMMA UnderwayFirst == PastGate => Underway
  <1> SUFFICES ASSUME PastGate, NEW a \in Assets, a \notin todo
               PROVE  Delivered(a)
    BY AssetAssumption DEF PastGate, Underway
  <1>1. file.remote[a].managed /\ file.want[a] = file.remote[a].has
    BY DEF PastGate, ActionOf, ActionType
  <1>2. Held(a).managed /\ Held(a).has = file.remote[a].has
    BY <1>1, ShownManaged DEF PastGate
  <1>3. QED
    BY <1>1, <1>2 DEF Delivered

LEMMA ProgressInit == Init => ProgressInv
  <1> SUFFICES ASSUME Init PROVE ProgressInv
    OBVIOUS
  <1>1. pc = "idle" /\ exit = "running"
    BY DEF Init
  <1>2. QED
    BY <1>1 DEF ProgressInv

LEMMA ProgressNext ==
    ASSUME IInv, ExitInv, ProgressInv, [Next]_vars
    PROVE  ProgressInv'
  <1>0. TypeOK /\ TypeOK' /\ (pc = "mutate" /\ ~met => Underway)
    BY TypeNext DEF IInv, ProgressInv
  <1>1. CASE StartPlan \/ StartApply
    <2>1. /\ pc' \in {"idle", "evidence"} /\ exit' \in {"usage", "running"}
      BY <1>1 DEF StartPlan, StartApply, Begin
    <2>2. QED
      BY <2>1 DEF ProgressInv
  <1>2. CASE ComposeEvidence \/ CheckFlags
    <2>1. pc' \notin {"gate", "mutate"} /\ exit' # "ok"
      BY <1>2 DEF ComposeEvidence, CheckFlags, Goto, Exit, ExitInv
    <2>2. QED
      BY <2>1 DEF ProgressInv
  <1>3. CASE Scan
    <2>1. pc' # "mutate" /\ exit' # "ok" /\ file' = file /\ got'.target = got.target
      BY <1>0, <1>3 DEF Scan, Goto, Exit, ExitInv, Keep, TypeOK, Knowledge
    <2>2. pc' = "gate" => got.target # file.target
      BY <1>3 DEF Scan, Goto, Exit
    <2>3. QED
      BY <2>1, <2>2 DEF ProgressInv
  <1>4. CASE ReadRemote
    <2>1. /\ pc' # "mutate" /\ exit' # "ok" /\ UNCHANGED <<file, world>>
          /\ got'.target = got.target
          /\ got'.remote = AsRead(world.tenant[got.target])
      BY <1>0, <1>4 DEF ReadRemote, Goto, ExitInv, Keep, Step, TypeOK, Knowledge
    <2>2. QED
      BY <2>1 DEF ProgressInv
  <1>5. CASE SavePlan
    <2>1. pc' = "idle" /\ cmd'.name # "apply"
      BY <1>5 DEF SavePlan, Exit, IInv, GateInv
    <2>2. QED
      BY <2>1 DEF ProgressInv
  <1>6. CASE Gate
    <2>1. /\ UNCHANGED <<world, file, cmd, got, at, left, met>>
          /\ pc = "gate" /\ at = 0
          /\ \/ pc' = "idle" /\ (exit' = "ok" => cmd.review = "dry run")
             \/ /\ pc' = "mutate" /\ exit' = "running" /\ Fresh
                /\ todo' = {a \in Assets : ActionOf(a) # "UNCHANGED"}
      BY <1>6 DEF Gate, Goto, Exit, Step, ExitInv
    <2>2. CASE pc' = "idle"
      BY <2>1, <2>2 DEF ProgressInv
    <2>3. CASE pc' = "mutate"
      <3>1. Fresh /\ todo' = {a \in Assets : ActionOf(a) # "UNCHANGED"} /\ at' = 0 /\ exit' = "running"
        BY <2>1, <2>3
      <3>2. file' # NoPlan
        BY <2>1 DEF IInv, GateInv
      <3>3. ~met => AsRead(world.tenant[file.target]) = file.remote
        BY <2>1, <3>1 DEF Fresh, ProgressInv
      <3>4. ~met' => Underway'
        <4>1. SUFFICES ASSUME ~met PROVE Underway'
          BY <2>1
        <4>2. /\ AsRead(world.tenant[file.target])' = file'.remote
              /\ todo' = {a \in Assets : ActionOf(a)' # "UNCHANGED"}
          BY <2>1, <3>1, <3>3, <4>1 DEF ActionOf
        <4>3. PastGate'
          BY <1>0, <3>1, <3>2, <4>2 DEF PastGate
        <4>4. (PastGate => Underway)'
          BY UnderwayFirst, PTL
        <4>5. QED
          BY <4>3, <4>4
      <3>5. at' \notin todo'
        BY <3>1, AssetAssumption
      <3>6. QED
        BY <2>3, <3>1, <3>4, <3>5 DEF ProgressInv
    <2>4. QED
      BY <2>1, <2>2, <2>3
  <1>7. CASE Fails \/ Killed \/ CallFails \/ Applied
    <2>1. /\ UNCHANGED <<world, file, cmd, met>> /\ pc' = "idle"
          /\ exit' = "ok" => Applied
      BY <1>7, EndStep
    <2>2. Applied => pc = "mutate" /\ todo = {} /\ left = {}
      BY DEF Applied
    <2>3. Applied /\ ~met => \A a \in Assets : Delivered(a)
      BY <1>0, <2>2, Finished
    <2>4. \A a \in Assets : Delivered(a)' <=> Delivered(a)
      BY <2>1 DEF Delivered, Held
    <2>5. QED
      BY <2>1, <2>3, <2>4 DEF ProgressInv
  <1>8. CASE Mutates
    <2>1. PICK a \in Assets, x \in TenantAssets :
             Write(a, x) /\ (Creates(a, x) \/ Updates(a, x) \/ Continues(a, x))
      BY <1>8, MutatesStep
    <2>2. pc = "mutate" /\ UNCHANGED <<pc, exit, met>>
      BY <1>8, <2>1, MutatesStep, WriteStep
    <2>3. at \notin todo
      BY <2>2 DEF ProgressInv
    <2>4. at' \notin todo'
      BY <2>1, <2>3 DEF Creates, Updates, Continues
    <2>5. ~met' => Underway'
      BY <1>0, <1>8, <2>2, <2>3, UnderwayNext
    <2>6. exit' = "running"
      BY <2>2 DEF ExitInv
    <2>7. QED
      BY <2>2, <2>4, <2>5, <2>6 DEF ProgressInv
  <1>9. CASE SourceChanges \/ EvidenceChanges \/ ConfigurationChanges \/ OtherClient
    <2>1. /\ UNCHANGED <<file, cmd, pc, got, exit, todo, at, left>>
          /\ \/ world'.tenant = world.tenant /\ UNCHANGED met
             \/ met' = TRUE
      BY <1>0, <1>9, OutsideStep
    <2>2. CASE met' = TRUE
      BY <2>1, <2>2 DEF ProgressInv
    <2>3. CASE world'.tenant = world.tenant /\ UNCHANGED met
      <3>1. AsRead(world.tenant[file.target])' = AsRead(world.tenant[file.target])
        BY <2>1, <2>3
      <3>2. \A a \in Assets : Held(a)' = Held(a) /\ (Delivered(a)' <=> Delivered(a))
        BY <2>1, <2>3 DEF Held, Delivered
      <3>3. QED
        BY <2>1, <2>3, <3>1, <3>2 DEF ProgressInv, Underway
    <2>4. QED
      BY <2>1, <2>2, <2>3
  <1>10. CASE Rest \/ UNCHANGED vars
    <2>1. UNCHANGED <<world, file, cmd, pc, got, exit, todo, at, left, met>>
      BY <1>10 DEF Rest, vars, running, writing
    <2>2. AsRead(world.tenant[file.target])' = AsRead(world.tenant[file.target])
      BY <2>1
    <2>3. \A a \in Assets : Held(a)' = Held(a) /\ (Delivered(a)' <=> Delivered(a))
      BY <2>1 DEF Held, Delivered
    <2>4. QED
      BY <2>1, <2>2, <2>3 DEF ProgressInv, Underway
  <1>11. QED
    BY <1>1, <1>2, <1>3, <1>4, <1>5, <1>6, <1>7, <1>8, <1>9, <1>10 DEF Next, Command

-----------------------------------------------------------------------------
(* Once.                                                                   *)

\* No call of an apply undoes what shows that the plan was applied.
LEMMA SpentStays ==
    ASSUME IInv, Mutates, Spent
    PROVE  Spent'
  <1>1. pc = "mutate" /\ TypeOK /\ file # NoPlan
    BY MutatesStep DEF IInv
  <1>2. PICK a \in Assets, x \in TenantAssets :
           Write(a, x) /\ (Creates(a, x) \/ Updates(a, x) \/ Continues(a, x))
    BY MutatesStep
  <1>3. /\ UNCHANGED file /\ Held(a)' = x
        /\ \A b \in Assets : b # a => Held(b)' = Held(b)
    BY <1>1, <1>2, WriteStep
  <1>4. x.exists
    BY <1>1, <1>2, UpdateEffect, ContinueEffect DEF Creates
  <1>5. ASSUME NEW b \in Assets, FirstCreation(b), Held(b).exists
        PROVE  Spent'
    <2>1. FirstCreation(b)'
      BY <1>3, <1>5 DEF FirstCreation, ActionOf
    <2>2. Held(b)'.exists
      BY <1>3, <1>4, <1>5
    <2>3. QED
      BY <2>1, <2>2 DEF Spent
  <1>6. ASSUME NEW b \in Assets, NEW p \in Properties,
               file.remote[b].managed, Held(b).managed,
               Held(b).has[p] = file.want[b][p], file.want[b][p] # file.remote[b].has[p]
        PROVE  Spent'
    <2>1. CASE b = a
      <3>1. ~Creates(a, x)
        BY <1>6, <2>1 DEF Creates, ActionOf, ActionType
      <3>2. CASE Updates(a, x)
        <4>1. x.managed /\ x.has[p] = file.want[a][p]
          BY <1>1, <1>6, <2>1, <3>2, UpdateEffect
        <4>2. QED
          BY <1>3, <1>6, <2>1, <4>1 DEF Spent
      <3>3. CASE Continues(a, x)
        <4>1. x.managed /\ x.has[p] = file.want[a][p]
          BY <1>1, <1>6, <2>1, <3>3, ContinueEffect
        <4>2. QED
          BY <1>3, <1>6, <2>1, <4>1 DEF Spent
      <3>4. QED
        BY <1>2, <3>1, <3>2, <3>3
    <2>2. CASE b # a
      BY <1>3, <1>6, <2>2 DEF Spent
    <2>3. QED
      BY <2>1, <2>2
  <1>7. QED
    BY <1>5, <1>6 DEF Spent

\* The first call of an apply that has a creation before it is its first creation.
LEMMA FirstCall ==
    ASSUME IInv, OnceInv, pc = "mutate", ~wrote, NEW c \in Assets, ActionOf(c) = "CREATE",
           NEW a \in Assets, NEW x, Creates(a, x) \/ Updates(a, x) \/ Continues(a, x)
    PROVE  Creates(a, x) /\ FirstCreation(a) /\ x # Held(a)
           /\ (\A b \in Assets : FirstCreation(b) => b = a)
  <1>1. left = {} /\ todo = {b \in Assets : ActionOf(b) # "UNCHANGED"}
    BY DEF OnceInv, Opening
  <1>2. ~Continues(a, x)
    BY <1>1 DEF Continues
  <1>3. IsNext(a) /\ (ActionOf(a) = "CREATE" => Creates(a, x))
    BY <1>2 DEF Creates, Updates
  <1>4. ActionOf(a) = "CREATE"
    BY <1>1, <1>3 DEF IsNext
  <1>5. FirstCreation(a)
    BY <1>1, <1>3, <1>4 DEF IsNext, FirstCreation
  <1>6. \A b \in Assets : FirstCreation(b) => b = a
    BY <1>5, AssetAssumption DEF FirstCreation
  <1>7. Creates(a, x) /\ x # Held(a)
    BY <1>3, <1>4 DEF Creates
  <1>8. QED
    BY <1>5, <1>6, <1>7

\* The first call that changes the tenant finds the plan not spent, and spends it.
LEMMA FirstWrite ==
    ASSUME IInv, OnceInv, Mutates, ~wrote, wrote', ~met
    PROVE  ~Spent /\ Spent'
  <1>1. pc = "mutate" /\ TypeOK /\ file # NoPlan
    BY MutatesStep DEF IInv
  <1>2. PICK a \in Assets, x \in TenantAssets :
           Write(a, x) /\ (Creates(a, x) \/ Updates(a, x) \/ Continues(a, x))
    BY MutatesStep
  <1>3. /\ UNCHANGED file /\ Held(a)' = x /\ x # Held(a)
        /\ \A b \in Assets : b # a => Held(b)' = Held(b)
    BY <1>1, <1>2, WriteStep
  <1>4. AsRead(world.tenant[file.target]) = file.remote
    BY <1>1 DEF OnceInv, Opening
  <1>5. \A b \in Assets : file.remote[b].managed =>
           Held(b).managed /\ Held(b).has = file.remote[b].has
    BY <1>4, ShownManaged
  <1>6. ~Spent
    <2>1. ASSUME NEW b \in Assets, FirstCreation(b), Held(b).exists
          PROVE  FALSE
      <3>1. Creates(a, x) /\ b = a
        BY <1>1, <1>2, <2>1, FirstCall DEF FirstCreation
      <3>2. QED
        BY <2>1, <3>1 DEF Creates
    <2>2. QED
      BY <1>5, <2>1 DEF Spent
  <1>7. Spent'
    <2>1. CASE \E c \in Assets : ActionOf(c) = "CREATE"
      <3>1. FirstCreation(a) /\ x.exists
        BY <1>1, <1>2, <2>1, FirstCall DEF Creates
      <3>2. FirstCreation(a)'
        BY <1>3, <3>1 DEF FirstCreation, ActionOf
      <3>3. QED
        BY <1>3, <3>1, <3>2 DEF Spent
    <2>2. CASE \A c \in Assets : ActionOf(c) # "CREATE"
      <3>1. file.remote[a].managed
        BY <2>2 DEF ActionOf, ActionType
      <3>2. Held(a).managed /\ Held(a).has = file.remote[a].has
        BY <1>5, <3>1
      <3>3. \E p \in Properties : /\ x.managed /\ x.has[p] = file.want[a][p]
                                  /\ file.want[a][p] # file.remote[a].has[p]
        <4>1. CASE Updates(a, x)
          <5>1. DisplayName \in Properties
            BY DEF Properties
          <5>2. QED
            BY <1>1, <1>3, <3>2, <4>1, <5>1, UpdateEffect
        <4>2. CASE Continues(a, x)
          BY <1>1, <1>3, <3>2, <4>2, ContinueEffect
        <4>3. QED
          BY <1>2, <2>2, <4>1, <4>2 DEF Creates
      <3>4. QED
        BY <1>3, <3>1, <3>3 DEF Spent
    <2>3. QED
      BY <2>1, <2>2
  <1>8. QED
    BY <1>6, <1>7

LEMMA OnceInit == Init => OnceInv
  <1> SUFFICES ASSUME Init PROVE OnceInv
    OBVIOUS
  <1>1. /\ pc = "idle"
        /\ since = [flags |-> FALSE, changes |-> 0, foreign |-> FALSE, applies |-> 0]
    BY DEF Init
  <1>2. since.applies = 0
    BY <1>1
  <1>3. QED
    BY <1>1, <1>2 DEF OnceInv, AtMostOnce

LEMMA OnceNext ==
    ASSUME IInv, ExitInv, ProgressInv, OnceInv, [Next]_vars
    PROVE  OnceInv'
  <1>0. TypeOK /\ (pc = "mutate" /\ ~wrote => Opening) /\ AtMostOnce
    BY DEF OnceInv, IInv
  <1> SUFFICES (pc' = "mutate" /\ ~wrote' => Opening') /\ AtMostOnce'
    BY DEF OnceInv
  <1>1. ASSUME UNCHANGED <<file, since>>, world'.tenant = world.tenant
        PROVE  AtMostOnce'
    <2>1. \A a \in Assets : Held(a)' = Held(a) /\ (FirstCreation(a)' <=> FirstCreation(a))
      BY <1>1 DEF Held, FirstCreation, ActionOf
    <2>2. Spent => Spent'
      BY <1>1, <2>1 DEF Spent
    <2>3. QED
      BY <1>0, <1>1, <2>2 DEF AtMostOnce
  <1>2. CASE \/ StartPlan \/ StartApply \/ ComposeEvidence \/ CheckFlags \/ Scan \/ ReadRemote
             \/ Fails \/ Killed \/ CallFails \/ Applied
    <2>1. UNCHANGED <<world, file, since>> /\ pc' # "mutate"
      BY <1>2, EndStep DEF StartPlan, StartApply, Begin, ComposeEvidence, CheckFlags, Scan, ReadRemote,
                  Goto, Exit, Step, Keep
    <2>2. QED
      BY <1>0, <1>1, <2>1
  <1>3. CASE SavePlan
    <2>1. /\ pc' = "idle" /\ UNCHANGED world
          /\ UNCHANGED <<file, since>> \/ since'.applies = 0
      BY <1>3 DEF SavePlan, Exit, Step
    <2>2. QED
      BY <1>0, <1>1, <2>1 DEF AtMostOnce
  <1>4. CASE Gate
    <2>1. /\ pc = "gate" /\ left = {} /\ UNCHANGED <<world, file, left, met, since>>
          /\ pc' = "mutate" =>
                Fresh /\ todo' = {a \in Assets : ActionOf(a) # "UNCHANGED"}
      BY <1>4 DEF Gate, Goto, Exit, Step, ExitInv
    <2>2. pc' = "mutate" => Opening'
      <3>1. pc' = "mutate" /\ ~met => AsRead(world.tenant[file.target]) = file.remote
        BY <2>1 DEF Fresh, ProgressInv
      <3>2. \A a \in Assets : ActionOf(a)' = ActionOf(a)
        BY <2>1 DEF ActionOf
      <3>3. QED
        BY <2>1, <3>1, <3>2 DEF Opening
    <2>3. QED
      BY <1>0, <1>1, <2>1, <2>2
  <1>5. CASE Mutates
    <2>1. pc = "mutate" /\ file # NoPlan
      BY <1>5, MutatesStep
    <2>2. PICK a \in Assets, x \in TenantAssets :
             Write(a, x) /\ (Creates(a, x) \/ Updates(a, x) \/ Continues(a, x))
      BY <1>5, MutatesStep
    <2>3. /\ UNCHANGED <<file, pc, met>>
          /\ (wrote' <=> wrote \/ x # Held(a))
          /\ x = Held(a) => world' = world
          /\ wrote \/ ~wrote' => since' = since
          /\ ~wrote /\ wrote' => since' = [since EXCEPT !.applies = since.applies + 1]
      BY <2>1, <2>2, WriteStep
    <2>4. ~wrote' => Opening'
      <3>1. SUFFICES ASSUME ~wrote' PROVE Opening'
        OBVIOUS
      <3>2. ~wrote /\ x = Held(a) /\ world' = world
        BY <2>3, <3>1
      <3>3. \A c \in Assets : ActionOf(c)' = ActionOf(c) /\ ActionOf(c) # "CREATE"
        BY <2>1, <2>2, <2>3, <3>2, FirstCall DEF ActionOf
      <3>4. QED
        BY <1>0, <2>1, <2>3, <3>2, <3>3 DEF Opening
    <2>5. AtMostOnce'
      <3>1. CASE wrote \/ ~wrote'
        BY <1>0, <1>5, <2>1, <2>3, <3>1, SpentStays DEF AtMostOnce
      <3>2. CASE ~wrote /\ wrote'
        <4>1. since'.foreign = since.foreign /\ since'.applies = since.applies + 1
              /\ since.applies \in Nat
          BY <1>0, <2>3, <3>2 DEF TypeOK
        <4>2. ~since.foreign => ~met
          BY DEF ExitInv
        <4>3. ~since.foreign => ~Spent /\ Spent'
          BY <1>5, <3>2, <4>2, FirstWrite
        <4>4. ~since.foreign => since.applies = 0
          BY <1>0, <4>1, <4>3 DEF AtMostOnce
        <4>5. QED
          BY <2>1, <2>3, <4>1, <4>3, <4>4 DEF AtMostOnce
      <3>3. QED
        BY <3>1, <3>2
    <2>6. QED
      BY <1>0, <2>4, <2>5
  <1>6. CASE SourceChanges \/ EvidenceChanges \/ ConfigurationChanges \/ OtherClient
    <2>1. /\ UNCHANGED <<file, pc, todo, left, wrote>>
          /\ \/ world'.tenant = world.tenant /\ UNCHANGED <<met, since>>
             \/ met' = TRUE /\ since' = [since EXCEPT !.foreign = TRUE]
      BY <1>0, <1>6, OutsideStep
    <2>2. \A a \in Assets : ActionOf(a)' = ActionOf(a)
      BY <2>1 DEF ActionOf
    <2>3. Opening => Opening'
      BY <2>1, <2>2 DEF Opening
    <2>4. AtMostOnce'
      <3>1. CASE world'.tenant = world.tenant /\ UNCHANGED <<met, since>>
        BY <1>1, <2>1, <3>1
      <3>2. CASE since' = [since EXCEPT !.foreign = TRUE]
        <4>1. since'.foreign
          BY <1>0, <3>2 DEF TypeOK
        <4>2. QED
          BY <4>1 DEF AtMostOnce
      <3>3. QED
        BY <2>1, <3>1, <3>2
    <2>5. QED
      BY <1>0, <2>1, <2>3, <2>4
  <1>7. CASE Rest \/ UNCHANGED vars
    <2>1. UNCHANGED <<world, file, pc, todo, left, wrote, met, since>>
      BY <1>7 DEF Rest, vars, running, writing
    <2>2. \A a \in Assets : ActionOf(a)' = ActionOf(a)
      BY <2>1 DEF ActionOf
    <2>3. Opening => Opening'
      BY <2>1, <2>2 DEF Opening
    <2>4. QED
      BY <1>0, <1>1, <2>1, <2>3
  <1>8. QED
    BY <1>2, <1>3, <1>4, <1>5, <1>6, <1>7 DEF Next, Command

-----------------------------------------------------------------------------
(* Currency.                                                               *)

\* What a command has read, read again where nothing changed, is the same.
LEMMA GotFields ==
    ASSUME TypeOK, NEW g, NEW v
    PROVE  /\ g = [got EXCEPT !.policy = v] =>
                 /\ g.settings = got.settings /\ g.target = got.target /\ g.policy = v
                 /\ g.base = got.base /\ g.decision = got.decision /\ g.remote = got.remote
           /\ g = [got EXCEPT !.base = v] =>
                 /\ g.settings = got.settings /\ g.target = got.target /\ g.policy = got.policy
                 /\ g.base = v /\ g.decision = got.decision /\ g.remote = got.remote
           /\ g = [got EXCEPT !.decision = v] =>
                 /\ g.settings = got.settings /\ g.target = got.target /\ g.policy = got.policy
                 /\ g.base = got.base /\ g.decision = v /\ g.remote = got.remote
           /\ g = [got EXCEPT !.remote = v] =>
                 /\ g.settings = got.settings /\ g.target = got.target /\ g.policy = got.policy
                 /\ g.base = got.base /\ g.decision = got.decision /\ g.remote = v
  BY DEF TypeOK, Knowledge

\* The decisions a command composes, for the flags it was given.
Composed == IF cmd.flags THEN world.evidence ELSE got.decision

LEMMA ComposedIsGiven ==
    ASSUME IInv, pc = "evidence", NEW a \in Assets, NEW p \in Properties
    PROVE  Composed[a][p] = Given(cmd.flags, a, p)
  BY DEF IInv, GateInv, Composed, Given

\* A plan since which nothing changed agrees with the evidence given again.
LEMMA CurrentEvidence ==
    ASSUME IInv, CurrencyInv, pc = "evidence", cmd.name = "apply", file.version = 2,
           changes = since.changes, since.applies = 0, cmd.flags = since.flags
    PROVE  ~StaleEvidence(Composed)
  <1>1. file # NoPlan
    BY DEF IInv, GateInv
  <1>2. file.assumes = [a \in Assets |-> [p \in Planned(a) |-> Given(since.flags, a, p)]]
    BY DEF CurrencyInv, PlanIsCurrent
  <1>3. \A a \in Assets : DOMAIN file.assumes[a] = Planned(a) /\ Planned(a) \subseteq Properties
    BY <1>2, BoundaryType DEF Planned
  <1>4. \A a \in Assets : OnBoundary(Composed[a], DOMAIN file.assumes[a]) = file.assumes[a]
    <2>1. SUFFICES ASSUME NEW a \in Assets
                   PROVE  OnBoundary(Composed[a], DOMAIN file.assumes[a]) = file.assumes[a]
      OBVIOUS
    <2>2. OnBoundary(Composed[a], DOMAIN file.assumes[a])
             = [p \in Planned(a) |-> Composed[a][p]]
      BY <1>3 DEF OnBoundary
    <2>3. file.assumes[a] = [p \in Planned(a) |-> Given(cmd.flags, a, p)]
      BY <1>2
    <2>4. \A p \in Planned(a) : Composed[a][p] = Given(cmd.flags, a, p)
      BY <1>3, ComposedIsGiven
    <2>5. QED
      BY <2>2, <2>3, <2>4
  <1>5. Recomputed(Composed) = file.assumes
    <2>1. Recomputed(Composed)
             = [a \in Assets |-> OnBoundary(Composed[a], DOMAIN file.assumes[a])]
      BY DEF Recomputed
    <2>2. file.assumes = [a \in Assets |-> file.assumes[a]]
      BY <1>2
    <2>3. QED
      BY <1>4, <2>1, <2>2
  <1>6. QED
    BY <1>5 DEF StaleEvidence

\* It passes the gate.
LEMMA CurrentIsFresh ==
    ASSUME CurrencyInv, pc = "gate", file.version = 2, changes \in Nat, since.changes \in Nat,
           cmd.asof \in Nat, changes = since.changes, since.applies = 0
    PROVE  Fresh
  BY DEF CurrencyInv, CommandIsCurrent, PlanIsCurrent, Fresh

LEMMA CurrencyInit == Init => CurrencyInv
  <1> SUFFICES ASSUME Init PROVE CurrencyInv
    OBVIOUS
  <1>1. /\ cmd = [name |-> "none", flags |-> FALSE, review |-> "dry run", asof |-> 0]
        /\ since = [flags |-> FALSE, changes |-> 0, foreign |-> FALSE, applies |-> 0]
        /\ pc = "idle" /\ exit = "running" /\ changes = 0
    BY DEF Init
  <1>2. cmd.asof = 0 /\ since.changes = 0 /\ changes = 0 /\ pc = "idle" /\ exit = "running"
    BY <1>1
  <1>3. file.version # 2
    <2> DEFINE g == [Blank(world.settings, world.target) EXCEPT
                       !.policy = world.policy, !.base = world.base,
                       !.remote = AsRead(world.tenant[world.target])]
    <2>1. file = NoPlan \/ file = PlanFrom(1, g)
      BY DEF Init
    <2>2. NoPlan.version = 0 /\ PlanFrom(1, g).version = 1
      BY DEF NoPlan, PlanFrom
    <2>3. QED
      BY <2>1, <2>2
  <1>4. QED
    BY <1>2, <1>3 DEF CurrencyInv, CommandIsCurrent, PlanIsCurrent, OnlyStalePlansAreRefused

\* A plan just made is current if nothing changed since its reads began.
LEMMA SavedIsCurrent ==
    ASSUME IInv, CurrencyInv, SavePlan, file' = PlanFrom(2, got), changes = cmd.asof
    PROVE  /\ file'.settings = world.settings /\ file'.target = world.target
           /\ file'.policy = world.policy /\ file'.base = world.base
           /\ file'.remote = AsRead(world.tenant[world.target])
           /\ file'.assumes = [a \in Assets |-> [p \in Planned(a)' |-> Given(cmd.flags, a, p)]]
  <1>1. pc = "save" /\ cmd.name = "plan" /\ got \in Knowledge
    BY DEF SavePlan, IInv, GateInv, TypeOK
  <1>2. /\ file'.settings = got.settings /\ file'.target = got.target
        /\ file'.policy = got.policy /\ file'.base = got.base /\ file'.remote = got.remote
        /\ \A a \in Assets :
              /\ DOMAIN file'.assumes[a] = Planned(a)'
              /\ \A p \in DOMAIN file'.assumes[a] : file'.assumes[a][p] = got.decision[a][p]
    BY <1>1, PlanFromType DEF Planned
  <1>3. /\ got.settings = world.settings /\ got.target = world.target
        /\ got.policy = world.policy /\ got.base = world.base
        /\ got.remote = AsRead(world.tenant[got.target])
        /\ \A a \in Assets, p \in Properties : got.decision[a][p] = Given(cmd.flags, a, p)
    BY <1>1 DEF CurrencyInv, CommandIsCurrent
  <1>4. \A a \in Assets : Planned(a)' \subseteq Properties
    BY BoundaryType DEF Planned
  <1>5. \A a \in Assets :
           file'.assumes[a] = OnBoundary(got.decision[a], Planned(a)')
    BY <1>2 DEF PlanFrom, Assumptions, Planned
  <1>6. \A a \in Assets : file'.assumes[a] = [p \in Planned(a)' |-> Given(cmd.flags, a, p)]
    <2>1. SUFFICES ASSUME NEW a \in Assets
                   PROVE  file'.assumes[a] = [p \in Planned(a)' |-> Given(cmd.flags, a, p)]
      OBVIOUS
    <2>2. \A p \in Planned(a)' : got.decision[a][p] = Given(cmd.flags, a, p)
      BY <1>3, <1>4
    <2>3. file'.assumes[a] = [p \in Planned(a)' |-> got.decision[a][p]]
      BY <1>5 DEF OnBoundary
    <2>4. QED
      BY <2>2, <2>3
  <1>7. file'.assumes = [a \in Assets |-> file'.assumes[a]]
    BY DEF PlanFrom
  <1>8. QED
    BY <1>2, <1>3, <1>6, <1>7

\* The reads of a command where the world stays.
LEMMA ReadingCurrent ==
    ASSUME IInv, CurrencyInv, ComposeEvidence \/ CheckFlags \/ Scan \/ ReadRemote
    PROVE  CommandIsCurrent'
  <1>0. /\ TypeOK /\ GateInv /\ CommandIsCurrent /\ UNCHANGED <<world, file, cmd, changes>>
    BY DEF IInv, CurrencyInv, ComposeEvidence, CheckFlags, Scan, ReadRemote, Step, Keep
  <1>1. CASE ComposeEvidence
    <2>1. /\ pc = "evidence" /\ pc' \in {"idle", "scan", "flags"}
          /\ pc' = "scan" => cmd.name = "plan"
          /\ \/ pc' = "idle" /\ got' = got
             \/ got' = [got EXCEPT !.decision = Composed]
      BY <1>1 DEF ComposeEvidence, Composed, Goto, Exit
    <2>2. /\ got'.settings = got.settings /\ got'.target = got.target /\ got'.policy = got.policy
          /\ pc' = "scan" => got'.decision = Composed
      <3>1. CASE got' = [got EXCEPT !.decision = Composed]
        BY <1>0, <3>1, GotFields
      <3>2. QED
        BY <2>1, <3>1
    <2>3. \A a \in Assets, p \in Properties : Composed[a][p] = Given(cmd.flags, a, p)
      BY <2>1, ComposedIsGiven
    <2>4. \A a \in Assets, p \in Properties : Given(cmd.flags, a, p)' = Given(cmd.flags, a, p)
      BY <1>0 DEF Given
    <2>5. QED
      BY <1>0, <2>1, <2>2, <2>3, <2>4 DEF CommandIsCurrent
  <1>2. CASE CheckFlags
    <2>1. /\ pc = "flags" /\ pc' \in {"idle", "scan"}
          /\ got' = got \/ got' = [got EXCEPT !.policy = world.policy]
          /\ pc' = "scan" => got' = [got EXCEPT !.policy = world.policy]
      BY <1>2 DEF CheckFlags, Goto, Exit
    <2>2. /\ got'.settings = got.settings /\ got'.target = got.target
          /\ pc' = "scan" => got'.policy = world.policy
      BY <1>0, <2>1, GotFields
    <2>3. cmd.name = "apply"
      BY <1>0, <2>1 DEF GateInv
    <2>4. QED
      BY <1>0, <2>1, <2>2, <2>3 DEF CommandIsCurrent
  <1>3. CASE Scan
    <2>1. /\ pc = "scan" /\ pc' \in {"idle", "read", "gate"}
          /\ got' = [got EXCEPT !.base = world.base]
          /\ pc' = "gate" => got.target # file.target
      BY <1>3 DEF Scan, Goto, Exit
    <2>2. /\ got'.settings = got.settings /\ got'.target = got.target /\ got'.policy = got.policy
          /\ got'.base = world.base /\ got'.decision = got.decision
      BY <1>0, <2>1, GotFields
    <2>3. \A a \in Assets, p \in Properties : Given(cmd.flags, a, p)' = Given(cmd.flags, a, p)
      BY <1>0 DEF Given
    <2>4. QED
      BY <1>0, <2>1, <2>2, <2>3 DEF CommandIsCurrent
  <1>4. CASE ReadRemote
    <2>1. /\ pc = "read" /\ pc' \in {"save", "gate"}
          /\ got' = [got EXCEPT !.remote = AsRead(world.tenant[got.target])]
      BY <1>4 DEF ReadRemote, Goto
    <2>2. /\ got'.settings = got.settings /\ got'.target = got.target /\ got'.policy = got.policy
          /\ got'.base = got.base /\ got'.decision = got.decision
          /\ got'.remote = AsRead(world.tenant[got.target])
      BY <1>0, <2>1, GotFields
    <2>3. \A a \in Assets, p \in Properties : Given(cmd.flags, a, p)' = Given(cmd.flags, a, p)
      BY <1>0 DEF Given
    <2>4. QED
      BY <1>0, <2>1, <2>2, <2>3 DEF CommandIsCurrent
  <1>5. QED
    BY <1>1, <1>2, <1>3, <1>4

\* Where neither the world nor the plan changes, a current plan stays current.
LEMMA PlanStaysCurrent ==
    ASSUME PlanIsCurrent, UNCHANGED <<world, file, changes, since>>
    PROVE  PlanIsCurrent'
  <1>1. \A a \in Assets : Planned(a)' = Planned(a)
    BY DEF Planned
  <1>2. \A a \in Assets, p \in Properties : Given(since.flags, a, p)' = Given(since.flags, a, p)
    BY DEF Given
  <1>3. \A a \in Assets : Planned(a) \subseteq Properties
    BY BoundaryType DEF Planned
  <1>4. [a \in Assets |-> [p \in Planned(a) |-> Given(since.flags, a, p)]]'
           = [a \in Assets |-> [p \in Planned(a) |-> Given(since.flags, a, p)]]
    BY <1>1, <1>2, <1>3
  <1>5. QED
    BY <1>4 DEF PlanIsCurrent

LEMMA CurrencyNext ==
    ASSUME IInv, ExitInv, ExitInv', CurrencyInv, [Next]_vars
    PROVE  CurrencyInv'
  <1>0. /\ TypeOK /\ TypeOK' /\ CommandIsCurrent /\ PlanIsCurrent /\ OnlyStalePlansAreRefused
        /\ since.changes <= cmd.asof /\ cmd.asof <= changes
        /\ changes \in Nat /\ cmd.asof \in Nat /\ since.changes \in Nat /\ since.applies \in Nat
    BY TypeNext, AssetAssumption DEF IInv, CurrencyInv, TypeOK
  <1>1. CASE StartPlan \/ StartApply
    <2>1. PICK name \in {"plan", "apply"}, flags \in BOOLEAN, review \in Reviews,
               label \in {"idle", "evidence"}, outcome \in {"usage", "running"} :
             Begin(name, flags, review, label, outcome)
      BY <1>1 DEF StartPlan, StartApply, Reviews
    <2>2. /\ pc' = label /\ exit' = outcome /\ UNCHANGED <<world, file, changes, since>>
          /\ cmd' = [name |-> name, flags |-> flags, review |-> review, asof |-> changes]
          /\ got' = [Blank(world.settings, world.target) EXCEPT
                       !.policy = IF name = "plan" THEN world.policy ELSE {}]
      BY <2>1 DEF Begin
    <2>3. cmd'.asof = changes /\ cmd'.name = name
      BY <2>2
    <2>4. /\ got'.settings = world.settings /\ got'.target = world.target
          /\ name = "plan" => got'.policy = world.policy
      BY <2>2 DEF Blank
    <2>5. CommandIsCurrent'
      BY <2>2, <2>3, <2>4 DEF CommandIsCurrent
    <2>6. PlanIsCurrent'
      BY <1>0, <2>2, PlanStaysCurrent
    <2>7. exit' # "stale"
      BY <2>2
    <2>8. QED
      BY <1>0, <2>2, <2>3, <2>5, <2>6, <2>7 DEF CurrencyInv, OnlyStalePlansAreRefused
  <1>2. CASE ComposeEvidence \/ CheckFlags \/ Scan \/ ReadRemote
    <2>1. /\ UNCHANGED <<world, file, cmd, changes, since>> /\ pc # "idle"
      BY <1>2 DEF ComposeEvidence, CheckFlags, Scan, ReadRemote, Step, Keep
    <2>2. CommandIsCurrent' /\ PlanIsCurrent'
      BY <1>0, <1>2, <2>1, ReadingCurrent, PlanStaysCurrent
    <2>3. OnlyStalePlansAreRefused'
      <3>1. exit = "running"
        BY <2>1 DEF ExitInv
      <3>2. exit' = "stale" => /\ ComposeEvidence /\ cmd.name = "apply" /\ StaleEvidence(Composed)
        BY <1>0, <1>2, <3>1 DEF ComposeEvidence, CheckFlags, Scan, ReadRemote, Goto, Exit, Composed,
                                IInv, GateInv, TypeOK
      <3>3. exit' = "stale" /\ file.version = 2 =>
               changes # since.changes \/ since.applies # 0 \/ cmd.flags # since.flags
        BY <3>2, CurrentEvidence DEF ComposeEvidence
      <3>4. QED
        BY <1>0, <2>1, <3>3 DEF OnlyStalePlansAreRefused
    <2>4. QED
      BY <1>0, <2>1, <2>2, <2>3 DEF CurrencyInv
  <1>3. CASE SavePlan
    <2>1. /\ pc = "save" /\ pc' = "idle" /\ exit' # "stale" /\ UNCHANGED <<world, cmd, changes>>
          /\ \/ UNCHANGED <<file, since>>
             \/ /\ file' = PlanFrom(2, got)
                /\ since' = [flags |-> cmd.flags, changes |-> cmd.asof,
                             foreign |-> met, applies |-> 0]
      BY <1>3 DEF SavePlan, Exit, Step
    <2>2. CommandIsCurrent' /\ OnlyStalePlansAreRefused'
      BY <2>1 DEF CommandIsCurrent, OnlyStalePlansAreRefused
    <2>3. CASE UNCHANGED <<file, since>>
      BY <1>0, <2>1, <2>2, <2>3, PlanStaysCurrent DEF CurrencyInv
    <2>4. CASE /\ file' = PlanFrom(2, got)
               /\ since' = [flags |-> cmd.flags, changes |-> cmd.asof,
                            foreign |-> met, applies |-> 0]
      <3>1. since'.changes = cmd.asof /\ since'.flags = cmd.flags
        BY <2>4
      <3>2. \A a \in Assets, p \in Properties : Given(since.flags, a, p)' = Given(cmd.flags, a, p)
        BY <2>1, <3>1 DEF Given
      <3>3. \A a \in Assets : Planned(a)' \subseteq Properties
        BY BoundaryType DEF Planned
      <3>4. [a \in Assets |-> [p \in Planned(a) |-> Given(since.flags, a, p)]]'
               = [a \in Assets |-> [p \in Planned(a)' |-> Given(cmd.flags, a, p)]]
        BY <3>2, <3>3
      <3>5. PlanIsCurrent'
        BY <1>3, <2>1, <2>4, <3>1, <3>4, SavedIsCurrent DEF PlanIsCurrent
      <3>6. QED
        BY <1>0, <2>1, <2>2, <3>1, <3>5 DEF CurrencyInv
    <2>5. QED
      BY <2>1, <2>3, <2>4
  <1>4. CASE Gate
    <2>1. /\ pc = "gate" /\ pc' \in {"idle", "mutate"}
          /\ UNCHANGED <<world, file, cmd, changes, since>>
          /\ exit' = "stale" => ~Fresh
      BY <1>4 DEF Gate, Goto, Exit, Step, ExitInv
    <2>2. CommandIsCurrent' /\ PlanIsCurrent'
      BY <1>0, <2>1, PlanStaysCurrent DEF CommandIsCurrent
    <2>3. exit' = "stale" /\ file.version = 2 => changes # since.changes \/ since.applies # 0
      BY <1>0, <2>1, CurrentIsFresh
    <2>4. OnlyStalePlansAreRefused'
      BY <1>0, <2>1, <2>3 DEF OnlyStalePlansAreRefused
    <2>5. QED
      BY <1>0, <2>1, <2>2, <2>4 DEF CurrencyInv
  <1>5. CASE Fails \/ Killed \/ CallFails \/ Applied
    <2>1. /\ UNCHANGED <<world, file, cmd, changes, since>> /\ pc' = "idle" /\ exit' # "stale"
      BY <1>5, EndStep
    <2>2. QED
      BY <1>0, <2>1, PlanStaysCurrent DEF CurrencyInv, CommandIsCurrent, OnlyStalePlansAreRefused
  <1>6. CASE Mutates
    <2>1. PICK a \in Assets, x \in TenantAssets : pc = "mutate" /\ Write(a, x)
      BY <1>6, MutatesStep
    <2>2. /\ UNCHANGED <<file, cmd, pc, exit, changes>>
          /\ (wrote' <=> wrote \/ x # Held(a)) /\ (x = Held(a) => world' = world)
          /\ wrote \/ ~wrote' => since' = since
          /\ ~wrote /\ wrote' => since' = [since EXCEPT !.applies = since.applies + 1]
      BY <2>1, WriteStep
    <2>3. exit' = "running"
      BY <2>1, <2>2 DEF ExitInv
    <2>4. since'.changes = since.changes
      BY <1>0, <2>2 DEF TypeOK
    <2>5. PlanIsCurrent'
      <3>1. CASE wrote'
        <4>1. since'.applies >= 1
          BY <3>1 DEF ExitInv
        <4>2. QED
          BY <4>1 DEF PlanIsCurrent
      <3>2. CASE ~wrote'
        BY <1>0, <2>2, <3>2, PlanStaysCurrent
      <3>3. QED
        BY <3>1, <3>2
    <2>6. QED
      BY <1>0, <2>1, <2>2, <2>3, <2>4, <2>5
         DEF CurrencyInv, CommandIsCurrent, OnlyStalePlansAreRefused
  <1>7. CASE SourceChanges \/ EvidenceChanges \/ ConfigurationChanges \/ OtherClient
    <2>1. /\ changes' = changes + 1 /\ UNCHANGED <<file, cmd, exit>>
          /\ since' = since \/ since' = [since EXCEPT !.foreign = TRUE]
      BY <1>0, <1>7, OutsideStep
    <2>2. since'.changes = since.changes
      BY <1>0, <2>1 DEF TypeOK
    <2>3. changes' > cmd'.asof /\ changes' > since'.changes
      BY <1>0, <2>1, <2>2
    <2>4. QED
      BY <1>0, <2>1, <2>2, <2>3
         DEF CurrencyInv, CommandIsCurrent, PlanIsCurrent, OnlyStalePlansAreRefused
  <1>8. CASE Rest \/ UNCHANGED vars
    <2>1. UNCHANGED <<world, file, cmd, pc, got, exit, changes, since>>
      BY <1>8 DEF Rest, vars, running
    <2>2. \A a \in Assets, p \in Properties : Given(cmd.flags, a, p)' = Given(cmd.flags, a, p)
      BY <2>1 DEF Given
    <2>3. QED
      BY <1>0, <2>1, <2>2, PlanStaysCurrent DEF CurrencyInv, CommandIsCurrent, OnlyStalePlansAreRefused
  <1>9. QED
    BY <1>1, <1>2, <1>3, <1>4, <1>5, <1>6, <1>7, <1>8 DEF Next, Command

-----------------------------------------------------------------------------
(* What the command line may rely on.                                      *)

FullInv == IInv /\ ExitInv /\ ProgressInv /\ OnceInv /\ CurrencyInv

\* The reads, the writes and the exits of the commands, the plan file and the
\* tenant fit together.
THEOREM ApplyInvariance == Spec => []FullInv
  <1>1. Init => FullInv
    BY InvInit, ExitInit, ProgressInit, OnceInit, CurrencyInit DEF FullInv
  <1>2. FullInv /\ [Next]_vars => FullInv'
    BY InvNext, ExitNext, ProgressNext, OnceNext, CurrencyNext DEF FullInv
  <1>3. QED
    BY <1>1, <1>2, PTL DEF Spec

\* Whatever part of it a first apply did before it ended, failed or was killed, a
\* saved plan changes a tenant that no other client changes in that apply only: the
\* next one is refused by the gate or by its first call (PlanAppliesOnce).
THEOREM AppliesOnce == Spec => []PlanAppliesOnce
  <1>1. FullInv => PlanAppliesOnce
    BY DEF FullInv, OnceInv, AtMostOnce, PlanAppliesOnce
  <1>2. QED
    BY <1>1, ApplyInvariance, PTL

\* A refusal, a usage error and a policy exit report an unchanged tenant, and
\* success that all the plan's values are there (ExitTellsTheTruth).
THEOREM ExitIsTrue == Spec => []ExitTellsTheTruth
  <1>1. ExitInv /\ ProgressInv => ExitTellsTheTruth
    BY DEF ExitInv, ProgressInv, Delivered, Held, ExitTellsTheTruth
  <1>2. QED
    BY <1>1, ApplyInvariance, PTL DEF FullInv

\* Without a change, an apply or other evidence flags no plan is refused as stale
\* (OnlyStalePlansAreRefused).
THEOREM RefusedIsStale == Spec => []OnlyStalePlansAreRefused
  <1>1. CurrencyInv => OnlyStalePlansAreRefused
    BY DEF CurrencyInv
  <1>2. QED
    BY <1>1, ApplyInvariance, PTL DEF FullInv
====
