---- MODULE GitHubAction ----
(***************************************************************************)
(* The GitHub action (action.yml, github_ci/*.py): workflow runs on one    *)
(* pull request, each a run step that calls the command line, a step that  *)
(* publishes the report as one sticky comment, and a gate whose exit code  *)
(* is the verdict.                                                         *)
(*                                                                         *)
(* Runs are not coordinated.  What they read changes while they read it, a *)
(* call of the command line may be killed, a step may crash, and the       *)
(* comments of the pull request are read page by page while others add     *)
(* and delete comments.                                                    *)
(***************************************************************************)
EXTENDS Review, Impact

CONSTANTS
    Runs,          \* workflow runs
    Scenarios,     \* what the runs find (the world: configuration, database, files),
                   \* the worlds it may become, what each run may be asked, the
                   \* comments, whether others comment, and how much may go wrong
    PerPage,       \* PER_PAGE: comments on a page
    MaxPages,      \* MAX_PAGES: pages the publisher looks at
    MaxComments    \* bound on comments of the pull request

ASSUME BoundAssumption ==
    /\ PerPage \in Nat \ {0} /\ MaxPages \in Nat \ {0}
    /\ MaxComments \in Nat

\* A run comments only after it has started, and others are not runs.
ASSUME CommentAssumption ==
    /\ "other" \notin Runs
    /\ \A s \in Scenarios :
        /\ s.comments \in Seq(Range(s.comments))
        /\ \A n \in DOMAIN s.comments : s.comments[n].by \notin Runs

Nowhere == "no path"

\* The worlds there may be.
Worlds == {s.world : s \in Scenarios} \cup UNION {s.may.versions : s \in Scenarios}

\* A rule's expectation gives a side's value or leaves it open; every document is finite.
ASSUME WorldAssumption ==
    \A w \in Worlds :
        /\ DOMAIN w = {"config", "policies", "snapshot", "sources", "changed", "observations",
                       "authority", "baseline", "candidate", "drift_policy"}
        /\ Shaped(w.baseline) /\ Shaped(w.candidate)
        /\ IsFiniteSet(w.observations.entries) /\ IsFiniteSet(AuthorityOf(w.authority))
        /\ w.sources \in Seq(Range(w.sources))
        /\ \A n \in DOMAIN w.sources :
            /\ IsFiniteSet(w.sources[n].nodes) /\ IsFiniteSet(w.sources[n].edges)
            /\ {i.identity : i \in w.sources[n].nodes} \subseteq Range(NodeOrder)
        /\ \A rule \in w.drift_policy : \A side \in {"baseline", "candidate"} :
            LET sides == rule.expected[side] IN sides \in Seq(Range(sides)) /\ Len(sides) <= 1

\* A review takes a comparison of another run, or none.
ASSUME RequestAssumption ==
    /\ Nowhere \notin Runs
    /\ \A s \in Scenarios : \A r \in Runs : \A q \in s.may.requests[r] :
        q.op = "review" => q.comparison \in Runs \cup {Nowhere}

VARIABLES
    scenario,      \* of the scenario, what may happen
    world,         \* the world as it is
    run,           \* each run: its request, its next step and what it has so far
    comments,      \* the comments of the pull request, oldest first
    changes        \* changes from outside

vars == <<scenario, world, run, comments, changes>>

\* The outputs of a run step: empty until it writes them.
NoOutputs == [status |-> "", failure |-> "", desired |-> 1, plan_path |-> FALSE,
              impact |-> "not_run", review |-> "not_run"]
Outcome(status, failure, desired) ==
    [NoOutputs EXCEPT !.status = status, !.failure = failure, !.desired = desired]
Failed(failure) == Outcome("failed", failure, 1)

Nothing == [kind |-> "nothing"]
NoRequest == [op |-> "none"]

Idle == [request |-> NoRequest, pc |-> "idle", phase_a |-> FALSE, outputs |-> NoOutputs,
         config |-> Nothing, report |-> Nothing, plan |-> Nothing, result |-> Nothing,
         conflicts |-> NotRun, drift |-> NotRun, artifact |-> <<>>,
         comment |-> "", page |-> 1, sticky |-> 0, exit |-> 1,
         \* history: what went wrong, the world each step read, and what comments were there
         faults |-> 0, read |-> <<>>, visible |-> {}, shifted |-> FALSE]

Init ==
    /\ \E s \in Scenarios : /\ scenario = s.may
                          /\ world = s.world /\ comments = s.comments
    /\ run = [r \in Runs |-> Idle] /\ changes = 0

At(r, pc) == run[r].pc = pc
Step(r, record) == run' = [run EXCEPT ![r] = record]
Outside == <<world, scenario, comments, changes>>

\* A step that reads the world as it is; what a saved comparison is of was read earlier.
ReadsOf(r, what) ==
    [run[r] EXCEPT !.read = [step \in DOMAIN @ \cup {run[r].pc} |->
                                IF step = run[r].pc THEN what ELSE @[step]]]
Reading(r) == ReadsOf(r, world)
\* The run step ends and writes its outputs.
Ran(record, outputs) == [record EXCEPT !.outputs = outputs, !.pc = "ran"]
Faulty(record) == [record EXCEPT !.faults = record.faults + 1]

-----------------------------------------------------------------------------
(* The inputs (phase A).                                                   *)

HasComparison(q) == q.comparison # Nowhere
HasSnapshots(q) == q.baseline /\ q.candidate
DriftLane(q) == HasComparison(q) \/ HasSnapshots(q)

ReviewInputs(q) ==
    /\ q.baseline = q.candidate
    /\ ~(HasComparison(q) /\ (q.baseline \/ q.align.source \/ q.align.database))
    /\ q.observations \/ DriftLane(q)
    /\ q.policy => DriftLane(q)
    /\ q.configured => q.observations

InputsValid(q) ==
    /\ ~q.collides
    /\ q.op \in {"check", "plan", "validate"} => q.configured
    /\ q.op = "review" => ReviewInputs(q)

FirstStep(q) == IF q.op = "impact" THEN "impact" ELSE IF q.op # "review" THEN "validate"
                ELSE IF q.observations THEN "conflicts" ELSE "comparison"

\* The start of run_orchestration; invalid inputs end the step, without a report.
Start(r) ==
    \E q \in scenario.requests[r] :
        /\ At(r, "idle")
        /\ Step(r, IF InputsValid(q)
                   THEN [Idle EXCEPT !.request = q, !.pc = FirstStep(q)]
                   ELSE Ran([Idle EXCEPT !.request = q, !.phase_a = TRUE],
                            Failed("action_contract_invalid")))
        /\ UNCHANGED Outside

-----------------------------------------------------------------------------
(* The calls of the command line, on what they read (w).                   *)

\* What a call prints and exits with; a killed one may have printed everything.
Answer(form, exit, content) == [form |-> form, exit |-> exit, content |-> content]
Diagnostic(exit) == Answer("diagnostic", exit, Nothing)
Killed == 137
Disturbed(answer) ==
    {Answer("garbled", Killed, Nothing), [answer EXCEPT !.exit = Killed], Diagnostic(1)}

\* Every command with a configuration loads the authority rules it names as well.
ConfigLoads(w) == w.config.ok /\ AuthorityLoads(w.authority)

Validated(w) == IF ConfigLoads(w) THEN Answer("config", 0, w.config) ELSE Diagnostic(1)

Checked(w) ==
    IF ~ConfigLoads(w) \/ ~PoliciesLoad(w.policies) THEN Diagnostic(4)
    ELSE LET report == ReportFor(w.snapshot, PoliciesOf(w.policies))
         IN  Answer("report", IF report.ok THEN 0 ELSE 3, report)

Planned(w) ==
    LET checked == Checked(w)
    IN  IF checked.exit # 0 THEN checked
        ELSE Answer("plan", 0, [config |-> w.config, policy |-> checked.content.policy,
                                snapshot |-> checked.content.snapshot])

\* Nodes and edges of all the sources together.
SourceNodes(w) == UNION {w.sources[n].nodes : n \in DOMAIN w.sources}
SourceEdges(w) == UNION {w.sources[n].edges : n \in DOMAIN w.sources}

ImpactLoads(w, q) ==
    /\ q.configured => ConfigLoads(w) /\ PoliciesLoad(w.policies)
    /\ \A n \in SourceNodes(w) : IdentityAllowed(n.identity)
    /\ GraphBuilds(SourceNodes(w), SourceEdges(w))
    /\ Analysable(Graph(SourceNodes(w), SourceEdges(w)), w.changed)

\* `impact`: the policies are those of the configuration, if one is given.
Impacted(w, q) ==
    IF ~ImpactLoads(w, q) THEN Diagnostic(4)
    ELSE LET result == ImpactResult(Graph(SourceNodes(w), SourceEdges(w)), w.changed,
                                    IF q.configured THEN <<PoliciesOf(w.policies)>> ELSE <<>>)
         IN  Answer("impact", IF result.status = "impacted" THEN 6 ELSE 0, result)

\* A call answers, or is disturbed while changes from outside are left.
Called(answer, a) ==
    /\ \/ a = answer /\ changes' = changes
       \/ a \in Disturbed(answer) \ {answer} /\ changes < scenario.faults /\ changes' = changes + 1
    /\ UNCHANGED <<world, scenario, comments>>
After(r, answer, a) == IF a = answer THEN Reading(r) ELSE Faulty(Reading(r))
Possible(answer) == {answer} \cup Disturbed(answer)

-----------------------------------------------------------------------------
(* The operations validate, check and plan.                                *)

\* _run_validate and what follows it.
RunValidate(r) ==
    At(r, "validate") /\ \E a \in Possible(Validated(world)) :
        /\ Called(Validated(world), a)
        /\ LET record == After(r, Validated(world), a)
           IN  Step(r, IF a.form = "garbled" THEN Ran(record, Failed("action_contract_invalid"))
                       ELSE IF a.exit # 0 THEN Ran(record, Failed("configuration_failed"))
                       ELSE IF record.request.op = "validate"
                       THEN Ran(record, Outcome("passed", "", 0))
                       ELSE [record EXCEPT !.config = a.content, !.pc = "check"])

Blocked(r) == Outcome("blocked", "policy_blocked", DesiredExit("blocked", run[r].request.failOn))

\* The failure of a call that printed a diagnostic.
DiagnosticFailure(a) ==
    Failed(CASE a.exit = 4 -> "configuration_failed" [] a.exit = 1 -> "operational_failure"
             [] OTHER -> "action_contract_invalid")

\* _run_check and what follows it.
RunCheck(r) ==
    At(r, "check") /\ \E a \in Possible(Checked(world)) :
        /\ Called(Checked(world), a)
        /\ LET record == [After(r, Checked(world), a) EXCEPT !.report = a.content]
           IN  Step(r, CASE a.form = "garbled" -> Ran(record, Failed("action_contract_invalid"))
                         [] a.form = "diagnostic" -> Ran(record, DiagnosticFailure(a))
                         [] a.form = "report" ->
                              IF a.exit = 3 THEN Ran(record, Blocked(r))
                              ELSE IF a.exit # 0 THEN Ran(record, Failed("operational_failure"))
                              ELSE IF record.request.op = "check"
                              THEN Ran(record, Outcome("passed", "", 0))
                              ELSE [record EXCEPT !.pc = "plan"])

SnapshotNotCompared(r, plan) ==
    run[r].config = plan.config /\ run[r].report.policy = plan.policy

\* check_plan_identity_consistency
Consistent(r, plan) ==
    /\ run[r].config = plan.config
    /\ run[r].report.policy = plan.policy
    /\ run[r].report.snapshot = plan.snapshot

\* _run_plan and what follows it: a plan of other inputs is not published.
RunPlan(r) ==
    At(r, "plan") /\ \E a \in Possible(Planned(world)) :
        /\ Called(Planned(world), a)
        /\ LET record == [After(r, Planned(world), a) EXCEPT !.plan = a.content]
           IN  Step(r, CASE a.form = "garbled" -> Ran(record, Failed("action_contract_invalid"))
                         [] a.form = "diagnostic" -> Ran(record, DiagnosticFailure(a))
                         [] a.form = "report" -> Ran(record, Blocked(r))
                         [] a.form = "plan" ->
                              IF a.exit # 0
                              THEN Ran(record, Failed("action_contract_invalid"))
                              ELSE IF ~Consistent(r, a.content)
                              THEN Ran(record, Failed("inputs_changed_during_run"))
                              ELSE Ran(record, [Outcome("passed", "", 0) EXCEPT !.plan_path = TRUE]))

-----------------------------------------------------------------------------
(* The operation impact.                                                   *)

ImpactFailure(a) ==
    [Failed(CASE a.form = "diagnostic" /\ a.exit = 4 -> "configuration_failed"
              [] a.form = "impact" -> "action_contract_invalid"
              [] OTHER -> "operational_failure") EXCEPT !.impact = "failed"]

\* _run_impact_operation: the result is the file that the call has written.
RunImpact(r) ==
    LET answer == Impacted(world, run[r].request)
    IN  At(r, "impact") /\ \E a \in Possible(answer) :
            /\ Called(answer, a)
            /\ LET record == [After(r, answer, a) EXCEPT !.result = a.content]
               IN  Step(r, IF a.exit \in {0, 6}
                           THEN Ran(record, [Outcome("passed", "", 0) EXCEPT
                                                !.impact = a.content.status])
                           ELSE Ran(record, ImpactFailure(a)))

-----------------------------------------------------------------------------
(* The operation review: the conflict lane, the drift lane, the result.    *)

ReviewFailed(record) == Ran(record, [Failed("configuration_failed") EXCEPT !.review = "failed"])

ConflictsLoad(w, q) ==
    /\ ObservationsLoad(w.observations)
    /\ q.configured => ConfigLoads(w)
RulesFor(w, q) == IF q.configured THEN AuthorityOf(w.authority) ELSE {}

ReviewConflicts(r) ==
    LET q == run[r].request
    IN  /\ At(r, "conflicts")
        /\ IF ~ConflictsLoad(world, q) THEN Step(r, ReviewFailed(Reading(r)))
           ELSE Step(r, [Reading(r) EXCEPT
                            !.conflicts = ConflictsBlock(world.observations.entries,
                                                         RulesFor(world, q)),
                            !.pc = IF DriftLane(q) THEN "comparison" ELSE "result"])
        /\ UNCHANGED Outside

SnapshotsCompare(w, q) ==
    Loads(w.baseline) /\ Loads(w.candidate) /\ Comparable(w.baseline, w.candidate, q.align)

\* The comparison: of the two snapshots, or the one that another run has written.
ReviewComparison(r) ==
    LET q == run[r].request
        saved == IF HasComparison(q) THEN run[q.comparison].artifact ELSE <<>>
        loading == ReadsOf(r, IF saved = <<>> THEN Nothing
                              ELSE run[q.comparison].read["comparison"])
    IN  /\ At(r, "comparison")
        /\ Step(r, IF HasComparison(q)
                   THEN IF saved # <<>> /\ AcceptsComparison(saved[1])
                        THEN [loading EXCEPT !.artifact = saved, !.pc = "drift"]
                        ELSE ReviewFailed(loading)
                   ELSE IF SnapshotsCompare(world, q)
                        THEN [Reading(r) EXCEPT !.pc = "drift",
                                 !.artifact = <<Compared(world.baseline, world.candidate)>>]
                        ELSE ReviewFailed(Reading(r)))
        /\ UNCHANGED Outside

DriftPolicyFor(w, q) == IF q.policy THEN <<w.drift_policy>> ELSE <<>>

ReviewDrift(r) ==
    LET q == run[r].request
        policy == DriftPolicyFor(world, q)
        comparison == run[r].artifact[1]
    IN  /\ At(r, "drift")
        /\ IF (q.policy => DriftPolicyLoads(world.drift_policy)) /\ DriftBuilds(comparison, policy)
           THEN Step(r, [Reading(r) EXCEPT !.pc = "result",
                            !.drift = DriftBlock(comparison, DriftResult(comparison, policy))])
           ELSE Step(r, ReviewFailed(Reading(r)))
        /\ UNCHANGED Outside

ReviewResult(r) ==
    LET result == BuildReview(run[r].conflicts, run[r].drift)
    IN  /\ At(r, "result")
        /\ Step(r, IF ReviewValid(result)
                   THEN Ran(run[r], [Outcome(result.status, "",
                                             DesiredExit(result.status, run[r].request.failOn))
                                        EXCEPT !.review = result.status])
                   ELSE Ran(run[r], [Failed("action_contract_invalid") EXCEPT !.review = "failed"]))
        /\ UNCHANGED Outside

Fault == changes < scenario.faults /\ changes' = changes + 1

\* An artifact of the review cannot be written.
WriteFails(r) ==
    /\ run[r].pc \in {"comparison", "drift", "result"}
    /\ Step(r, Ran(Faulty(run[r]), [Failed("operational_failure") EXCEPT !.review = "failed"]))
    /\ Fault /\ UNCHANGED <<world, scenario, comments>>

RunStep == {"validate", "check", "plan", "impact", "conflicts", "comparison", "drift", "result"}

\* The run step crashes before it writes its outputs.
CrashRun(r) ==
    /\ run[r].pc \in RunStep
    /\ Step(r, Ran(Faulty(run[r]), NoOutputs))
    /\ Fault /\ UNCHANGED <<world, scenario, comments>>

-----------------------------------------------------------------------------
(* The comment (github_ci/finalize.py, github_ci/comment.py).              *)

\* resolve_comment_state: the public status, empty when the publisher decides.
CommentState(q, phase_a) ==
    CASE q.comment = "disabled" -> "disabled"
      [] q.comment = "non_pr" -> "skipped_non_pr"
      [] q.comment = "fork" -> "skipped_untrusted_fork"
      [] q.comment = "no_token" \/ (q.comment = "requested" /\ phase_a) -> "failed"
      [] q.comment = "requested" /\ ~phase_a -> ""

EmitCommentState(r) ==
    LET state == CommentState(run[r].request, run[r].phase_a)
    IN  /\ At(r, "ran")
        /\ Step(r, [run[r] EXCEPT !.comment = state,
                        !.pc = IF state = "" THEN "find" ELSE "finalize"])
        /\ UNCHANGED Outside

Comment(by, marker) == [by |-> by, marker |-> marker]
PagesFromZero(page) ==
    SubSeq(comments, page * PerPage + 1,
           IF (page + 1) * PerPage < Len(comments) THEN (page + 1) * PerPage ELSE Len(comments))
PageItems(page) ==
    LET last == page * PerPage
    IN  SubSeq(comments, last - PerPage + 1, IF last < Len(comments) THEN last ELSE Len(comments))

Markers == {n \in DOMAIN comments : comments[n].marker}
Published(record, status) == [record EXCEPT !.comment = status, !.pc = "finalize"]

\* One page of find_sticky_comment.  A run step that crashed left no report to publish.
FindPage(r) ==
    LET items == PageItems(run[r].page)
        found == {n \in DOMAIN items : items[n].marker}
        record == IF run[r].page > 1 THEN run[r]
                  ELSE [run[r] EXCEPT !.visible = {comments[n].by :
                            n \in {m \in Markers : m <= PerPage * MaxPages}}]
    IN  /\ At(r, "find")
        /\ Step(r, CASE run[r].outputs.status = "" -> Published(run[r], "failed")
                     [] run[r].outputs.status # "" /\ found # {} ->
                          [record EXCEPT !.sticky = items[Min(found)].by, !.pc = "patch"]
                     [] run[r].outputs.status # "" /\ found = {} ->
                          IF Len(items) < PerPage \/ run[r].page = MaxPages
                          THEN [record EXCEPT !.pc = "post"]
                          ELSE [record EXCEPT !.page = run[r].page + 1])
        /\ UNCHANGED Outside

\* A request is answered with an error, or its answer is lost.
RequestFails(r) ==
    /\ run[r].pc \in {"find", "post", "patch"}
    /\ Step(r, Published(Faulty(run[r]), "failed"))
    /\ Fault /\ UNCHANGED <<world, scenario, comments>>

PostComment(r) ==
    /\ At(r, "post") /\ Len(comments) < MaxComments
    /\ comments' = Append(comments, Comment(r, TRUE))
    /\ \/ Step(r, Published(run[r], "created")) /\ UNCHANGED changes
       \/ Step(r, Published(Faulty(run[r]), "failed")) /\ Fault
    /\ UNCHANGED <<world, scenario>>

\* The comment may have been deleted since it was found.
PatchComment(r) ==
    LET there == \E n \in Markers : comments[n].by = run[r].sticky
    IN  /\ At(r, "patch")
        /\ Step(r, Published(run[r], IF there THEN "updated" ELSE "failed"))
        /\ UNCHANGED Outside

\* finalize_outputs and fail_gate: the exit code of the job.
Finalize(r) ==
    /\ At(r, "finalize")
    /\ Step(r, [run[r] EXCEPT !.pc = "done",
                    !.exit = IF run[r].comment = "failed" \/ run[r].phase_a
                                \/ run[r].outputs.status = "" THEN 1
                             ELSE run[r].outputs.desired])
    /\ UNCHANGED Outside

-----------------------------------------------------------------------------
(* What others do (external), and the specification.                       *)

ChangeWorld ==
    /\ \E w \in scenario.versions \ {world} : world' = w
    /\ Fault /\ UNCHANGED <<scenario, run, comments>>

AddComment ==
    /\ Len(comments) < MaxComments /\ scenario.discussed
    /\ comments' = Append(comments, Comment("other", FALSE))
    /\ Fault /\ UNCHANGED <<world, scenario, run>>

\* A search has read a page and not found the comment yet.
BetweenPages(r) == At(r, "find") /\ run[r].page > 1

DeleteComment ==
    /\ scenario.discussed
    /\ \E n \in DOMAIN comments : comments' = RemoveAt(comments, n)
    /\ run' = [r \in Runs |-> [run[r] EXCEPT !.shifted = @ \/ BetweenPages(r)]]
    /\ Fault /\ UNCHANGED <<world, scenario>>

RunSteps(r) ==
    \/ Start(r) \/ RunValidate(r) \/ RunCheck(r) \/ RunPlan(r) \/ RunImpact(r)
    \/ ReviewConflicts(r) \/ ReviewComparison(r) \/ ReviewDrift(r) \/ ReviewResult(r)
    \/ WriteFails(r) \/ CrashRun(r)

CommentSteps(r) ==
    \/ EmitCommentState(r) \/ FindPage(r) \/ RequestFails(r)
    \/ PostComment(r) \/ PatchComment(r) \/ Finalize(r)

Next ==
    \/ \E r \in Runs : RunSteps(r) \/ CommentSteps(r)
    \/ ChangeWorld \/ AddComment \/ DeleteComment

Spec == Init /\ [][Next]_vars

-----------------------------------------------------------------------------
(* Properties.                                                             *)

Done(r) == run[r].pc = "done"
ReadAt(r, pc) == run[r].read[pc]

\* A policy that must hold is violated by an object of the database.
PolicyError(w) ==
    \E p \in PoliciesOf(w.policies), o \in w.snapshot.objects :
        p.severity = "error" /\ Selects(p.select, o.kind, o.id) /\ Violates(w.snapshot, o, p.rule)

\* The snapshots behind the comparison differ as the policy does not expect.
Drifts(r) ==
    UnexpectedDifference(ReadAt(r, "comparison").baseline, ReadAt(r, "comparison").candidate,
        IF run[r].request.policy THEN ReadAt(r, "drift").drift_policy ELSE {})

\* The verdict a run that read all its inputs owes: is there anything to object to?
Objection(r) ==
    LET q == run[r].request read == DOMAIN run[r].read
    IN  \/ "check" \in read /\ PolicyError(ReadAt(r, "check"))
        \/ "plan" \in read /\ PolicyError(ReadAt(r, "plan"))
        \/ "conflicts" \in read /\ Undecided(ReadAt(r, "conflicts").observations.entries,
                                             RulesFor(ReadAt(r, "conflicts"), q))
        \/ "drift" \in read /\ Drifts(r)

\* What a plan was made of is what was validated and what was checked.
PlanOfCheckedInputs(r) ==
    LET planned == ReadAt(r, "plan") checked == ReadAt(r, "check")
    IN  /\ planned.config = ReadAt(r, "validate").config
        /\ PoliciesOf(planned.policies) = PoliciesOf(checked.policies)
        /\ planned.snapshot = checked.snapshot

\* The inputs a run read can be used.
InputsFine(r) ==
    LET q == run[r].request read == DOMAIN run[r].read
    IN  /\ ~run[r].phase_a
        /\ read \cap {"validate", "check", "plan", "impact", "conflicts", "comparison"} # {}
        /\ \A pc \in read \cap {"validate", "check", "plan"} : ConfigLoads(ReadAt(r, pc))
        /\ \A pc \in read \cap {"check", "plan"} : PoliciesLoad(ReadAt(r, pc).policies)
        /\ "plan" \in read => PlanOfCheckedInputs(r) \/ PolicyError(ReadAt(r, "plan"))
        /\ "impact" \in read => ImpactLoads(ReadAt(r, "impact"), q)
        /\ "conflicts" \in read => ConflictsLoad(ReadAt(r, "conflicts"), q)
        /\ "comparison" \in read =>
            /\ ReadAt(r, "comparison") # Nothing
            /\ HasComparison(q) \/ SnapshotsCompare(ReadAt(r, "comparison"), q)
        /\ "drift" \in read =>
            IF q.policy THEN DriftPolicyLoads(ReadAt(r, "drift").drift_policy)
            ELSE LET compared == ReadAt(r, "comparison")
                 IN  Projection(compared.baseline) = Projection(compared.candidate)

\* The exit code of the job is the verdict on what its steps read, although
\* that changes between the reads, calls are killed, steps crash and the
\* comment fails (github_ci/runner.py:1183, github_ci/finalize.py:333): 0 says
\* that all inputs were usable and nothing is to be objected to, or that
\* blocking was not asked for; 3 says that something is, and blocks; and a run
\* in which nothing failed never exits otherwise.  A plan is only published if
\* it is of the inputs that were validated and checked.
GateTellsTheTruth ==
    \A r \in {x \in Runs : Done(x)} :
        LET blocking == run[r].request.failOn
        IN  /\ run[r].exit = 0 =>
                /\ run[r].comment # "failed" /\ run[r].outputs.status # ""
                /\ InputsFine(r) /\ (Objection(r) => ~blocking)
            /\ run[r].exit = 3 => InputsFine(r) /\ Objection(r) /\ blocking
            /\ run[r].faults = 0 /\ run[r].comment # "failed" /\ InputsFine(r) =>
                run[r].exit = (IF Objection(r) /\ blocking THEN 3 ELSE 0)
            /\ run[r].outputs.plan_path => PlanOfCheckedInputs(r)

\* The publisher finds the comment of an earlier run: a run posts a second one
\* only if the first was not there when its search began, or lay beyond the
\* last page it looks at, or slid between two pages as others deleted comments
\* (github_ci/comment.py:97, 143).
OneStickyComment ==
    \A m, n \in Markers : m # n /\ comments[n].by \in Runs =>
        LET r == comments[n].by
        IN  comments[m].by \notin run[r].visible \/ run[r].shifted

\* A comparison that one run has written is one that another accepts
\* (comparison/load.py:794), and reviewing it gives the verdict that the two
\* snapshots behind it deserve, by the policy read at that time.
SavedComparisonReviewsAlike ==
    \A r \in Runs :
        /\ run[r].artifact # <<>> => AcceptsComparison(run[r].artifact[1])
        /\ run[r].request.op = "review" /\ run[r].drift.status # "not_run" =>
            (run[r].drift.status = "unexpected_drift") <=> Drifts(r)

\* The impact a run publishes is what is reachable from the changed nodes:
\* nothing affected is left out, and every node that is reported has a path
\* from a changed node, of steps of the graph, with no shorter one and none
\* before it in the canonical order (domain/impact.py:420).
ImpactIsReachability ==
    \A r \in {x \in Runs : run[x].outputs.impact \in {"clear", "impacted"}} :
        LET impact == run[r].result.impact
            graph == run[r].result.graph
            core == impact.changed \cup impact.direct \cup impact.transitive
            path(i) == IF i \in impact.changed THEN NoPath(i) ELSE impact.paths[i]
            distance(i) == Len(path(i).steps)
        IN  /\ impact.changed = ReadAt(r, "impact").changed
            /\ run[r].outputs.impact = (IF core = impact.changed THEN "clear" ELSE "impacted")
            /\ \A a \in core, b \in graph.nodes : Affects(graph, a, b) =>
                b \in core /\ distance(b) <= distance(a) + 1
            /\ \A i \in core \ impact.changed :
                LET steps == path(i).steps
                IN  /\ (i \in impact.direct) <=> Len(steps) = 1
                    /\ steps[1].from \in impact.changed /\ Last(steps).to = i
                    /\ \A n \in DOMAIN steps : Affects(graph, steps[n].from, steps[n].to)
                    /\ \A n \in 1..Len(steps) - 1 : steps[n].to = steps[n + 1].from
            /\ \A h \in Hops(graph) :
                /\ h.from \in core /\ h.to \in core \ impact.changed
                /\ distance(h.to) = distance(h.from) + 1
                => LET other == ExtendPath(path(h.from), h)
                   IN  other = path(h.to) \/ PathBefore(path(h.to), other)
====
