# Formal verification of collibra-governance-automation

TLA+ modules for `src/governance`: what changes a tenant, and what reads, compares,
reviews and records on the way there. TLC runs
check them on small instances, TLAPS proofs hold for every value of
the parameters. Paths below are relative to `src/src/governance` unless they start
with `src/` or name a file of the repository's root. `PROJECT.json` maps every
definition to the lines it models, and lists the runs, the mutants that show each
property to depend on the code, the hazards, and the theorems.

## 1. The system

The program reads evidence about data (a PostgreSQL catalogue, dbt manifests, ODCS
contracts, OpenLineage events), builds one governance model of it, and brings a
Collibra tenant in line with that model. Around that it compares snapshots of the model,
keeps their history, and reviews pull requests as a GitHub action. Everything runs in one
thread of one process per command; the concurrency is between that process, the tenant's
asynchronous jobs, the network in between, other clients of the tenant, whoever writes the
files a command reads, and other runs of the same command.

| Component | State it keeps | Operations | Interacts with | What is hard | What makes it correct | Modelled by |
|---|---|---|---|---|---|---|
| Import batches and synchronization lifecycle (`integrations/collibra/import_api.py`, `synchronization.py`, `batching.py`) | the position in the batches, `applied_count`, one record per batch, the finalization record | compile, partition, prove identifiers absent, submit, observe, finalize, report | adapter, job polling, saved-plan apply | answers lost after acceptance, jobs that outlive the client, partial failure over several batches, check-then-act on identifiers, forward references | a success is true of the tenant; every job can run; batches are staged; nothing is written after a doubt; the report names every write | `ImportDocument`, `ImportBatches`, `SyncLifecycle`, `StagedApply` (partly: no submit-only target) |
| Remote jobs (`jobs.py`) | the last classified answer, the deadline | classify, poll, time out | adapter, clock | `COMPLETED` without `SUCCESS`, `CANCELING`, a job that never ends, the deadline racing the completion | one observation is one answer the job really gave, and it always ends on time | `CollibraJobs`, `JobPoll`, `JobObservation` |
| HTTP executor and adapter request (`http.py`, `live.py` `_request`, `auth.py`) | attempts, elapsed time, the cached token | send, back off, re-authorize once | httpx, token provider | resending writes, Retry-After beyond the window, copies that arrive late, an answer that redirects, a token that expires while the call waits | a write takes effect at most once per call; an error marked as certain is certain; an ok without an effect is a redirection; tokens are renewed; the call ends | `HttpRequest`, `AuthorizedRequest`, `RemoteCall` (partly: no pagination) |
| core_rest planning and execution (`sync.py`, `live.py`, `mapping.py`) | the plan, `local_to_remote`, `applied_count` | read the managed state, plan, create, update, relate, rerun | adapter, command line | an action of several calls failing half-way, a rerun while an old write lands, identity written after creation | counted means complete; success means converged; a rerun repairs without duplicating | `CoreRestSync`, `ImportDocument` (mapping, planning) |
| Command line (`cli.py`, `config.py`) | none between commands | scan, plan, apply, diff, sync, check, compare, drift, explain, history, impact | all of the above | the freshness gate of `apply` and what happens after it | a stale plan is never applied; exit codes tell the truth | `SavedPlanApply` (plan, apply), `CoreRestSync`, `ImportBatches` (sync), `HistoryStore` (history), `GitHubAction` (what the action calls), `EvidenceSources` (impact, evidence) |
| Saved plans (`plans/`) | the plan file and its identities | build, load, compare, format results | command line, reconciliation | an identity left out of the comparison, a decision the plan does not record | every input of the plan is compared; a plan is applied once | `ReconciledPlan`, `SavedPlanApply` (partly: core_rest mode only) |
| History and evolution (`history/`), atomic output (`io/atomic.py`) | the history file, snapshots beside it | add, load, resolve, evolve, write | file system, comparison, conflicts | unlocked read-modify-write, crash between write and rename, artifacts that change under their entry | no entry is lost but by an overlap; what was added resolves; the transitions chain | `HistoryStore`, `Evolution` |
| Conflicts, authority, reconciliation (`domain/conflicts.py`, `domain/authority.py`, `authority/`, `reconciliation/`) | none (pure) | group observations, rank rules, decide, assess, overlay, record assumptions | evidence sources, saved plans | ties of specificity, order of the sources | the verdict does not depend on the order; no value without authority; conflicts block writes | `Evidence`, `Review`, `ReconciledPlan`, `EvidenceSources` |
| Lineage graph and impact (`domain/graph.py`, `domain/impact.py`, `domain/lineage.py`, `impact/`) | a visited set while walking | build, traverse, propagate | comparison, OpenLineage | cycles, paths that meet, contradicting sources | what is reported is what is reachable, by a shortest path | `Impact`, `LineageEvents`, `GitHubAction` (partly: no scanner) |
| Comparison, drift, snapshots (`comparison/`, `drift/`, `snapshots/`) | none (pure) | load, align, compare, classify, load a saved comparison | history, review | foreign keys and relationships that change identity, rule precedence | what one run writes another accepts and judges alike | `Comparison`, `Drift` |
| Policies (`policy/`) | none (pure) | load, select, evaluate | check, plan, action | an id given by two files, prefixes | the verdict is of the policies read | `Policies` |
| Evidence integrations (`integrations/openlineage`, `dbt`, `odcs`, `observations/`) and their execution (`orchestration/sources.py`) | the mapper's tables while it reads | validate, map, merge | conflicts, impact | events late, repeated, in parts, out of order, files that grow between two readings | the evidence is that of the set of events read | `LineageEvents`, `EvidenceSources` (partly: dbt and ODCS are given) |
| GitHub action (`github_ci/`, `action.yml`) | the pull request's sticky comment, step outputs | validate, check, plan, review, impact; report, upsert, finalize | GitHub API, command line | inputs that change between calls, calls killed, two workflow runs upserting at once, page bound | the gate's exit code is the verdict on what was read; one comment | `GitHubAction`, `Review` |
| Configuration contract (`config_contract/`) | none (pure) | load, resolve, select | environment | precedence of profile, flag and environment | every reference resolved or refused | not modelled |
| Providers (`providers/`, `orchestration/registry.py`, `selection.py`, `operation_runtime.py`) | the registry of a command | discover, register, look up, select by capability | entry points, evidence sources | one broken package among several, two of one name | all or nothing, whatever the order packages are found in | `Providers`, `EvidenceSources` (partly: no validators, no telemetry scope) |
| Collibra models, telemetry, preflight, mock, endpoint; conformance kit, identity, exporters | little | - | - | sequential | - | not modelled |

## 2. Modules

```
 StagedApply <--------- SyncLifecycle -------------+
 (promise of an apply)   batches, finalization      |
                         and the tenant's jobs      v
                                              CollibraJobs   job states, classify_job,
 JobObservation <------ JobPoll ------------------->|        what an observation may see
 (one observation)       the polling loop

 RemoteCall <---------- HttpRequest <--- AuthorizedRequest       CoreRestSync
 (promise of a call)     one adapter call   and its token        the core_rest mode

 ReconciledPlan <------ SavedPlanApply             ImportDocument <--- ImportBatches
  overlay, action,       plan, review, apply, with   mapping, plan,      the import_v2 mode:
  assumptions            everything that may change  document, batches   runs, jobs, tenant
                         between any two reads

 Comparison <-+- Policies <--- Impact <------+
 snapshots    |                graph, paths  +--- GitHubAction
              +- Drift <------ Review <------+     runs, calls, gate, comment
              |                   |
 Evidence <---+-------------------+
 observations,+- Evolution <--- HistoryStore
 authority,   |                 history add, show, inspect
 conflicts    +- LineageEvents <-+- EvidenceSources
                 the OpenLineage |  sources read while they are written
                 mapper          |
 Providers <---------------------+
 built in and installed
```

`StagedApply`, `JobObservation` and `RemoteCall` are abstract specifications: the arrow to
each is a refinement (`INSTANCE ... WITH` and the abstract `Spec` as a PROPERTY). The other
arrows are EXTENDS (`Review` extends `Drift` and `Evidence`, `Evolution` extends
`Comparison` and `Evidence`, `LineageEvents` extends `Evidence` and takes the graph from
`Impact`). `Comparison`, `Evidence`, `Evolution`, `Drift`, `Policies`, `Review`, `Impact`,
`LineageEvents`, `Providers` and `ImportDocument` have no state: they are the pure code as operators, and the
modules to their right are what calls it while the world changes. The layers meet at their
promises:

* a submission of `SyncLifecycle` and a write of `CoreRestSync` are each one
  `RemoteCall`: it may take effect at most once, perhaps long after the client gave
  it up. `HttpRequest` shows that the executor with its retries keeps that promise,
  so the modules above need not repeat attempts and back-off. The promise has a gap, which
  `RemoteCall` states with `redirected`: a 3xx is answered like a success, and the write never
  takes effect. `SyncLifecycle` is not exposed to it (`{}` names no job, so the batch is recorded
  as uncertain, `synchronization.py:314`); `CoreRestSync` and `SavedPlanApply` assume that no
  write is redirected (section 5);
* an observation of `SyncLifecycle` is one step that takes a view from
  `Observations(job)`. `JobPoll` shows that the polling loop, which reads many
  answers over time, is such a step.

**`CollibraJobs`** - the remote states and results, `classify_job`, `timeout_view`,
`is_terminal_success` (`jobs.py`), and as external part how a job moves
(`JobSuccessors`) and what an answer to `GET /jobs/{id}` may contain (`Answers`):
it may omit the result or carry an unknown state. Job and batch identifiers are
abstracted to the slot the request belongs to.

**`SyncLifecycle`** - `_execute_import_batches_lifecycle` and `execute_sync_v2`,
with the mode, dry run, the missing-capability error and the number of batches as
initial choices. Each `return` of the code is an action that ends the execution with
the record the code builds (`records` is `batch_lifecycle`, `finalization` the
finalization part of `SyncLifecycleResult`). `wire` holds requests sent and not yet
accepted, so that a batch can be accepted after the client has recorded it as
uncertain. The tenant executes a batch's commands in any portions, another client
may occupy an identifier at any time. `taken`/`occupied` say which identifiers are
held by others.

**`HttpRequest`** - `_request` over `CollibraHttpExecutor.request`. One action per
outcome of an attempt, each with the duration of the attempt. Every copy of the
request that is sent has its own fate in `copy`. `prepare`/`close` and telemetry are
left out, and what the token is: that is `AuthorizedRequest`. A 3xx is an answer like any below
400 (`Redirected`): the client does not follow it (`live.py:120`), the executor passes it on
(`http.py:217`), and `_request` raises from 400 only (`live.py:557`).

**`JobPoll`** - `poll_until_terminal` and `observe_job`, with the reading of the
clock before and after a fetch, and the possibility that the process is suspended
before the test of the deadline.

**`CoreRestSync`** - `read_remote_state`, `build_sync_plan`,
`_apply_sync_plan_mutations` and the adapter's `create_asset`, `update_asset`,
`create_relationship`, as `_cmd_sync --apply` calls them, run after run. An asset has
a header (name and display name, which the mapping always sets), its `local_id`
attribute, and one attribute that stands for every other managed one; `ImportDocument` has
the mapping that decides them. The assets of each type are listed page by page, a page that is
not full being the last; then the attributes of each listed asset are read, then the relations
at once; the plan follows in the same step. Between any two requests doubtful writes of earlier
runs land, and other clients create and delete unmanaged assets. Creation order,
the order of the attributes, the re-reading of attributes by an update and the stop
at the first error are the code's.

**`ReconciledPlan`** - what a plan is made of, as operators on one asset: the overlay of
decisions over the model (`reconciliation/overlay.py`), the action derived from it
(`sync.py`), and the boundary, the properties whose decision the plan records as an
assumption (`reconciliation/assumptions.py`). A decision is one of the verdicts of the
conflict analysis as `assess_reconciliation` reads it: none, unsafe, or a safe value,
possibly null. Wherever the analysis, the authority rules or the documents of evidence
change a decision, here it is the decision that changes.

**`SavedPlanApply`** - `_cmd_plan_generate` and `_cmd_apply` with the file between them.
Each read of a command (configuration, evidence, policies, database, tenant) is an action,
in the code's order, and between any two of them the thing read may change. `got` is what
the command has read, `file` the plan; the identities of the plan are the values they are
hashes of. `settings` stands for every identity that is not about the data: the rest of
the configuration, the mapping, the contract versions. The evidence is what the source
flags name, so a command without them decides nothing (configuration of kind 1; kind 2 has
flags that are always given). Applying is the core_rest plan against a live tenant, call
by call, with a failure or a kill between any two; creating an asset sets its header, then
its attributes with the local id among them in any order. The modes import_v2 and sync_v2
are `SyncLifecycle`'s; of sync_v2 only its refusal at the gate is here (`DerivedId`). A
policy is the set of properties it requires. A call whose outcome is unclear takes effect
before the command fails, or never; if it takes effect later, that is a change by another
client to every command after it.

**`AuthorizedRequest`** - `HttpRequest` with the token each of its calls carries
(`auth.py`): every action is one of `HttpRequest` with what it does to the token's cache and
age; projected on the variables of `HttpRequest` it allows the same behaviours. A token's
age counts from before the request for it and stops at its lifetime; no time passes between
taking a token and sending it. The skew of 30 s is shorter than the retry window of 60 s, so a
token may expire while a call waits; the single renewal covers that if tokens outlive a
window, which is what `TokensAreRenewed` states.

**`ImportDocument`, `ImportBatches`** - from a scanned model to the batches: the mapping to a
desired state, `build_sync_plan`, `compile_import_document` with the placement of relations
on the later endpoint, and the greedy partition. The state machine runs it against a tenant
that executes a job command by command, up to `MaxRuns` times, while a job given up by an
earlier run may still be at work (one at a time). Here the tenant's import is external: it
creates the asset of a name it does not have and updates the one it has, and keeps
attributes a command does not list, so that an attribute no longer wanted is not cleared. The
attribute of ownership is left out.

**`Comparison`, `Drift`, `Policies`** - what a snapshot must satisfy to be loaded and to be
projected, the comparison of two snapshots with alignment and with the identities of foreign
keys and relationships that follow what they refer to, what the loader of a saved comparison
accepts, the classification of differences by a drift policy, and the selection and
evaluation of governance policies. The text of documents and their canonical order are left out: a document is
its content, with a flag where the code refuses one that is not canonical.

**`Evidence`, `Review`** - observations and their merging, authority rules with their
specificity, the conflict analysis, and what the review makes of a verdict: whether a
property is written by reconciliation, whether its value can be, and the state of the lane.
The check that two known objects have different local ids (`cross_check_known_objects`,
`physical_index`) is left out.

**`Impact`** - the graph built of several sources and what contradicts; the breadth-first
blast radius with its direct and transitive sets, the canonical shortest path to each node,
the contracts and assets concerned, and the policies relevant.

**`HistoryStore`, `Evolution`** - `history add`, `show` and `inspect` as processes of
several steps: read the artifacts, read the history, resolve every entry, append, write a
temporary file, replace. A kill or a failure may come between any two, artifacts
may change or vanish, and another program may edit the history. The variables `landed` and
`authors` record who wrote what. Evolution is the story `show` tells of one object or
property. Labels are one value, capture times and identities are compared as what they stand
for.

**`LineageEvents`, `Providers`, `EvidenceSources`** - the validation of OpenLineage events, the tables the
mapper keeps, and the graph and observations it builds from them; and a command that reads
its sources one after the other, the mapper an event at a time, while the files grow. Each
file is read twice, once for the observations and once for the graph
(`providers/builtins/openlineage.py:31`, `orchestration/sources.py:73`), so known objects and
observations may stem from different contents: the properties speak of each reading. A
write during mapping counts as one before the next load. Events of one run split over two
files are not joined, as in the code. For a column only lineage names, the observation of its name is owed to
the producers of the least assertion. Sources come in any order (the configuration's in v2,
sorted before). What dbt, ODCS and providers of other packages say is an input.
Before it reads anything the command resolves its providers: `RegistryOf` registers the built-in
ones and those of the installed packages, and one that does not load, is made for another SDK or
takes a name given already refuses them all, even if no source needs it. `ResolveProviders` leaves
out the sources whose provider lacks the capability wanted, observations or a graph; `impact`
fails without any, a command that reconciles goes on without evidence (`cli.py:2480`). The SDK, the
configuration and the packages do not change while a command runs.

**`GitHubAction`** - the run step of the action for its five operations, with every call to the
command line it makes, what it does about a lost or unreadable answer, the artifacts; the
publisher that searches the comments page by page; and the gate. The configuration, the
policies, the database, the graphs, the observations and the snapshots may become another
version between any two calls, calls may be killed, steps may crash, the comments may be
added to and deleted by others. The files of one review lane are read at one moment; a killed
`impact` prints nothing; a cancelled workflow run stops, which is a stutter; a crash while the
step writes its outputs is not modelled; a comment is identified by the run that wrote it.

Files `MC*.tla` give the constants their values, `*_proof.tla` hold the proofs.

## 3. Runs

| Run | Instance | Properties |
|---|---|---|
| `sync_lifecycle` | at most 2 batches of 2 and 1 commands, commands 1 and 3 create | 8, below |
| `import_batches` | 6 objects of 5 kinds, one with the full name of another; cyclic, self and dangling keys; 4 limits, ceilings 3 resources and 8 characteristics; tenants that know nothing, a part, old values, or hold a name; 3 runs | `EveryJobCanRun`, `ImportRealisesThePlan` |
| `http_request` | 3 attempts per executor call, window 3, attempts up to 1 unit, back-off 1, 2, 4, Retry-After 0 and 9, tokens of lifetime 2 and 10, cached at any age, answers of every class from 2xx to 5xx | a write takes effect at most once, attempts stay in the window, tokens are renewed, refinement of `RemoteCall` with liveness |
| `http_retry_claim` | the same without tokens, window 4, attempts up to 2 | violated: README.md:425, see section 6 |
| `job_poll` | interval 3, timeout 7, fetches and suspensions up to 2 units | spacing, exact timeout, refinement of `JobObservation` with liveness |
| `core_rest_sync` | a table, its column, their relation, 5 remote ids, pages of 1 asset, at most 3 pages, 2 runs, 1 change by another client; the table exists in any condition or not at all, or behind an unmanaged asset; the column is managed, absent, or its name is borne by an unmanaged asset; 2.7 million states | counted means complete, success means converged, reruns repair without duplicates, foreign assets are untouched |
| `saved_plan_apply` | one asset with a display name and a description, 2 values; 24 starting worlds, each without a plan or with one of version 1; 1 change from outside, 3 commands | 7, below |
| `plan_reapply` | two assets, no change from outside, 3 commands | a plan applied in part is refused the second time, a success is complete |
| `derived_id_claim` | the same with `DerivedId` | violated: `synchronization.py:123`, see section 6 |
| `history_store` | 3 commands of any kind (symmetric), 3 requests, 3 queries, an empty history or one of 2 entries, 1 change of an artifact or of the history | `EntriesAreKept`, `AddedHistoriesResolve`, `TransitionsChain` |
| `evidence_sources` | 6 sets of up to 5 events, at most 3 of them written to two files at any moment, one given contract; 10 sets of installed packages found in any order, with a source of one of them that may be unreadable; 702,248 states | `EvidenceIsWhatWasSaid` |
| `github_action` | 2 workflow runs; 5 families of scenarios: inputs that change (9 versions), reviews of 18 pairs of snapshots under 5 styles of policy with the saved comparison reviewed again, 35 documents and authorities, 256 graphs, 3 that do not build and one whose configuration does not load, and 4 conversations with pages of 2 comments and 2 pages | 4, below |

The properties of `sync_lifecycle`:

* `SuccessIsTrue` - a success means that all commands were executed and, in the
  synchronization mode, that the finalization job succeeded.
* `StagedBatches` - no batch reaches the tenant before the success of all earlier
  ones, and no finalization before the success of all.
* `AppliedCountBracketsTenant` - `applied_count` never exceeds what was executed, and
  what was executed beyond it belongs to one batch.
* `ReportIsComplete` - the records name every request that was or may have been
  accepted.
* `OccupiedIdentifierBlocksWrites` - a creation whose identifier was occupied at the
  start stops the execution before its first write. Another client that creates the
  asset *after* its lookup is not excluded (and the model lets it): the property is
  what the code can promise.
* `NoWriteAfterDoubt` - no second submission of anything, and none after a failure.
* `ImplementsStagedApply` - all of it as one refinement; its liveness part says that a
  verdict is always given.

The properties of `saved_plan_apply`:

* `WritesAreJustified` - an apply executes a plan made by another command, from other reads;
  still it changes a property only on the target it resolves itself, and only to the value
  that planning from what it has just read would give. What changes after the read of the
  tenant is not excluded: the code takes no lock, and the property is what it can promise.
* `ConflictsBlockWrites` - no property whose decision this apply itself finds unsafe is
  changed. The plan records decisions on its boundary only, so this depends on the boundary
  containing every property that is written.
* `RejectedModelsAreNotApplied` - apply never evaluates policies. That the model it writes
  passes them follows from the policies and the model being those of the plan.
* `PlanAppliesOnce` - without another client, a plan changes the tenant in one apply at most,
  whatever part of it was applied before the command was killed. The managed state tells the
  two apart, although an asset without its local id is not part of it: creations come first,
  and the tenant refuses the name a second time.
* `ExitTellsTheTruth` - exit codes 2 to 5, and a dry run, mean that nothing was written; the
  success of an apply that met no other client means that every value is in the tenant.
* `OnlyStalePlansAreRefused` - no false alarm: exit code 5 needs a change since the plan was
  generated, an earlier apply, or other source flags.

Of the other runs:

* `EveryJobCanRun` - whatever the tenant has done so far, it can take every submitted job to
  its end, the ones the client gave up too: no command refers to an asset that is neither
  there nor created by an earlier command, and no batch exceeds a ceiling.
* `ImportRealisesThePlan` - an apply that reports success leaves every scanned object in the
  tenant once, with its values and relations, even when an earlier job is still at work; no
  asset that is not managed is touched. One exception is stated (`RenamedOnto`): the compiler
  refuses two creations of one name, not the creation of a name that an asset is at the same
  time renamed to.
* `TokensAreRenewed` - no call starts with an expired token, none sends a refused token again, and
  none fails for a token that expired under it unless tokens are shorter than a retry window.
* `EntriesAreKept` - an entry that was added stays, in order, unless a later addition had read
  the file before it was written; the file is never half written. The lock the code does not
  take would remove the exception.
* `AddedHistoriesResolve` - what `add` wrote can be read again while its artifacts are intact,
  consecutive states differ, and the comparison policy stays the one the author of the first
  entry asked for, whatever later additions ask. One exception is stated: see section 6.
* `TransitionsChain` - the value a property has after a transition is the one it has before
  the next, in every dimension that is known, though the artifacts change meanwhile.
* `EvidenceIsWhatWasSaid` - the observations, their owners, the known objects, the verdicts and the
  impact graph are those of the *set* of events read (`MappedGraph`, `ObservationsSaid` are
  definitions without an order), and a command fails exactly if that set is invalid or
  contradicts itself, a source cannot be read, or a package is of no use; in the last case it has
  read nothing. Which sources count follows from what is installed and nothing else.
* `GateTellsTheTruth` - exit code 0 of the job means that every input it read was usable and
  nothing is to be objected to, or blocking was not asked for; 3 means that something is; a run in
  which nothing failed gives no other code; a plan is published only if it is of the inputs that
  were validated and checked.
* `OneStickyComment` - a run posts a second comment only if the first was not there when its
  search began, lay beyond the last page, or slid between two pages. A deletion before the search
  has read its first page, or after its last, is no excuse.
* `SavedComparisonReviewsAlike` - a comparison written by one run is accepted by another, and its
  review gives the verdict the two snapshots deserve under the policy read then.
* `ImpactIsReachability` - the impact published is closed under the graph's steps, and each
  node's path is real, shortest, and the first such in the canonical order.

Why the bounds are enough. Two batches have a first, a last and a next one, and a
batch of two commands has a proper part to be executed; the proofs remove this bound.
Three attempts have a first, a middle and a last; the window closes before them for
slow attempts and after them for quick ones; Retry-After 9 exceeds it. Interval 3 does
not divide timeout 7, so the last wait is cut short. Two runs of `core_rest` have a
first that fails anywhere and a second that meets its remains, including writes that
land during it. Pages of one asset make every listing of
an asset end at a page boundary, and a deletion on a page already read moves the table off the
next; a third table exceeds the three pages. In `core_rest` two
writes with the same target that are both of unknown
effect are one element of `late`, so a creation repeated by two runs that both lost its
answer lands once in the model; the second would be a further asset without `local_id`.
In `saved_plan_apply` one change hits every interval between two reads of the three commands,
and the proofs remove the bound on changes, commands, assets and properties; two values and
null distinguish the model, the evidence and the tenant. Three commands are a plan, an apply
that does not end well, and another apply or plan. Nothing changes once the last command has
ended (`Observed`), since no property looks at it.
Three runs of an import are one that fails, one that meets its job, and one that succeeds;
the ceilings lie below, at and above the size of a command. Three history commands are two
that overlap and one that reads or adds after them; one change from outside hits any interval
between two reads. Two files and three events give every interleaving of writing with the two
readings of each file, and an event in both. Two workflow runs are the two that collide; pages
of two comments over two pages put a comment on the first page, at its edge, on the last, and
beyond. The lifetimes 2 and 10 lie inside and outside the retry window of the `http_request`
run, the longer with a skew of one unit and the shorter with none, and ages from zero to the lifetime put an expiry at every instant of a call.

Deadlock is checked in every run but `history_store` and `github_action`, where the commands,
the workflow runs and the bounded changes from outside come to an end: elsewhere a process that
ended steps through `Terminated` or `Finished`.

**Fairness.** `WF` of the client's actions only. The code is one thread whose calls all
return: httpx bounds an attempt, the retry window bounds a call, the polling timeout
bounds an observation. Nothing is assumed of the tenant or the network: jobs may hang
for ever, requests may stay on the wire. `CoreRestSync` needs its fairness for no
property, and nobody is obliged to start a run again.

`SavedPlanApply`, `ImportBatches`, `HistoryStore`, `EvidenceSources` and `GitHubAction` claim no
liveness and have no fairness: a command may be killed at any step, and nothing obliges anyone to
start another.

## 4. Proofs

`SyncLifecycle_proof` (any number and size of batches), `HttpRequest_proof` (any
retry policy and attempt duration and, for `AuthorizedRequest`, any lifetimes of tokens and any
refusals), `JobPoll_proof` (any interval, timeout and duration of a
fetch or a suspension), `SavedPlanApply_proof` (any assets, properties,
values, targets, and any number of commands and changes), `HistoryStore_proof` (any
commands, artifacts, requests, queries and changes from outside), `CoreRestSync_proof` (any model,
tenant and page size, and any number of runs and of changes by others), `ReviewImpact_proof` (any
snapshots, policies, observations, rules and finite graphs) and `GitHubAction_proof` (any workflow runs,
worlds, comments and page sizes). The assumptions are the named
`ASSUME`s of the modules: batches are non-empty and consecutive, a policy allows an attempt
and its delays are natural numbers, as are the interval and the durations of the polling;
None is no value, the local id is none of the properties, and a behaviour starts in a world of
the right type; a history that is already there was made by additions one after the other
(`EarlierAssumption`); a page holds at least one asset, and the tenant starts with finitely many
places and at most one asset per local id (`ListingAssumption`, `InitialAssumption`); tokens
outlive the request that fetches them (`LifetimesAssumption`); no comment is a workflow run's before that run
has started (`CommentAssumption`); the snapshots a run may find have the shape the parser gives
them (`Shaped`: every object has the properties of its kind, references one table), documents are
finite, the identities of a graph are among those of the canonical order, which is finite and names
each once (`NodeOrderAssumption`), and a drift rule gives each side one value or none
(`WorldAssumption`); a review takes the
comparison of a run, or none (`RequestAssumption`).

*SyncLifecycle.* None of the safety properties is inductive. `StagedBatches`, for
instance, says nothing about a client that is about to submit. `IInv` is the conjunction
of

* `Position` - which batch the client is at in which control state, and that
  `applied_count` is exactly the commands of the batches before it;
* `Sent` - the jobs of the earlier batches have succeeded, and what comes after the
  current one is untouched;
* `Recorded` - what the records say of each batch, by its place before, at or after the
  current one;
* `Executed` - what the tenant has executed lies between the two cuts of the current
  batch;
* `Proved` - what the collision proof has established and that nothing was sent
  without it;
* `Verdict` - what a success says.

TLC checks the same invariant first (add `IInv` to the configuration). The proof has one
lemma per action or group of actions, and the properties follow from `IInv` by
`TypeCorrect`, `SuccessTheorem`, `StagedTheorem`, `AppliedCountTheorem`, `ReportTheorem`,
`CollisionTheorem`; `NoWriteAfterDoubtTheorem` is an action property from it. The central
facts about jobs are that a classified success is one (`classify_job` over `Answers`), and
that a succeeded job stays so. `StagedApplyRefinement` maps each step to one of
`StagedApply` or a stutter.

*HttpRequest.* `IInv` is `Window` (when an attempt may take place, how many copies were
sent by this executor's call and the one before the 401), `Copies` (of a write, every
copy but the last is refused or never left) and `Outcomes` (what a verdict says of the
last copy). `AtMostOneEffect` follows because `Effects` is then empty or the last copy
alone (lemma `OneEffect`). `RemoteCallRefinement` is the step-by-step part of
`ImplementsRemoteCall`: an ok step is one after the effect, or one whose last copy was
redirected, and then no copy has acted or ever will.

*AuthorizedRequest.* `HttpRequestRefinement` shows step by step that a call with its tokens is a
call of `HttpRequest`: the token decides what a server may answer, never what the executor does
with the answer. Everything proved of `HttpRequest` is thereby proved of the call with its tokens
(`AuthorizedCall`). `TokensAreRenewed` speaks of refusals that lie in the past, so `AuthInv` adds
to `IInv` what the token's age says of the time since it was taken (`Ages`) and which refusal
belongs to which token (`Renewals`): a token refused as expired after the renewal has waited in
the window the renewed call runs in, and is therefore shorter-lived than it.

*SavedPlanApply.* The three action properties compare a plan with what a later command
reads, so none follows from the step alone. `IInv` adds to the types

* `PlanInv` - a saved plan was made for a model its policies accept, and on its boundary it
  is what its decisions, all safe, reconcile to. Outside its boundary it says nothing: the
  evidence may change there, and the plan stays valid;
* `AgreeInv` - an apply that has passed the evidence decides every property of the boundary
  as the plan did;
* `GateInv` - which command can be where, and that one that writes has read exactly the
  settings, target, policies, model and tenant of the plan (`Fresh`).

Lemma `GateIsSound` draws from these that on the boundary the plan is the overlay of what the
apply has read; lemma `ChangesAreWrites` that a property which changes to something the
command did not read there lies in the boundary and gets the plan's value. (An update also
puts back what the command read, over a newer value of another client, in properties outside
the boundary; that is why the properties speak of changes to something not read.)
`WritesJustified`, `ConflictsBlock` and `RejectedNotApplied` follow.

What becomes of a plan over several applies needs more than the reads: none of `PlanAppliesOnce`,
`ExitTellsTheTruth` and `OnlyStalePlansAreRefused` says anything of a command that is half-way.
`FullInv` adds to `IInv`

* `ExitInv` - how far a command may be by its review (`--dry-run`, `--confirm`), and what its
  exit says of its writes;
* `ProgressInv` - while no other client changes the tenant, every asset is as the plan was made
  from, being written, or as the plan wants it (`Underway`), and where an apply succeeds nothing
  is left;
* `OnceInv` - an apply that has written nothing finds the tenant the plan was made from
  (`Opening`), and a plan that was applied, if only by one call, is `Spent`: its first creation
  exists, or a property has its new value. The next apply then sees a tenant the gate refuses, or
  fails at the creation it begins with;
* `CurrencyInv` - what a command has read is what is there, and a plan is what it was made from,
  as long as nothing has changed since. This is the converse of the gate: nothing but a change
  makes it refuse.

`FirstCreation` is the smallest of the assets to create. That the applies begin with the same
creation is what makes a kill between creating an asset and giving it its local id harmless: such
an asset is invisible to the reading of the tenant, not to its names.

*JobPoll.* Neither bound speaks of the points between a check and a fetch. `IInv` is `Clock`
(in which state of the loop how much time has passed: the loop is about to fetch only while
the timeout has not passed and every fetch so far took an interval, or the last wait was cut
short by the deadline) and `Views` (the loop remembers no answer that would have ended it, so
a timeout carries the state of a running job). `SpacedTheorem` and `TimeoutTheorem` follow;
`JobObservationRefinement` shows every step of the loop to be the one observation of
`JobObservation` or a stutter.

*HistoryStore.* `EntriesAreKept` speaks of the file, while several commands hold older readings
of it. `IInv` is

* `Types`, with `Chain`: each state in the file can be compared with the one before it and
  differs from it;
* `Store` - as long as only additions wrote the file, its entries are the landings that nobody
  overlapped, in order (`Kept`);
* `Landings` - a command lands once, and has ended;
* `Held` - what a command between its reading and its replacement holds is the file as it was
  after the landings it has seen, and later one entry more.

Lemma `ReplaceStep` is the center: a replacement puts back the reading of its command, so
exactly the landings since then are missing, each overlapped by this one.
`KeptTheorem` follows. `ResolvesTheorem` needs one thing more (`PolicyInv`): the policy in the
file, and in every history a command holds, is the one the author of its first entry asked for. For `ChainTheorem` the operators are enough: a
transition reports the value the property has in each of its two states although it is decided
from the comparison of the two (`SnapshotBranchFacts`: an object reported as added is not in the
first state, one reported as removed not in the second), and a dimension of the context that
changed holds its two values (`ContextChangeFacts`). The invariant only adds that what a command
evolves is a sequence of states (`TellInv`).

*GitHubAction.* The comment a run posts is a second one if its search missed the first, many steps
earlier and page by page. `SInv` says of every search that is under way and undisturbed that the
pages it has passed hold no marker, and that each sticky comment that was there at its start still
lies ahead, within the pages it looks at (`Searched`); new comments come last and leave that true
(`SearchesKeep`), a deletion between two pages disturbs it (`BetweenPages`). At the last page, or
at one that is not full, nothing can lie ahead any more (`FindStep`). Before its comment a run has
posted none (`RunStepsKeep`). `StickyTheorem` follows.

`GateTellsTheTruth` speaks of a run that has ended, and of what its steps read long before, in
worlds that are gone. Its reference says what the inputs deserve without the code's reports,
summaries and statuses: a policy is violated (`PolicyError`), a property stays undecided
(`Undecided`), the snapshots differ as no rule expects (`UnexpectedDifference`). `GInv` says of
every run

* `Stage` - which steps it has read, and that what it holds (configuration, report, lanes) is what
  those readings make of it and can be used, in every step before the last;
* `SavedIs` - a comparison it holds is that of two snapshots which project, and the loader accepts
  it. This is said of all runs at every time, for another run may take it at any time;
* `DriftIs`, `ConflictsAre` - a lane that has run says what its reference says;
* `Verdicts` - the outputs of the run step are the verdict on what was read, or something failed:
  each call either answers what its inputs make of it or leaves a fault (`CallLeaves`);
* `ImpactTold` - an impact among the outputs is the analysis of the graph and the changes that were
  read, and a run that has not ended its run step has no outputs.

The steps of the comment and the gate keep the verdict (`CommentKeeps`), and `GateTheorem`,
`SavedComparisonTheorem` and `ImpactTheorem` follow. The lanes and the search are the work of
`ReviewImpact_proof`. `ConflictsTruth`: the
lane counts the assessments of all keys, its reference looks at one observation and those of the
same key; the merging of observations, the selection of rules by specificity and the conversions
of values come between (`Counts` joins a count to the existence of what is counted).
`CompareAccepts`: every check the loader makes of a saved comparison (identities, parents, roots,
their alignment, fixed pointers, the sides of a foreign key, the summary) holds of what
`Compared` makes of two snapshots that load. `DriftTruth`: a rule is chosen by its selector, and
two rules with one selector expect the same (`PolicyUnambiguous`), so the rule that is chosen
decides as some rule of the reference does. `ImpactTruth`: after layer `n` (`Explored`) the search has, for every node it has found,
a path of at most `n` steps of the graph from a changed node; the frontier is the nodes at `n`; what
a node behind the frontier affects has been found, at most one step further away; and no path that
is kept, one step longer, comes before the path of the same length that is kept for the node it
leads to. `SearchDeepens` is the step from one layer to the next: the least of finitely many paths
exists (`LeastPath`) because the canonical order of the paths of one length to one node is total and
transitive (`PathOrder`). A layer that finds something finds a new node, so the frontier is empty
after as many layers as there are nodes, and nothing is left out
(`PathsAreShortest`). The induction over the layers goes by the first layer at which the claim
fails (`LeastNumber`), for the induction theorems of the library cannot be used.

*CoreRestSync.* The properties speak of the tenant, while a run acts on what it read long ago.
`IInv` is

* `Typed`, and `Tenant` - every write still under way is of an asset of this client, gives it its
  own local id, and a doubtful one of that attribute is remembered as such;
* `Seen` - what has been read is still true, for nothing this client has written is ever undone
  (`Grows`, `Kept`);
* `Reading` - of an asset that neither a doubtful write nor a disturbed listing may hide, the
  reading has either not reached the place or has it;
* `Planned` - the plan is what is still missing, and what it creates is not there;
* `Executing` - what is done and what is left of the action, call by call;
* `Counted` - where the run is decides what it has counted.

That a page which is not full is the last (`LastPage`) needs arithmetic of sets: the elements of a
finite set of naturals have all ranks from zero on, each once (`RankReached`,
`RankDistinguishes`), so a page with an element after it is full (`FullPage`). `OutsideStep` and
`RunStep` say what any step outside the run, and any call of it, keep. `CountedIsDone`,
`SuccessConverges`, `RerunIsQuiet`, `DuplicatesAreDoubted` and `OthersAreLeftAlone` follow; that
a relation finds both ends created is part of `BeginStep`.

**Only model-checked**: the liveness halves of the three refinements, for liveness and `ENABLED` are
beyond the prover; and `EveryJobCanRun`, `ImportRealisesThePlan` and `EvidenceIsWhatWasSaid` of
`ImportBatches` and `EvidenceSources`. The last three rest on what folds compute over their data (the
compiler's batches, the mapper's tables); that takes an induction over the data, for operators of
the community modules about which the library has no theorem.

## 5. Assumptions about the outside

* An answer 401, 429, or another 4xx means that the server did not act on the request;
  5xx, timeouts and broken transports say nothing. That is how the executor treats them.
* A 2xx answer to a write follows its effect. A 3xx answer means that the write was not acted on;
  `HttpRequest` and `RemoteCall` have it; `CoreRestSync` and `SavedPlanApply` exclude it: their
  properties hold of a tenant that redirects no write. In the code only the creation of an asset or a relation would
  notice one, by the id missing in the answer (`live.py:316`, `377`); a change of an asset's
  header or of an attribute would be counted as done (`live.py:342`, `684`).
* The governed source and the configuration stay the same through the runs of a behaviour of
  `CoreRestSync`, which scan them anew: `desired` is a constant. What changes between the runs there
  is the tenant. (`SavedPlanApply` lets all of them change at any moment.)
* The tenant refuses a second asset of the same name in a domain; a change by another client
  is an edit or a deletion of an asset, or in `CoreRestSync` the creation or deletion of an
  unmanaged one. It lists the assets of a type in one order that no write changes (the code asks
  for none), and does not use a remote id twice.
* A job reports `COMPLETED` with `SUCCESS` only if all its commands were executed; other
  endings leave any part executed.
* Time is in whole units and does not pass between adjacent instructions, except where
  the process may be suspended before the deadline of `JobPoll`.
* An import takes its commands in order, each by the name or id it gives, and keeps what a
  command does not mention. A job given up may work on, but not beside a second one given up.
* Tokens outlive the request that fetches them; a server may refuse a token that expired, and
  may revoke one at any time.
* Replacing a file is atomic. Writers of event files append whole events.
* GitHub lists comments oldest first, and a page is read at one moment.

## 6. Findings

* README.md:425 says "Writes retry connect-before-send only". The executor sends a
  write again after a 429 as well (`http.py:166`, whatever the method), and the adapter
  after a 401 (`live.py:551`). Run `http_retry_claim`. `AtMostOneEffectTheorem` shows that
  no write takes effect twice by it, under the first assumption of section 5.

* `integrations/collibra/synchronization.py:123` calls the effective synchronization id the
  "Resolved UUID used for remote sync_v2 identity (override or derived)". Planning, the target
  context of a plan (`plans/target_context.py:47`) and the dry run (`cli.py:1721`) do use the
  derived one; the real execution passes the configured value, none if it is empty
  (`providers/builtins/collibra.py:289`), and is refused (`import_api.py:814`): an apply whose
  dry run succeeded cannot proceed. Run `derived_id_claim`.

Observed while modelling, not checked by a run: a managed attribute the model no longer
wants is planned as an update by every run and removed by none (`sync.py:253`); `RerunPlansNothing` states
that this is the only thing a rerun after a success plans.
A redirection answers a write like a success although nothing took effect (`live.py:557`,
`564`); no document of the repository says otherwise, so there is nothing to refute: `RemoteCall`
states it, and section 5 what rests on its absence.
`history add` accepts as the first entry a snapshot it never projects
(`history/append.py:192`), and every later command on that history refuses it: the exception in
`AddedHistoriesResolve`. A creation of a name that another asset is at the same time being
renamed to passes the compiler, and by the order of the commands it may meet the name already
taken: the exception in `ImportRealisesThePlan`. An older workflow run that
finishes last overwrites the report of a newer one (`github_ci/comment.py:160`); no property
excludes it.

## 7. Plan and what is not modelled

Next: `import_v2` and `sync_v2` behind a saved plan, the composition of `SavedPlanApply` with
`ImportBatches`.

Not to be modelled: the dbt and ODCS mappers, the parsers of documents, data classes,
serialization and printing, the resolution of the configuration, the scanner's SQL, telemetry,
preflight, the mock, the conformance kit and the exporters. They keep no state or are
sequential conversions of formats; tests reach them better.

## 8. Running it

In this directory: `tlc -workers 2 -config MCSyncLifecycle.cfg MCSyncLifecycle`, and in
the same way each run of `PROJECT.json` (`MCJobPoll.cfg` with `JobPoll`, `MCHttpRetryClaim.cfg`
with `MCHttpRequest`, `MCPlanReapply.cfg` and `MCDerivedIdClaim.cfg` with `MCSavedPlanApply`);
`tlapm` with each of `SyncLifecycle_proof.tla`, `HttpRequest_proof.tla`, `JobPoll_proof.tla`,
`SavedPlanApply_proof.tla`, `HistoryStore_proof.tla`, `CoreRestSync_proof.tla`,
`ReviewImpact_proof.tla` and `GitHubAction_proof.tla` for the proofs. `http_retry_claim` and
`derived_id_claim` are expected to end with a violation.
