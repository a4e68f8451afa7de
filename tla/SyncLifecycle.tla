---- MODULE SyncLifecycle ----
(***************************************************************************)
(* One execution of a compiled plan through the Collibra job endpoints:    *)
(* integrations/collibra/import_api.py (_execute_import_batches_lifecycle) *)
(* and integrations/collibra/synchronization.py (execute_sync_v2).         *)
(*                                                                         *)
(* The client proves that no CREATE identifier is occupied, then submits   *)
(* the batches of the import document one by one, observing each job       *)
(* before the next submission; sync_v2 ends with an IGNORE finalization.   *)
(* The tenant is a process of its own: a request on the wire may be        *)
(* accepted late or lost, its answer may be lost, a job runs on after the  *)
(* client has given up, and other tenant clients create assets meanwhile.  *)
(***************************************************************************)
EXTENDS Integers, CollibraJobs

CONSTANTS
    N,          \* the largest number of batches
    Cut,        \* batch b holds the commands Cut[b-1]+1 .. Cut[b]
    Creates     \* the commands that CREATE an asset by name and domain

ASSUME NAssumption == N \in Nat
ASSUME CutAssumption == /\ Cut \in [0..N -> Nat]
                        /\ Cut[0] = 0
                        /\ \A a, b \in 0..N : a < b => Cut[a] < Cut[b]
ASSUME CreatesAssumption == Creates \subseteq 1..Cut[N]

Finalization == 0                  \* the slot of the finalization request
Slots == 0..N                      \* requests that start a job
BatchCommands(b) == (Cut[b-1] + 1)..Cut[b]

VARIABLES
    mode,         \* "import_v2" or "sync_v2"
    apply,        \* FALSE for a dry run
    jobSupport,   \* the adapter has the submit and poll methods
    n,            \* number of batches partition_document returned
    pc,           \* where the client is
    checked,      \* CREATE commands whose identifier was found absent
    batch,        \* the batch being executed; n + 1 after the last one
    applied,      \* applied_count
    records,      \* batch_lifecycle: one record per batch that was attempted
    finalization, \* submission state and view of the finalization job
    outcome,      \* "none" until the execution returns or raises
    wire,         \* requests sent, neither accepted nor lost
    job,          \* the tenant's jobs, by slot
    done,         \* commands the tenant has executed
    taken,        \* CREATE commands whose identifier another client occupies
    occupied      \* the value of taken when the execution began (history)

config == <<mode, apply, jobSupport, n, occupied>>
client == <<pc, checked, batch, applied, records, finalization, outcome>>
tenant == <<job, done>>
vars == <<config, client, wire, tenant, taken>>

Views == JobView \cup {NoView}
Attempts == [submission_state : {"not_attempted", "submitted", "unknown"}, view : Views]
NotAttempted == [submission_state |-> "not_attempted", view |-> NoView]
Uncertain == [submission_state |-> "unknown", view |-> NoView]
Submitted(v) == [submission_state |-> "submitted", view |-> v]

PlannedCreates == {c \in Creates : c <= Cut[n]}

TypeOK ==
    /\ mode \in {"import_v2", "sync_v2"}
    /\ apply \in BOOLEAN
    /\ jobSupport \in BOOLEAN
    /\ n \in 0..N
    /\ pc \in {"begin", "prove", "submit", "submitted", "observe",
               "finalize", "finalize_submitted", "finalize_observe", "done"}
    /\ checked \in SUBSET Creates
    /\ batch \in 1..(N + 1)
    /\ applied \in Nat
    /\ records \in [1..N -> Attempts]
    /\ finalization \in Attempts
    /\ outcome \in {"none", "success", "failure", "refused"}
    /\ wire \in SUBSET Slots
    /\ job \in [Slots -> RemoteJob]
    /\ done \in SUBSET (1..Cut[N])
    /\ taken \in SUBSET Creates
    /\ occupied \in SUBSET taken

Init ==
    /\ mode \in {"import_v2", "sync_v2"}
    /\ apply \in BOOLEAN
    /\ jobSupport \in BOOLEAN
    /\ n \in 0..N
    /\ taken \in SUBSET Creates
    /\ occupied = taken
    /\ pc = "begin"
    /\ checked = {}
    /\ batch = 1
    /\ applied = 0
    /\ records = [b \in 1..N |-> NotAttempted]
    /\ finalization = NotAttempted
    /\ outcome = "none"
    /\ wire = {}
    /\ job = [s \in Slots |-> NoJob]
    /\ done = {}

Stop(result) == pc' = "done" /\ outcome' = result
GoTo(label) == pc' = label /\ UNCHANGED outcome

-----------------------------------------------------------------------------
(* Before the first write.                                                 *)

\* A dry run, or a document without batches, succeeds without any write (and
\* sync_v2 then sends no finalization either).
NothingToDo ==
    /\ pc = "begin"
    /\ ~apply \/ n = 0
    /\ Stop("success")
    /\ UNCHANGED <<config, checked, batch, applied, records, finalization, wire, tenant, taken>>

\* The capability check: sync_v2 makes it before the collision proof, import_v2
\* after it.
LacksJobSupport ==
    /\ ~jobSupport
    /\ \/ pc = "begin" /\ mode = "sync_v2" /\ apply /\ n > 0
       \/ pc = "prove" /\ mode = "import_v2" /\ checked = PlannedCreates
    /\ Stop("failure")
    /\ UNCHANGED <<config, checked, batch, applied, records, finalization, wire, tenant, taken>>

StartProof ==
    /\ pc = "begin"
    /\ apply /\ n > 0
    /\ mode = "sync_v2" => jobSupport
    /\ GoTo("prove")
    /\ UNCHANGED <<config, checked, batch, applied, records, finalization, wire, tenant, taken>>

\* prove_import_create_identifiers_absent looks the identifiers up in order.
NextLookup(c) ==
    /\ pc = "prove"
    /\ c \in PlannedCreates \ checked
    /\ \A d \in PlannedCreates \ checked : c <= d

LookupIgnoresOccupant(c) ==      \* mutant: the answer is not looked at
    /\ NextLookup(c)
    /\ checked' = checked \cup {c}
    /\ UNCHANGED <<config, pc, batch, applied, records, finalization, outcome, wire, tenant, taken>>

LookupFindsNothing(c) ==
    /\ NextLookup(c)
    /\ c \notin taken
    /\ checked' = checked \cup {c}
    /\ UNCHANGED <<config, pc, batch, applied, records, finalization, outcome, wire, tenant, taken>>

\* An occupant refuses the whole execution; so does a lookup that fails.
LookupRefuses(c) ==
    /\ NextLookup(c)
    /\ Stop("refused")
    /\ UNCHANGED <<config, checked, batch, applied, records, finalization, wire, tenant, taken>>

ProofComplete ==
    /\ pc = "prove"
    /\ checked = PlannedCreates
    /\ jobSupport
    /\ GoTo("submit")
    /\ UNCHANGED <<config, checked, batch, applied, records, finalization, wire, tenant, taken>>

-----------------------------------------------------------------------------
(* The batches.                                                            *)

SubmitBatch ==
    /\ pc = "submit"
    /\ wire' = wire \cup {batch}
    /\ GoTo("submitted")
    /\ UNCHANGED <<config, checked, batch, applied, records, finalization, tenant, taken>>

\* The answer carries a job identifier.
BatchHasJob ==
    /\ pc = "submitted"
    /\ Exists(job[batch])
    /\ GoTo("observe")
    /\ UNCHANGED <<config, checked, batch, applied, records, finalization, wire, tenant, taken>>

BatchForgotten ==                \* mutant: the uncertain attempt is not recorded
    /\ pc = "submitted"
    /\ Stop("failure")
    /\ UNCHANGED <<config, checked, batch, applied, records, finalization, wire, tenant, taken>>

BatchRetried ==                  \* mutant: an unanswered submission is sent again
    /\ pc = "submitted"
    /\ GoTo("submit")
    /\ UNCHANGED <<config, checked, batch, applied, records, finalization, wire, tenant, taken>>

\* The call raised an adapter error, or the answer had no job identifier: the
\* request may have been accepted, may still be on the wire, or may be lost.
BatchUncertain ==
    /\ pc = "submitted"
    /\ records' = [records EXCEPT ![batch] = Uncertain]
    /\ Stop("failure")
    /\ UNCHANGED <<config, checked, batch, applied, finalization, wire, tenant, taken>>

BatchAssumedDone ==              \* mutant: an unobserved job is taken for done
    /\ pc = "observe"
    /\ records' = [records EXCEPT ![batch] = Submitted(NoView)]
    /\ batch' = batch + 1
    /\ IF batch < n THEN GoTo("submit") ELSE Stop("failure")
    /\ UNCHANGED <<config, checked, applied, finalization, wire, tenant, taken>>

\* The job could not be observed (a transport error of the polling reads).
BatchUnobserved ==
    /\ pc = "observe"
    /\ records' = [records EXCEPT ![batch] = Submitted(NoView)]
    /\ Stop("failure")
    /\ UNCHANGED <<config, checked, batch, applied, finalization, wire, tenant, taken>>

BatchFails(view) ==
    /\ pc = "observe"
    /\ view \in Observations(job[batch])
    /\ ~is_terminal_success(view)
    /\ records' = [records EXCEPT ![batch] = Submitted(view)]
    /\ Stop("failure")
    /\ UNCHANGED <<config, checked, batch, applied, finalization, wire, tenant, taken>>

BatchCountedTwice(view) ==       \* mutant: adds the commands up to this batch
    /\ pc = "observe"
    /\ view \in Observations(job[batch])
    /\ is_terminal_success(view)
    /\ records' = [records EXCEPT ![batch] = Submitted(view)]
    /\ applied' = applied + Cut[batch]
    /\ batch' = batch + 1
    /\ IF batch < n THEN GoTo("submit") ELSE Stop("success")
    /\ UNCHANGED <<config, checked, finalization, wire, tenant, taken>>

BatchLoopNeverEnds(view) ==      \* mutant: no end of the batches
    /\ pc = "observe"
    /\ view \in Observations(job[batch])
    /\ is_terminal_success(view)
    /\ batch' = batch + 1
    /\ GoTo("submit")
    /\ UNCHANGED <<config, checked, applied, records, finalization, wire, tenant, taken>>

BatchSucceeds(view) ==
    /\ pc = "observe"
    /\ view \in Observations(job[batch])
    /\ is_terminal_success(view)
    /\ records' = [records EXCEPT ![batch] = Submitted(view)]
    /\ applied' = applied + (Cut[batch] - Cut[batch-1])
    /\ batch' = batch + 1
    /\ \/ batch < n /\ GoTo("submit")
       \/ batch = n /\ mode = "sync_v2" /\ GoTo("finalize")
       \/ batch = n /\ mode = "import_v2" /\ Stop("success")
    /\ UNCHANGED <<config, checked, finalization, wire, tenant, taken>>

-----------------------------------------------------------------------------
(* The finalization of sync_v2.                                            *)

SubmitFinalize ==
    /\ pc = "finalize"
    /\ wire' = wire \cup {Finalization}
    /\ GoTo("finalize_submitted")
    /\ UNCHANGED <<config, checked, batch, applied, records, finalization, tenant, taken>>

FinalizeHasJob ==
    /\ pc = "finalize_submitted"
    /\ Exists(job[Finalization])
    /\ GoTo("finalize_observe")
    /\ UNCHANGED <<config, checked, batch, applied, records, finalization, wire, tenant, taken>>

FinalizeUncertain ==
    /\ pc = "finalize_submitted"
    /\ finalization' = Uncertain
    /\ Stop("failure")
    /\ UNCHANGED <<config, checked, batch, applied, records, wire, tenant, taken>>

FinalizeUnobserved ==
    /\ pc = "finalize_observe"
    /\ finalization' = Submitted(NoView)
    /\ Stop("failure")
    /\ UNCHANGED <<config, checked, batch, applied, records, wire, tenant, taken>>

FinalizeObserved(view) ==
    /\ pc = "finalize_observe"
    /\ view \in Observations(job[Finalization])
    /\ finalization' = Submitted(view)
    /\ Stop(IF is_terminal_success(view) THEN "success" ELSE "failure")
    /\ UNCHANGED <<config, checked, batch, applied, records, wire, tenant, taken>>

-----------------------------------------------------------------------------
(* The tenant.                                                             *)

AcceptRequest(s) ==
    /\ s \in wire
    /\ wire' = wire \ {s}
    /\ job' = [job EXCEPT ![s] = NewJob]
    /\ UNCHANGED <<config, client, done, taken>>

LoseRequest(s) ==
    /\ s \in wire
    /\ wire' = wire \ {s}
    /\ UNCHANGED <<config, client, tenant, taken>>

\* A step of a batch job executes some of its commands; SUCCESS means all.
BatchJobStep(b, j) ==
    /\ j \in JobSuccessors(job[b])
    /\ job' = [job EXCEPT ![b] = j]
    /\ \E part \in SUBSET BatchCommands(b) :
          /\ Succeeded(j) => part = BatchCommands(b)
          /\ job[b].state = "WAITING" => part = {}
          /\ done' = done \cup part
    /\ UNCHANGED <<config, client, wire, taken>>

FinalizationJobStep(j) ==
    /\ j \in JobSuccessors(job[Finalization])
    /\ job' = [job EXCEPT ![Finalization] = j]
    /\ UNCHANGED <<config, client, wire, done, taken>>

\* Another client of the tenant creates an asset with the identifier of c.
OtherClientCreates(c) ==
    /\ c \in Creates \ (taken \cup done)
    /\ taken' = taken \cup {c}
    /\ UNCHANGED <<config, client, wire, tenant>>

-----------------------------------------------------------------------------

Client ==
    \/ NothingToDo \/ LacksJobSupport \/ StartProof \/ ProofComplete
    \/ \E c \in Creates : LookupFindsNothing(c) \/ LookupRefuses(c)
    \/ SubmitBatch \/ BatchHasJob \/ BatchUncertain \/ BatchUnobserved
    \/ \E view \in JobView : BatchFails(view) \/ BatchSucceeds(view)
    \/ SubmitFinalize \/ FinalizeHasJob \/ FinalizeUncertain \/ FinalizeUnobserved
    \/ \E view \in JobView : FinalizeObserved(view)

Tenant ==
    \/ \E s \in Slots : AcceptRequest(s) \/ LoseRequest(s)
    \/ \E b \in 1..N, j \in RemoteJob : BatchJobStep(b, j)
    \/ \E j \in RemoteJob : FinalizationJobStep(j)
    \/ \E c \in Creates : OtherClientCreates(c)

Terminated == pc = "done" /\ UNCHANGED vars

Next == Client \/ Tenant \/ Terminated

\* The client is one thread whose calls all return: every request is bounded by
\* the HTTP timeout and every observation by the polling timeout.  Nothing is
\* assumed of the tenant.
Spec == Init /\ [][Next]_vars /\ WF_vars(Client)

-----------------------------------------------------------------------------
(* Properties.                                                             *)

Untouched(s) == s \notin wire /\ ~Exists(job[s])

\* A reported success of a real apply is true of the tenant: every command of
\* the document was executed, and for sync_v2 the finalization job ended with
\* COMPLETED and SUCCESS.  (The execution_outcome and exit code depend on it.)
SuccessIsTrue ==
    outcome = "success" /\ apply =>
        /\ 1..Cut[n] \subseteq done
        /\ mode = "sync_v2" /\ n > 0 => Succeeded(job[Finalization])

\* Batches are staged: the tenant holds a request or a job of a batch only if
\* every earlier batch ended in success, and a finalization only if every batch
\* did, even when answers are lost or late; so at most one batch is ever in
\* doubt, and a finalization never closes a partial synchronization.
StagedBatches ==
    /\ \A b \in 1..N : ~Untouched(b) => \A a \in 1..(b-1) : Succeeded(job[a])
    /\ ~Untouched(Finalization) =>
          mode = "sync_v2" /\ \A b \in 1..n : Succeeded(job[b])

\* applied_count never over-reports, and under-reports by the commands of one
\* batch at most: what the tenant executed beyond it belongs to the batch the
\* client was executing when it stopped.
AppliedCountBracketsTenant ==
    /\ 1..applied \subseteq done
    /\ batch <= n => done \subseteq 1..(applied + Cut[batch] - Cut[batch-1])
    /\ batch = n + 1 => done = 1..applied

\* The report names every write: a batch the returned records leave out, and a
\* finalization reported as not attempted, never reach the tenant; a request
\* reported as submitted did.
ReportIsComplete ==
    pc = "done" =>
        /\ \A b \in 1..N :
              /\ records[b].submission_state = "not_attempted" => Untouched(b)
              /\ records[b].submission_state = "submitted" => Exists(job[b])
        /\ finalization.submission_state = "not_attempted" => Untouched(Finalization)
        /\ finalization.submission_state = "submitted" => Exists(job[Finalization])

\* The collision proof fails closed: if an identifier the plan CREATEs was
\* occupied when the execution began, nothing is ever written, so an import
\* MERGE can only adopt a foreign asset created after the proof began.
OccupiedIdentifierBlocksWrites ==
    occupied \cap PlannedCreates # {} => \A s \in Slots : Untouched(s)

\* An attempt whose remote effect is not known to be complete.
InDoubt(attempt) ==
    \/ attempt.submission_state = "unknown"
    \/ attempt.submission_state = "submitted" /\ ~is_terminal_success(attempt.view)

FirstCertainWrite ==
    \A s \in wire' \ wire :
        /\ apply
        /\ \A b \in 1..N : ~InDoubt(records[b])
        /\ ~InDoubt(finalization)
        /\ ~Exists(job[s])
        /\ s # Finalization => records[s].submission_state = "not_attempted"

\* Every write is a first one, and none follows a doubt: no request is sent
\* twice whatever became of it, nothing is sent after a request whose effect is
\* unknown or a job not known to have succeeded, and a dry run sends nothing.
NoWriteAfterDoubt == [][FirstCertainWrite]_vars

-----------------------------------------------------------------------------
(* The execution implements the staged application of StagedApply.         *)

\* A batch is a stage, opened when its request is sent.
BatchSent ==
    batch <= n /\ (\/ pc \in {"submitted", "observe"}
                  \/ records[batch].submission_state # "not_attempted")

Abstract == INSTANCE StagedApply WITH
    last <- n,
    open <- IF BatchSent THEN batch ELSE batch - 1,
    effects <- done,
    verdict <- CASE outcome = "none"              -> "pending"
                 [] outcome = "success" /\ apply -> "success"
                 [] OTHER                         -> "no_claim"

\* The batch lifecycle, with its lost answers, late jobs and uncertain
\* observations, keeps the promise of StagedApply, liveness included.
ImplementsStagedApply == Abstract!Spec

-----------------------------------------------------------------------------
(* The inductive invariant behind the safety properties.                   *)

FinalizeSent ==
    \/ pc \in {"finalize_submitted", "finalize_observe"}
    \/ finalization.submission_state # "not_attempted"

Running == {"submit", "submitted", "observe",
            "finalize", "finalize_submitted", "finalize_observe"}

\* Where the client may be, by batch, mode and outcome.
Position ==
    /\ batch <= n + 1
    /\ applied = Cut[batch-1]
    /\ pc \in {"begin", "prove"} => batch = 1
    /\ pc \in {"submit", "submitted", "observe"} => batch <= n
    /\ pc \in {"finalize", "finalize_submitted", "finalize_observe"} =>
          batch = n + 1 /\ mode = "sync_v2"
    /\ pc \in Running \cup {"prove"} => apply /\ n > 0
    /\ outcome = "none" <=> pc # "done"

\* What was sent: the batches before the current one succeeded, the current one
\* and the finalization are on the tenant only if the client sent them, and
\* nothing after them is.
Sent ==
    /\ \A b \in 1..N : b < batch => Succeeded(job[b]) /\ b \notin wire
    /\ \A b \in 1..N : b >= batch /\ ~(b = batch /\ BatchSent) => Untouched(b)
    /\ ~FinalizeSent => Untouched(Finalization)
    /\ FinalizeSent => batch = n + 1 /\ mode = "sync_v2"
    /\ \A s \in wire : ~Exists(job[s])

\* What was recorded of it.
Recorded ==
    /\ \A b \in 1..N : b < batch => /\ records[b].submission_state = "submitted"
                                    /\ is_terminal_success(records[b].view)
    /\ \A b \in 1..N : (b > batch \/ (pc # "done" /\ b = batch)) =>
          records[b].submission_state = "not_attempted"
    /\ pc # "done" => finalization.submission_state = "not_attempted"
    /\ \A b \in 1..N : records[b].submission_state # "not_attempted" => b <= n
    /\ \A b \in 1..N : records[b].submission_state = "submitted" => Exists(job[b])
    /\ finalization.submission_state = "submitted" => Exists(job[Finalization])
    /\ pc = "observe" => Exists(job[batch])
    /\ pc = "finalize_observe" => Exists(job[Finalization])

\* What the tenant executed.
Executed ==
    /\ \A b \in 1..N : Succeeded(job[b]) => BatchCommands(b) \subseteq done
    /\ 1..applied \subseteq done
    /\ done \subseteq 1..(IF BatchSent THEN Cut[batch] ELSE Cut[batch-1])

\* What the collision proof established.
Proved ==
    /\ occupied \cap checked = {}
    /\ pc \in Running => checked = PlannedCreates
    /\ \A s \in Slots : ~Untouched(s) => checked = PlannedCreates

\* What a verdict means.
Verdict ==
    outcome = "success" /\ apply =>
        /\ batch = n + 1
        /\ mode = "sync_v2" /\ n > 0 => Succeeded(job[Finalization])

IInv == TypeOK /\ Position /\ Sent /\ Recorded /\ Executed /\ Proved /\ Verdict
====
