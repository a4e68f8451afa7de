---- MODULE SyncLifecycle_proof ----
(***************************************************************************)
(* Proofs about SyncLifecycle, for every number of batches, every cut of   *)
(* the document into batches and every set of creating commands.           *)
(***************************************************************************)
EXTENDS SyncLifecycle, TLAPS

\* classify_job, observed through poll_until_terminal, reports success only of a
\* job whose state is COMPLETED and whose result is SUCCESS.
LEMMA SuccessObserved ==
    ASSUME NEW j \in RemoteJob, NEW v \in Observations(j), is_terminal_success(v)
    PROVE  Succeeded(j)
  <1>0. ASSUME NEW s \in NON_TERMINAL_STATES \cup {""},
               v = [remote_state |-> s, normalized_state |-> "timeout"]
        PROVE  FALSE
    <2>1. v.normalized_state = "timeout" BY <1>0
    <2> QED BY <2>1 DEF is_terminal_success
  <1>1. PICK p \in Answers(j) : v = classify_job(p)
    BY <1>0 DEF Observations
  <1>2. p.state = "COMPLETED" /\ p.result = "SUCCESS"
    BY <1>1 DEF classify_job, is_terminal_success
  <1>3. ASSUME NEW s \in {"", "other"}, p = [state |-> s, result |-> j.result] PROVE FALSE
    <2>1. p.state = s BY <1>3
    <2> QED BY <2>1, <1>2
  <1>4. ASSUME NEW r \in {"", "other"}, p = [state |-> j.state, result |-> r] PROVE FALSE
    <2>1. p.result = r BY <1>4
    <2> QED BY <2>1, <1>2
  <1>5. p = j
    BY <1>1, <1>3, <1>4 DEF Answers
  <1> QED
    BY <1>2, <1>5 DEF Succeeded

\* A successful job is at rest: the tenant takes no further step of it.
LEMMA SuccessIsFinal ==
    ASSUME NEW j \in RemoteJob, Succeeded(j) \/ ~Exists(j)
    PROVE  JobSuccessors(j) = {}
  BY DEF JobSuccessors, Succeeded, Exists

\* A job's successors exist, and are jobs.
LEMMA SuccessorsExist ==
    ASSUME NEW j \in RemoteJob, NEW k \in JobSuccessors(j)
    PROVE  k \in RemoteJob /\ Exists(k)
  BY DEF JobSuccessors, RemoteJob, Exists, REMOTE_STATES, REMOTE_RESULTS

LEMMA CutFacts ==
    ASSUME NEW b \in 1..N
    PROVE  /\ Cut[b] \in Nat /\ Cut[b-1] \in Nat /\ Cut[b-1] < Cut[b]
           /\ Cut[N] \in Nat /\ Cut[b] <= Cut[N]
           /\ b - 1 \in 0..N /\ b \in 0..N
           /\ N \in Nat
  BY NAssumption, CutAssumption

LEMMA InitIInv == Init => IInv
  <1> SUFFICES ASSUME Init PROVE IInv OBVIOUS
  <1> USE NAssumption, CutAssumption, CreatesAssumption DEF Init
  <1>1. TypeOK
    BY DEF TypeOK, Attempts, NotAttempted, Views, NoJob, RemoteJob, REMOTE_RESULTS, Slots
  <1>2. Position BY DEF Position, Running
  <1>3. Sent BY DEF Sent, Untouched, Exists, NoJob, FinalizeSent, NotAttempted, Finalization, Slots
  <1>4. Recorded BY DEF Recorded, NotAttempted
  <1>5. Executed BY DEF Executed, Succeeded, NoJob, BatchSent, Slots, NotAttempted
  <1>6. Proved BY DEF Proved, Running, Untouched, Exists, NoJob, Slots
  <1>7. Verdict BY DEF Verdict
  <1> QED BY <1>1, <1>2, <1>3, <1>4, <1>5, <1>6, <1>7 DEF IInv

-----------------------------------------------------------------------------
(* One lemma per group of actions.  Under it, one step per action or per   *)
(* part of the invariant the action can disturb.                           *)

\* Steps of the client that change only where it is and how it ended.
ControlStep ==
    NothingToDo \/ LacksJobSupport \/ StartProof \/ ProofComplete
    \/ (\E c \in Creates : LookupRefuses(c)) \/ BatchHasJob \/ FinalizeHasJob

LEMMA ControlStepKeepsIInv == IInv /\ ControlStep => IInv'
  <1> SUFFICES ASSUME IInv, ControlStep PROVE IInv' OBVIOUS
  <1> USE NAssumption, CutAssumption DEF IInv, TypeOK, config, tenant
  <1> DEFINE Frame ==
        UNCHANGED <<mode, apply, jobSupport, n, occupied, checked, batch, applied, records,
                    finalization, wire, job, done, taken>>
  <1>1. Frame
    BY DEF ControlStep, NothingToDo, LacksJobSupport, StartProof, ProofComplete,
           LookupRefuses, BatchHasJob, FinalizeHasJob
  <1>2. \/ /\ pc \in {"begin", "prove"} /\ pc' = "done"
           /\ outcome' \in {"success", "failure", "refused"}
           /\ outcome' = "success" => ~apply \/ n = 0
        \/ pc = "begin" /\ pc' = "prove" /\ outcome' = outcome /\ apply /\ n > 0
        \/ pc = "prove" /\ pc' = "submit" /\ outcome' = outcome /\ checked = PlannedCreates
        \/ pc = "submitted" /\ pc' = "observe" /\ outcome' = outcome /\ Exists(job[batch])
        \/ pc = "finalize_submitted" /\ pc' = "finalize_observe" /\ outcome' = outcome
           /\ Exists(job[Finalization])
    BY DEF ControlStep, NothingToDo, LacksJobSupport, StartProof, ProofComplete,
           LookupRefuses, NextLookup, BatchHasJob, FinalizeHasJob, Stop, GoTo
  <1> HIDE DEF ControlStep
  <1>3. TypeOK' BY <1>1, <1>2
  <1>4. Position' BY <1>1, <1>2 DEF Position, Running
  <1>5. Sent' BY <1>1, <1>2 DEF Sent, Untouched, BatchSent, FinalizeSent, Recorded
  <1>6. Recorded' BY <1>1, <1>2 DEF Recorded
  <1>7. Executed' BY <1>1, <1>2 DEF Executed, BatchSent, BatchCommands
  <1>8. Proved' BY <1>1, <1>2 DEF Proved, Running, Untouched, PlannedCreates
  <1>9. Verdict' BY <1>1, <1>2 DEF Verdict, Position
  <1> QED BY <1>3, <1>4, <1>5, <1>6, <1>7, <1>8, <1>9

LEMMA LookupKeepsIInv ==
    ASSUME IInv, NEW c \in Creates, LookupFindsNothing(c)
    PROVE  IInv'
  <1> USE NAssumption, CutAssumption
      DEF IInv, TypeOK, config, tenant, LookupFindsNothing, NextLookup
  <1>1. TypeOK' OBVIOUS
  <1>2. Position' BY DEF Position, Running
  <1>3. Sent' BY DEF Sent, Untouched, BatchSent, FinalizeSent
  <1>4. Recorded' BY DEF Recorded
  <1>5. Executed' BY DEF Executed, BatchSent, BatchCommands
  <1>6. Proved'
    <2>1. c \notin occupied OBVIOUS
    <2>2. \A s \in Slots : Untouched(s)
      BY DEF Proved
    <2> QED BY <2>1, <2>2 DEF Proved, Running, Untouched, PlannedCreates
  <1>7. Verdict' BY DEF Verdict
  <1> QED BY <1>1, <1>2, <1>3, <1>4, <1>5, <1>6, <1>7

LEMMA SubmitKeepsIInv == IInv /\ (SubmitBatch \/ SubmitFinalize) => IInv'
  <1> USE NAssumption, CutAssumption DEF IInv, TypeOK, config, tenant, GoTo
  <1>1. ASSUME IInv, SubmitBatch PROVE IInv'
    <2> USE <1>1 DEF SubmitBatch
    <2>1. batch \in 1..n /\ batch \in 1..N /\ batch \in Slots /\ batch # Finalization
      BY DEF Position, Slots, Finalization
    <2>2. Untouched(batch) /\ ~BatchSent
      BY <2>1 DEF Sent, Recorded, BatchSent
    <2>3. TypeOK' BY <2>1
    <2>4. Position' BY <2>1 DEF Position, Running
    <2>5. BatchSent' /\ (FinalizeSent' <=> FinalizeSent)
      BY <2>1 DEF BatchSent, FinalizeSent
    <2>6. Sent' BY <2>1, <2>2, <2>5 DEF Sent, Untouched
    <2>7. Recorded' BY <2>1 DEF Recorded
    <2>8. Executed'
      BY <2>1, <2>2, <2>5, CutFacts DEF Executed, BatchCommands
    <2>9. Proved' BY <2>1 DEF Proved, Running, Untouched, PlannedCreates
    <2>10. Verdict' BY DEF Verdict, Position
    <2> QED BY <2>3, <2>4, <2>6, <2>7, <2>8, <2>9, <2>10
  <1>2. ASSUME IInv, SubmitFinalize PROVE IInv'
    <2> USE <1>2 DEF SubmitFinalize
    <2>1. batch = n + 1 /\ mode = "sync_v2" /\ Finalization \in Slots
      BY DEF Position, Slots, Finalization
    <2>2. Untouched(Finalization)
      BY DEF Sent, Recorded, FinalizeSent
    <2>3. TypeOK' BY <2>1
    <2>4. Position' BY <2>1 DEF Position, Running
    <2>5. FinalizeSent' /\ (BatchSent' <=> BatchSent)
      BY <2>1 DEF BatchSent, FinalizeSent
    <2>6. Sent' BY <2>1, <2>2, <2>5 DEF Sent, Untouched, Finalization
    <2>7. Recorded' BY <2>1 DEF Recorded
    <2>8. Executed' BY <2>5 DEF Executed, BatchCommands
    <2>9. Proved' BY <2>1 DEF Proved, Running, Untouched, PlannedCreates
    <2>10. Verdict' BY DEF Verdict, Position
    <2> QED BY <2>3, <2>4, <2>6, <2>7, <2>8, <2>9, <2>10
  <1> QED BY <1>1, <1>2

\* The execution stops with the current batch in doubt.
BatchStops(attempt) ==
    /\ pc \in {"submitted", "observe"}
    /\ attempt \in Attempts
    /\ attempt.submission_state # "not_attempted"
    /\ attempt.submission_state = "submitted" => pc = "observe"
    /\ records' = [records EXCEPT ![batch] = attempt]
    /\ Stop("failure")
    /\ UNCHANGED <<config, checked, batch, applied, finalization, wire, tenant, taken>>

LEMMA BatchStopKeepsIInv ==
    ASSUME IInv, NEW attempt, BatchStops(attempt)
    PROVE  IInv'
  <1> USE NAssumption, CutAssumption DEF IInv, TypeOK, config, tenant, Stop, BatchStops
  <1>1. batch \in 1..n /\ batch \in 1..N /\ batch \in Slots /\ batch # Finalization
    BY DEF Position, Slots, Finalization
  <1>2. /\ attempt \in Attempts
        /\ attempt.submission_state # "not_attempted"
        /\ attempt.submission_state = "submitted" => Exists(job[batch])
    BY DEF Recorded
  <1>3. TypeOK' BY <1>1, <1>2
  <1>4. Position' BY <1>1 DEF Position, Running
  <1>5. BatchSent /\ BatchSent' /\ (FinalizeSent' <=> FinalizeSent)
    BY <1>1, <1>2 DEF BatchSent, FinalizeSent
  <1>6. Sent' BY <1>1, <1>5 DEF Sent, Untouched
  <1>7. Recorded'
    <2>1. \A b \in 1..N : records'[b] = IF b = batch THEN attempt ELSE records[b]
      BY <1>1
    <2>2. pc' = "done" /\ UNCHANGED <<batch, n, finalization, job>> OBVIOUS
    <2>3. Recorded /\ n \in Nat /\ batch <= n BY <1>1
    <2> HIDE DEF BatchStops, IInv, TypeOK
    <2>4. \A b \in 1..N : b < batch => /\ records'[b].submission_state = "submitted"
                                      /\ is_terminal_success(records'[b].view)
      BY <1>1, <2>1, <2>3 DEF Recorded
    <2>5. \A b \in 1..N : b > batch => records'[b].submission_state = "not_attempted"
      BY <1>1, <2>1, <2>3 DEF Recorded
    <2>6. \A b \in 1..N : records'[b].submission_state # "not_attempted" => b <= n
      BY <1>1, <2>1, <2>3 DEF Recorded
    <2>7. \A b \in 1..N : records'[b].submission_state = "submitted" => Exists(job[b])
      BY <1>1, <1>2, <2>1, <2>3 DEF Recorded
    <2> QED BY <2>2, <2>3, <2>4, <2>5, <2>6, <2>7 DEF Recorded
  <1>8. Executed' BY <1>5 DEF Executed, BatchCommands
  <1>9. Proved' BY <1>1 DEF Proved, Running, Untouched, PlannedCreates
  <1>10. Verdict' BY DEF Verdict, Position
  <1> QED BY <1>3, <1>4, <1>6, <1>7, <1>8, <1>9, <1>10

LEMMA BatchStopActions ==
    ASSUME IInv,
           BatchUncertain \/ BatchUnobserved \/ (\E view \in JobView : BatchFails(view))
    PROVE  \E attempt : BatchStops(attempt)
  <1>1. CASE BatchUncertain
    <2>1. Uncertain \in Attempts BY DEF Uncertain, Attempts, Views
    <2>2. BatchStops(Uncertain)
      BY <1>1, <2>1 DEF BatchUncertain, BatchStops, Uncertain
    <2> QED BY <2>2
  <1>2. ASSUME NEW view \in Views, pc = "observe",
               records' = [records EXCEPT ![batch] = Submitted(view)], Stop("failure"),
               UNCHANGED <<config, checked, batch, applied, finalization, wire, tenant, taken>>
        PROVE  BatchStops(Submitted(view))
    <2>1. Submitted(view) \in Attempts BY DEF Submitted, Attempts
    <2> QED BY <1>2, <2>1 DEF BatchStops, Submitted
  <1>3. CASE BatchUnobserved
    <2>1. NoView \in Views BY DEF Views
    <2> QED BY <1>2, <1>3, <2>1 DEF BatchUnobserved
  <1>4. ASSUME NEW view \in JobView, BatchFails(view) PROVE \E attempt : BatchStops(attempt)
    <2>1. view \in Views BY DEF Views
    <2> QED BY <1>2, <1>4, <2>1 DEF BatchFails
  <1> QED BY <1>1, <1>3, <1>4

LEMMA BatchSucceedsKeepsIInv ==
    ASSUME IInv, NEW view \in JobView, BatchSucceeds(view)
    PROVE  IInv'
  <1> USE NAssumption, CutAssumption
      DEF IInv, TypeOK, config, tenant, Stop, GoTo, BatchSucceeds
  <1>1. batch \in 1..n /\ batch \in 1..N /\ batch \in Slots /\ batch # Finalization
    BY DEF Position, Slots, Finalization
  <1>2. Succeeded(job[batch])
    BY <1>1, SuccessObserved
  <1>3. /\ Submitted(view) \in Attempts
        /\ Submitted(view).submission_state = "submitted"
        /\ is_terminal_success(Submitted(view).view)
        /\ Exists(job[batch]) /\ batch \notin wire
    BY <1>1, <1>2 DEF Attempts, Submitted, Views, Exists, Succeeded, Sent
  <1>4. applied' = Cut[batch] /\ applied' \in Nat /\ Cut[batch-1] < Cut[batch]
    BY <1>1, CutFacts DEF Position
  <1>a. batch' = batch + 1 /\ batch' - 1 = batch BY <1>1
  <1>5. TypeOK'
    <2>1. records' \in [1..N -> Attempts] BY <1>1, <1>3
    <2>2. batch' \in 1..(N + 1) /\ applied' \in Nat BY <1>1, <1>4
    <2>3. pc' \in {"submit", "finalize", "done"} /\ outcome' \in {outcome, "success"}
      BY <1>1
    <2> QED BY <2>1, <2>2, <2>3
  <1>6. Position'
    <2>1. applied' = Cut[batch' - 1] BY <1>4, <1>a
    <2>2. batch' <= n + 1 /\ apply /\ n > 0 /\ UNCHANGED <<apply, n, mode>>
      BY <1>1 DEF Position, Running
    <2>3. CASE batch < n
      BY <1>1, <2>1, <2>2, <2>3 DEF Position, Running
    <2>4. CASE batch = n
      BY <1>1, <2>1, <2>2, <2>4 DEF Position, Running
    <2> QED BY <2>3, <2>4, <1>1
  <1>7. BatchSent /\ ~BatchSent' /\ ~FinalizeSent /\ ~FinalizeSent'
    <2>1. BatchSent /\ ~FinalizeSent
      BY <1>1 DEF BatchSent, FinalizeSent, Recorded
    <2>2. ~FinalizeSent'
      BY <2>1 DEF FinalizeSent
    <2>3. batch' <= n => records'[batch'].submission_state = "not_attempted"
      BY <1>1, <1>a DEF Recorded
    <2>4. ~BatchSent'
      BY <2>3 DEF BatchSent
    <2> QED BY <2>1, <2>2, <2>4
  <1>8. Sent' BY <1>1, <1>2, <1>3, <1>7 DEF Sent, Untouched
  <1>9. Recorded'
    <2>1. \A b \in 1..N : records'[b] = IF b = batch THEN Submitted(view) ELSE records[b]
      BY <1>1
    <2>2. UNCHANGED <<n, finalization, job>> /\ pc' \in {"submit", "finalize", "done"}
      BY <1>1
    <2>3. \A b \in 1..N : b < batch' <=> b < batch \/ b = batch
      BY <1>1, <1>a
    <2>4. \A b \in 1..N : b >= batch' <=> b > batch
      BY <1>1, <1>a
    <2> QED BY <1>1, <1>3, <2>1, <2>2, <2>3, <2>4 DEF Recorded
  <1>10. Executed'
    <2>1. BatchCommands(batch) \subseteq done /\ 1..Cut[batch-1] \subseteq done
          /\ done \subseteq 1..Cut[batch]
      BY <1>1, <1>2, <1>7 DEF Executed, Position
    <2>2. 1..Cut[batch] \subseteq done
      BY <2>1, <1>1, CutFacts DEF BatchCommands
    <2>3. UNCHANGED <<job, done>> /\ 1..applied' = 1..Cut[batch] BY <1>4
    <2>4. done' \subseteq 1..(IF BatchSent' THEN Cut[batch'] ELSE Cut[batch'-1])
      BY <2>1, <2>3, <1>7, <1>a
    <2> QED BY <2>2, <2>3, <2>4 DEF Executed, BatchCommands
  <1>11. Proved' BY <1>1 DEF Proved, Running, Untouched, PlannedCreates
  <1>12. Verdict' BY <1>1 DEF Verdict, Position
  <1> QED BY <1>5, <1>6, <1>8, <1>9, <1>10, <1>11, <1>12

LEMMA FinalizeStopKeepsIInv ==
    ASSUME IInv, NEW attempt \in Attempts, NEW result \in {"success", "failure"},
           pc \in {"finalize_submitted", "finalize_observe"},
           attempt.submission_state # "not_attempted",
           attempt.submission_state = "submitted" => pc = "finalize_observe",
           result = "success" => Succeeded(job[Finalization]),
           finalization' = attempt, Stop(result),
           UNCHANGED <<config, checked, batch, applied, records, wire, tenant, taken>>
    PROVE  IInv'
  <1> USE NAssumption, CutAssumption DEF IInv, TypeOK, config, tenant, Stop
  <1>1. batch = n + 1 /\ mode = "sync_v2" BY DEF Position
  <1>2. TypeOK' OBVIOUS
  <1>3. Position' BY <1>1 DEF Position, Running
  <1>4. FinalizeSent /\ FinalizeSent' /\ ~BatchSent /\ ~BatchSent'
    BY <1>1 DEF BatchSent, FinalizeSent
  <1>5. Sent' BY <1>1, <1>4 DEF Sent, Untouched
  <1>6. Recorded' BY <1>1 DEF Recorded
  <1>7. Executed' BY <1>4 DEF Executed, BatchCommands
  <1>8. Proved' BY DEF Proved, Running, Untouched, PlannedCreates
  <1>9. Verdict' BY <1>1 DEF Verdict
  <1> QED BY <1>2, <1>3, <1>5, <1>6, <1>7, <1>8, <1>9

LEMMA FinalizeStepKeepsIInv ==
    ASSUME IInv,
           FinalizeUncertain \/ FinalizeUnobserved
           \/ (\E view \in JobView : FinalizeObserved(view))
    PROVE  IInv'
  <1> USE DEF Attempts, Views, Submitted, Uncertain
  <1>1. CASE FinalizeUncertain
    BY <1>1, FinalizeStopKeepsIInv DEF FinalizeUncertain
  <1>2. CASE FinalizeUnobserved
    BY <1>2, FinalizeStopKeepsIInv DEF FinalizeUnobserved
  <1>3. ASSUME NEW view \in JobView, FinalizeObserved(view) PROVE IInv'
    <2>1. job[Finalization] \in RemoteJob
      BY NAssumption DEF IInv, TypeOK, Slots, Finalization
    <2>2. is_terminal_success(view) => Succeeded(job[Finalization])
      BY <1>3, <2>1, SuccessObserved DEF FinalizeObserved
    <2>3. Submitted(view) \in Attempts OBVIOUS
    <2> QED BY <1>3, <2>2, <2>3, FinalizeStopKeepsIInv DEF FinalizeObserved
  <1> QED BY <1>1, <1>2, <1>3

-----------------------------------------------------------------------------
(* The tenant's steps.                                                     *)

LEMMA WireStepKeepsIInv ==
    ASSUME IInv, NEW s \in Slots, AcceptRequest(s) \/ LoseRequest(s)
    PROVE  IInv'
  <1> USE NAssumption, CutAssumption
      DEF IInv, TypeOK, config, tenant, client
  <1>1. /\ s \in wire /\ wire' = wire \ {s}
        /\ \/ job' = job
           \/ job' = [job EXCEPT ![s] = NewJob]
        /\ UNCHANGED <<config, client, done, taken>>
    BY DEF AcceptRequest, LoseRequest
  <1>2. ~Exists(job[s]) /\ ~Succeeded(job[s]) BY <1>1 DEF Sent, Exists, Succeeded
  <1>3. NewJob \in RemoteJob /\ Exists(NewJob) /\ ~Succeeded(NewJob)
    BY DEF NewJob, RemoteJob, Exists, Succeeded, REMOTE_STATES, REMOTE_RESULTS
  <1>4. /\ \A t \in Slots : t # s => job'[t] = job[t]
        /\ Exists(job'[s]) \/ job'[s] = job[s]
        /\ ~Succeeded(job'[s])
        /\ job' \in [Slots -> RemoteJob]
    BY <1>1, <1>2, <1>3
  <1>5. (BatchSent' <=> BatchSent) /\ (FinalizeSent' <=> FinalizeSent)
    BY <1>1 DEF BatchSent, FinalizeSent
  <1>6. TypeOK' BY <1>1, <1>4
  <1>7. Position' BY <1>1 DEF Position, Running
  <1>8. \A t \in Slots : ~Untouched(t)' => ~Untouched(t)
    BY <1>1, <1>2, <1>4 DEF Untouched
  <1>9. \A b \in 1..N : b \in Slots BY DEF Slots
  <1>10. Finalization \in Slots BY DEF Slots, Finalization
  <1>11. Sent'
    <2>1. \A b \in 1..N : b < batch => b # s /\ b \notin wire
      BY <1>1, <1>2 DEF Sent
    <2>2. \A b \in 1..N : b < batch => Succeeded(job'[b]) /\ b \notin wire'
      BY <1>1, <1>4, <1>9, <2>1 DEF Sent
    <2>3. \A b \in 1..N : b >= batch /\ ~(b = batch /\ BatchSent) => Untouched(b)'
      BY <1>8, <1>9 DEF Sent
    <2>4. ~FinalizeSent => Untouched(Finalization)'
      BY <1>8, <1>10 DEF Sent
    <2>5. \A t \in wire' : ~Exists(job'[t])
      <3>1. \A t \in wire' : t \in wire /\ t \in Slots /\ t # s BY <1>1
      <3> QED BY <3>1, <1>4 DEF Sent
    <2>6. UNCHANGED <<batch, n, mode>> BY <1>1
    <2> QED BY <1>5, <2>2, <2>3, <2>4, <2>5, <2>6 DEF Sent
  <1>12. Recorded'
    <2>1. \A t \in Slots : Exists(job[t]) => Exists(job'[t])
      BY <1>2, <1>4
    <2>2. pc = "observe" => batch \in Slots
      BY DEF Position, Slots
    <2>3. UNCHANGED <<records, finalization, batch, n, pc>> BY <1>1
    <2> QED BY <1>9, <1>10, <2>1, <2>2, <2>3 DEF Recorded
  <1>13. Executed' BY <1>1, <1>4, <1>5, <1>9 DEF Executed, BatchCommands
  <1>14. Proved' BY <1>1, <1>8 DEF Proved, Running, PlannedCreates
  <1>15. Verdict' BY <1>1, <1>2, <1>4, <1>10 DEF Verdict
  <1> QED BY <1>6, <1>7, <1>11, <1>12, <1>13, <1>14, <1>15

LEMMA BatchJobStepKeepsIInv ==
    ASSUME IInv, NEW b \in 1..N, NEW j \in RemoteJob, BatchJobStep(b, j)
    PROVE  IInv'
  <1> USE NAssumption, CutAssumption DEF IInv, TypeOK, config, tenant, client
  <1>1. /\ j \in JobSuccessors(job[b])
        /\ job' = [job EXCEPT ![b] = j]
        /\ UNCHANGED <<config, client, wire, taken>>
    BY DEF BatchJobStep
  <1>2. PICK part \in SUBSET BatchCommands(b) :
           (Succeeded(j) => part = BatchCommands(b)) /\ done' = done \cup part
    BY DEF BatchJobStep
  <1>3. b \in Slots /\ b # Finalization /\ job[b] \in RemoteJob BY DEF Slots, Finalization
  <1>4. ~Succeeded(job[b]) /\ Exists(job[b]) /\ Exists(j)
    BY <1>1, <1>3, SuccessIsFinal, SuccessorsExist
  <1>5. b = batch /\ BatchSent
    BY <1>4 DEF Sent, Untouched
  <1>6. /\ \A t \in Slots : t # b => job'[t] = job[t]
        /\ job'[b] = j
        /\ job' \in [Slots -> RemoteJob]
    BY <1>1, <1>3
  <1>7. (BatchSent' <=> BatchSent) /\ (FinalizeSent' <=> FinalizeSent)
    BY <1>1 DEF BatchSent, FinalizeSent
  <1>8. /\ Cut[b] \in Nat /\ Cut[b-1] \in Nat /\ Cut[b-1] < Cut[b]
        /\ BatchCommands(b) = (Cut[b-1] + 1)..Cut[b]
    BY CutFacts DEF BatchCommands
  <1>9. done' \subseteq 1..Cut[b] /\ done \subseteq 1..Cut[b]
    <2>1. part \subseteq 1..Cut[b] BY <1>2, <1>8
    <2>2. done \subseteq 1..Cut[b] BY <1>5 DEF Executed
    <2> QED BY <1>2, <2>1, <2>2
  <1>10. TypeOK'
    <2>1. done' \subseteq 1..Cut[N]
      <3>1. BatchCommands(b) \subseteq 1..Cut[N] BY <1>8, CutFacts
      <3> QED BY <3>1, <1>2
    <2> QED BY <1>1, <1>6, <2>1
  <1>11. Position' BY <1>1 DEF Position, Running
  <1>12. \A t \in Slots : (Untouched(t)' <=> Untouched(t))
    BY <1>1, <1>3, <1>4, <1>6 DEF Untouched
  <1>13. \A c \in 1..N : c \in Slots BY DEF Slots
  <1>14. Finalization \in Slots BY DEF Slots, Finalization
  <1>15. UNCHANGED <<batch, n, mode, wire, pc, records, finalization>> BY <1>1
  <1>16. Sent'
    <2>1. \A c \in 1..N : c < batch => Succeeded(job'[c]) /\ c \notin wire
      BY <1>5, <1>6, <1>13 DEF Sent
    <2>2. \A s \in wire : ~Exists(job'[s])
      BY <1>4, <1>6 DEF Sent
    <2> QED BY <1>7, <1>12, <1>13, <1>14, <1>15, <2>1, <2>2 DEF Sent
  <1>17. Recorded'
    <2>1. \A t \in Slots : Exists(job[t]) => Exists(job'[t]) BY <1>4, <1>6
    <2>2. pc = "observe" => batch \in Slots BY DEF Position, Slots
    <2> QED BY <1>13, <1>14, <1>15, <2>1, <2>2 DEF Recorded
  <1>18. Executed'
    <2>1. \A c \in 1..N : Succeeded(job'[c]) => BatchCommands(c) \subseteq done'
      BY <1>2, <1>6, <1>13 DEF Executed
    <2>2. 1..applied' \subseteq done' BY <1>1, <1>2 DEF Executed
    <2>3. done' \subseteq 1..(IF BatchSent' THEN Cut[batch'] ELSE Cut[batch'-1])
      BY <1>5, <1>7, <1>9, <1>15
    <2> QED BY <2>1, <2>2, <2>3 DEF Executed, BatchCommands
  <1>19. Proved' BY <1>1, <1>12 DEF Proved, Running, PlannedCreates
  <1>20. Verdict' BY <1>1, <1>3, <1>6, <1>14 DEF Verdict
  <1> QED BY <1>10, <1>11, <1>16, <1>17, <1>18, <1>19, <1>20

LEMMA FinalizationJobStepKeepsIInv ==
    ASSUME IInv, NEW j \in RemoteJob, FinalizationJobStep(j)
    PROVE  IInv'
  <1> USE NAssumption, CutAssumption DEF IInv, TypeOK, config, tenant, client
  <1>1. /\ j \in JobSuccessors(job[Finalization])
        /\ job' = [job EXCEPT ![Finalization] = j]
        /\ UNCHANGED <<config, client, wire, done, taken>>
    BY DEF FinalizationJobStep
  <1>2. Finalization \in Slots /\ job[Finalization] \in RemoteJob
    BY DEF Slots, Finalization
  <1>3. ~Succeeded(job[Finalization]) /\ Exists(job[Finalization]) /\ Exists(j)
    BY <1>1, <1>2, SuccessIsFinal, SuccessorsExist
  <1>4. \A b \in 1..N : b \in Slots /\ b # Finalization
    BY DEF Slots, Finalization
  <1>5. /\ \A b \in 1..N : job'[b] = job[b]
        /\ \A s \in Slots : Exists(job'[s]) <=> Exists(job[s])
        /\ job' \in [Slots -> RemoteJob]
    BY <1>1, <1>2, <1>3, <1>4
  <1>6. (BatchSent' <=> BatchSent) /\ (FinalizeSent' <=> FinalizeSent)
    BY <1>1 DEF BatchSent, FinalizeSent
  <1>7. \A s \in Slots : Untouched(s)' <=> Untouched(s)
    BY <1>1, <1>5 DEF Untouched
  <1>8. TypeOK' BY <1>1, <1>5
  <1>9. Position' BY <1>1 DEF Position, Running
  <1>10. UNCHANGED <<batch, n, mode, wire, pc, records, finalization, done, applied>>
    BY <1>1
  <1>11. Sent'
    <2>1. \A s \in wire : ~Exists(job'[s]) BY <1>5 DEF Sent
    <2> QED BY <1>2, <1>4, <1>5, <1>6, <1>7, <1>10, <2>1 DEF Sent
  <1>12. Recorded'
    <2>1. pc = "observe" => batch \in Slots BY DEF Position, Slots
    <2> QED BY <1>2, <1>4, <1>5, <1>10, <2>1 DEF Recorded
  <1>13. Executed' BY <1>5, <1>6, <1>10 DEF Executed, BatchCommands
  <1>14. Proved' BY <1>1, <1>7 DEF Proved, Running, PlannedCreates
  <1>15. Verdict' BY <1>1, <1>3 DEF Verdict
  <1> QED BY <1>8, <1>9, <1>11, <1>12, <1>13, <1>14, <1>15

LEMMA OtherClientKeepsIInv ==
    ASSUME IInv, NEW c \in Creates, OtherClientCreates(c)
    PROVE  IInv'
  <1> USE NAssumption, CutAssumption
      DEF IInv, TypeOK, config, tenant, client, OtherClientCreates
  <1>1. TypeOK' OBVIOUS
  <1>2. Position' BY DEF Position, Running
  <1>3. Sent' BY DEF Sent, Untouched, BatchSent, FinalizeSent
  <1>4. Recorded' BY DEF Recorded
  <1>5. Executed' BY DEF Executed, BatchSent, BatchCommands
  <1>6. Proved' BY DEF Proved, Running, Untouched, PlannedCreates
  <1>7. Verdict' BY DEF Verdict
  <1> QED BY <1>1, <1>2, <1>3, <1>4, <1>5, <1>6, <1>7

LEMMA StutterKeepsIInv == IInv /\ UNCHANGED vars => IInv'
  <1> SUFFICES ASSUME IInv, UNCHANGED vars PROVE IInv' OBVIOUS
  <1> USE DEF IInv, vars, config, client, tenant
  <1>1. TypeOK' BY DEF TypeOK
  <1>2. Position' BY DEF Position
  <1>3. Sent' BY DEF Sent, Untouched, BatchSent, FinalizeSent
  <1>4. Recorded' BY DEF Recorded
  <1>5. Executed' BY DEF Executed, BatchSent, BatchCommands
  <1>6. Proved' BY DEF Proved, Untouched, PlannedCreates
  <1>7. Verdict' BY DEF Verdict
  <1> QED BY <1>1, <1>2, <1>3, <1>4, <1>5, <1>6, <1>7

LEMMA StepKeepsIInv == IInv /\ [Next]_vars => IInv'
  <1> SUFFICES ASSUME IInv, [Next]_vars PROVE IInv' OBVIOUS
  <1>1. CASE Client
    <2>1. CASE ControlStep BY <2>1, ControlStepKeepsIInv
    <2>2. ASSUME NEW c \in Creates, LookupFindsNothing(c) PROVE IInv'
      BY <2>2, LookupKeepsIInv
    <2>3. CASE SubmitBatch \/ SubmitFinalize BY <2>3, SubmitKeepsIInv
    <2>4. CASE BatchUncertain \/ BatchUnobserved \/ (\E view \in JobView : BatchFails(view))
      BY <2>4, BatchStopActions, BatchStopKeepsIInv
    <2>5. ASSUME NEW view \in JobView, BatchSucceeds(view) PROVE IInv'
      BY <2>5, BatchSucceedsKeepsIInv
    <2>6. CASE FinalizeUncertain \/ FinalizeUnobserved
               \/ (\E view \in JobView : FinalizeObserved(view))
      BY <2>6, FinalizeStepKeepsIInv
    <2> QED
      BY <1>1, <2>1, <2>2, <2>3, <2>4, <2>5, <2>6 DEF Client, ControlStep
  <1>2. CASE Tenant
    BY <1>2, WireStepKeepsIInv, BatchJobStepKeepsIInv, FinalizationJobStepKeepsIInv,
       OtherClientKeepsIInv DEF Tenant
  <1>3. CASE Terminated \/ UNCHANGED vars
    BY <1>3, StutterKeepsIInv DEF Terminated
  <1> QED BY <1>1, <1>2, <1>3 DEF Next

\* The inductive invariant holds in every reachable state: positions, requests,
\* records, executed commands and verdict of the lifecycle stay consistent with
\* the tenant.
THEOREM InductiveInvariant == Spec => []IInv
  BY InitIInv, StepKeepsIInv, PTL DEF Spec

\* The variables keep their types, for every number of batches.
THEOREM TypeCorrect == Spec => []TypeOK
  <1>1. IInv => TypeOK BY DEF IInv
  <1> QED BY <1>1, InductiveInvariant, PTL

\* A reported success of a real apply is true of the tenant.
THEOREM SuccessTheorem == Spec => []SuccessIsTrue
  <1>1. IInv => SuccessIsTrue
    <2> SUFFICES ASSUME IInv, outcome = "success", apply
                 PROVE  /\ 1..Cut[n] \subseteq done
                        /\ mode = "sync_v2" /\ n > 0 => Succeeded(job[Finalization])
      BY DEF SuccessIsTrue
    <2>1. batch = n + 1 /\ (mode = "sync_v2" /\ n > 0 => Succeeded(job[Finalization]))
      BY DEF IInv, Verdict
    <2>2. applied = Cut[n] BY <2>1 DEF IInv, TypeOK, Position
    <2> QED BY <2>1, <2>2 DEF IInv, Executed
  <1> QED BY <1>1, InductiveInvariant, PTL

\* The tenant holds a request or a job of a batch only if every earlier batch
\* ended in success, and a finalization only if all of them did.
THEOREM StagedTheorem == Spec => []StagedBatches
  <1>1. ASSUME IInv, NEW b \in 1..N, ~Untouched(b), NEW a \in 1..(b-1)
        PROVE  Succeeded(job[a])
    <2>1. b <= batch BY <1>1 DEF IInv, TypeOK, Sent
    <2>2. a \in 1..N /\ a < batch BY <1>1, <2>1, NAssumption DEF IInv, TypeOK
    <2> QED BY <1>1, <2>2 DEF IInv, Sent
  <1>2. ASSUME IInv, ~Untouched(Finalization)
        PROVE  mode = "sync_v2" /\ \A b \in 1..n : Succeeded(job[b])
    <2>1. batch = n + 1 /\ mode = "sync_v2" BY <1>2 DEF IInv, Sent
    <2>2. \A b \in 1..n : b \in 1..N /\ b < batch
      BY <1>2, <2>1, NAssumption DEF IInv, TypeOK
    <2> QED BY <1>2, <2>1, <2>2 DEF IInv, Sent
  <1>3. IInv => StagedBatches BY <1>1, <1>2 DEF StagedBatches
  <1> QED BY <1>3, InductiveInvariant, PTL

\* applied_count never over-reports, and under-reports by the commands of the
\* batch in doubt at most.
THEOREM AppliedCountTheorem == Spec => []AppliedCountBracketsTenant
  <1>1. IInv => AppliedCountBracketsTenant
    <2> SUFFICES ASSUME IInv PROVE AppliedCountBracketsTenant OBVIOUS
    <2>1. 1..applied \subseteq done BY DEF IInv, Executed
    <2>2. applied = Cut[batch-1] BY DEF IInv, Position
    <2>3. ASSUME batch <= n
          PROVE  done \subseteq 1..(applied + Cut[batch] - Cut[batch-1])
      <3>1. batch \in 1..N BY <2>3, NAssumption DEF IInv, TypeOK
      <3>2. Cut[batch] \in Nat /\ Cut[batch-1] \in Nat /\ Cut[batch-1] <= Cut[batch]
        BY <3>1, CutFacts
      <3>3. applied + Cut[batch] - Cut[batch-1] = Cut[batch]
        BY <2>2, <3>2
      <3>4. done \subseteq 1..Cut[batch]
        BY <3>2 DEF IInv, Executed
      <3> QED BY <3>3, <3>4
    <2>4. ASSUME batch = n + 1 PROVE done = 1..applied
      <3>1. ~BatchSent
        <4>1. n \in Nat /\ ~(batch <= n) BY <2>4 DEF IInv, TypeOK
        <4> QED BY <4>1 DEF BatchSent
      <3> QED BY <2>1, <2>2, <3>1 DEF IInv, Executed
    <2> QED BY <2>1, <2>3, <2>4 DEF AppliedCountBracketsTenant
  <1> QED BY <1>1, InductiveInvariant, PTL

\* The returned report names every write that reached, or may reach, the tenant.
THEOREM ReportTheorem == Spec => []ReportIsComplete
  <1>1. IInv => ReportIsComplete
    <2> SUFFICES ASSUME IInv, pc = "done" PROVE ReportIsComplete
      BY DEF ReportIsComplete
    <2>1. ASSUME NEW b \in 1..N, records[b].submission_state = "not_attempted"
          PROVE  Untouched(b)
      <3>1. b >= batch BY <2>1 DEF IInv, TypeOK, Recorded
      <3>2. ~(b = batch /\ BatchSent) BY <2>1 DEF BatchSent
      <3> QED BY <3>1, <3>2 DEF IInv, Sent
    <2>2. finalization.submission_state = "not_attempted" => Untouched(Finalization)
      BY DEF IInv, Sent, FinalizeSent
    <2> QED BY <2>1, <2>2 DEF ReportIsComplete, IInv, Recorded
  <1> QED BY <1>1, InductiveInvariant, PTL

\* An identifier occupied when the execution began blocks every write.
THEOREM CollisionTheorem == Spec => []OccupiedIdentifierBlocksWrites
  <1>1. IInv => OccupiedIdentifierBlocksWrites
    BY DEF IInv, Proved, OccupiedIdentifierBlocksWrites
  <1> QED BY <1>1, InductiveInvariant, PTL

-----------------------------------------------------------------------------
(* What a step may never do.                                               *)

\* Only the two submissions put a request on the wire.
LEMMA WireGrowth ==
    ASSUME IInv, [Next]_vars, ~(wire' \subseteq wire)
    PROVE  SubmitBatch \/ SubmitFinalize
  <1> SUFFICES ASSUME ~SubmitBatch, ~SubmitFinalize PROVE wire' \subseteq wire OBVIOUS
  <1>1. CASE Client
    BY <1>1 DEF Client, NothingToDo, LacksJobSupport, StartProof, ProofComplete,
       LookupFindsNothing, LookupRefuses, BatchHasJob, BatchUncertain, BatchUnobserved,
       BatchFails, BatchSucceeds, FinalizeHasJob, FinalizeUncertain, FinalizeUnobserved,
       FinalizeObserved
  <1>2. CASE Tenant
    BY <1>2 DEF Tenant, AcceptRequest, LoseRequest, BatchJobStep, FinalizationJobStep,
       OtherClientCreates
  <1>3. CASE UNCHANGED vars BY <1>3 DEF vars
  <1> QED BY <1>1, <1>2, <1>3 DEF Next, Terminated

\* Every write is a first one, and none follows a doubt.
THEOREM NoWriteAfterDoubtTheorem == Spec => NoWriteAfterDoubt
  <1>1. ASSUME IInv, [Next]_vars, NEW s \in wire' \ wire
        PROVE  /\ apply
               /\ \A b \in 1..N : ~InDoubt(records[b])
               /\ ~InDoubt(finalization)
    <2>1. pc \in {"submit", "finalize"}
      BY <1>1, WireGrowth DEF SubmitBatch, SubmitFinalize
    <2>2. apply BY <1>1, <2>1 DEF IInv, Position, Running
    <2>3. ~InDoubt(finalization) BY <1>1, <2>1 DEF IInv, Recorded, InDoubt
    <2>4. ASSUME NEW b \in 1..N PROVE ~InDoubt(records[b])
      <3>1. CASE b < batch BY <1>1, <3>1 DEF IInv, Recorded, InDoubt
      <3>2. CASE b >= batch BY <1>1, <2>1, <3>2 DEF IInv, TypeOK, Recorded, InDoubt
      <3> QED BY <1>1, <3>1, <3>2 DEF IInv, TypeOK
    <2> QED BY <2>2, <2>3, <2>4
  <1>2. ASSUME IInv, [Next]_vars, NEW s \in wire' \ wire
        PROVE  /\ ~Exists(job[s])
               /\ s # Finalization => records[s].submission_state = "not_attempted"
    <2>1. CASE SubmitBatch
      <3>1. s = batch BY <1>2, <2>1 DEF SubmitBatch
      <3>2. batch \in 1..N /\ ~BatchSent
        BY <1>2, <2>1, NAssumption
        DEF SubmitBatch, IInv, TypeOK, Position, Recorded, BatchSent
      <3> QED BY <1>2, <2>1, <3>1, <3>2
              DEF SubmitBatch, IInv, TypeOK, Sent, Recorded, Untouched
    <2>2. CASE SubmitFinalize
      <3>1. s = Finalization BY <1>2, <2>2 DEF SubmitFinalize
      <3>2. ~FinalizeSent BY <1>2, <2>2 DEF SubmitFinalize, IInv, Recorded, FinalizeSent
      <3> QED BY <1>2, <3>1, <3>2 DEF IInv, Sent, Untouched
    <2> QED BY <1>2, <2>1, <2>2, WireGrowth
  <1>3. IInv /\ [Next]_vars => [FirstCertainWrite]_vars
    BY <1>1, <1>2 DEF FirstCertainWrite
  <1> QED BY <1>3, InductiveInvariant, PTL DEF Spec, NoWriteAfterDoubt

-----------------------------------------------------------------------------
(* Refinement: the lifecycle implements the staged application.            *)

AbstractOpen == IF BatchSent THEN batch ELSE batch - 1
AbstractVerdict == CASE outcome = "none"              -> "pending"
                     [] outcome = "success" /\ apply -> "success"
                     [] OTHER                         -> "no_claim"

LEMMA VerdictCases ==
    /\ outcome = "none" => AbstractVerdict = "pending"
    /\ outcome = "success" /\ apply => AbstractVerdict = "success"
    /\ (outcome # "none" /\ ~(outcome = "success" /\ apply)) => AbstractVerdict = "no_claim"
  BY DEF AbstractVerdict

LEMMA AbstractInit == Init => Abstract!Init
  <1> SUFFICES ASSUME Init PROVE Abstract!Init OBVIOUS
  <1>1. ~BatchSent
    <2>1. batch <= n => batch \in 1..N BY NAssumption DEF Init
    <2> QED BY <2>1 DEF Init, BatchSent, NotAttempted
  <1>2. AbstractOpen = 0 BY <1>1 DEF AbstractOpen, Init
  <1>3. AbstractVerdict = "pending" BY VerdictCases DEF Init
  <1> QED BY <1>2, <1>3 DEF Abstract!Init, Init, AbstractOpen, AbstractVerdict

\* A step that keeps what StagedApply sees is a stuttering step of it.
LEMMA AbstractStutter ==
    ASSUME UNCHANGED <<n, done, apply, outcome>>, AbstractOpen' = AbstractOpen
    PROVE  UNCHANGED Abstract!vars
  <1>1. AbstractVerdict' = AbstractVerdict BY DEF AbstractVerdict
  <1> QED BY <1>1 DEF Abstract!vars, AbstractOpen, AbstractVerdict

\* A step that ends the execution gives a verdict, a true one.
LEMMA AbstractEnd ==
    ASSUME IInv, IInv', UNCHANGED <<n, done, apply>>,
           AbstractOpen' = AbstractOpen, outcome = "none", outcome' # "none"
    PROVE  Abstract!Succeed \/ Abstract!GiveUp
  <1>1. AbstractVerdict = "pending" BY VerdictCases
  <1>2. CASE outcome' = "success" /\ apply'
    <2>1. AbstractVerdict' = "success" BY <1>2 DEF AbstractVerdict
    <2>2. batch' = n' + 1 BY <1>2 DEF IInv, Verdict
    <2>3. ~BatchSent'
      <3>1. n' \in Nat /\ ~(batch' <= n') BY <2>2 DEF IInv, TypeOK
      <3> QED BY <3>1 DEF BatchSent
    <2>4. done' = 1..Cut[n']
      <3>1. applied' = Cut[n'] BY <2>2 DEF IInv, TypeOK, Position
      <3>2. batch' - 1 = n' BY <2>2 DEF IInv, TypeOK
      <3> QED BY <2>3, <3>1, <3>2 DEF IInv, Executed
    <2> QED BY <1>1, <2>1, <2>4 DEF Abstract!Succeed, AbstractOpen, AbstractVerdict
  <1>3. CASE ~(outcome' = "success" /\ apply')
    <2>1. AbstractVerdict' = "no_claim" BY <1>3 DEF AbstractVerdict
    <2> QED BY <1>1, <2>1 DEF Abstract!GiveUp, AbstractOpen, AbstractVerdict
  <1> QED BY <1>2, <1>3

LEMMA AbstractOpening == IInv /\ SubmitBatch => Abstract!OpenStage
  <1> SUFFICES ASSUME IInv, SubmitBatch PROVE Abstract!OpenStage OBVIOUS
  <1>1. batch \in 1..N /\ batch <= n /\ apply' = apply
    BY NAssumption DEF IInv, TypeOK, Position, SubmitBatch, config
  <1>2. ~BatchSent BY <1>1 DEF BatchSent, IInv, Recorded, SubmitBatch
  <1>3. BatchSent' BY <1>1 DEF BatchSent, SubmitBatch, GoTo, config
  <1>4. AbstractOpen = batch - 1 /\ AbstractOpen' = (batch - 1) + 1
    BY <1>1, <1>2, <1>3 DEF AbstractOpen, SubmitBatch
  <1>5. AbstractVerdict = "pending" /\ AbstractVerdict' = AbstractVerdict
    <2>1. outcome = "none" BY DEF IInv, Position, SubmitBatch
    <2> QED BY <2>1, <1>1, VerdictCases DEF SubmitBatch, GoTo, AbstractVerdict
  <1>6. ASSUME batch - 1 > 0 PROVE Abstract!Stage(batch - 1) \subseteq done
    <2>1. batch - 1 \in 1..N /\ batch - 1 < batch BY <1>1, <1>6, NAssumption
    <2> QED BY <2>1 DEF IInv, Sent, Executed, BatchCommands, Abstract!Stage
  <1>7. batch - 1 < n BY <1>1, NAssumption DEF IInv, TypeOK
  <1> QED
    BY <1>4, <1>5, <1>6, <1>7
    DEF Abstract!OpenStage, AbstractOpen, AbstractVerdict, SubmitBatch, tenant, config

LEMMA AbstractEffect ==
    ASSUME IInv, NEW b \in 1..N, NEW j \in RemoteJob, BatchJobStep(b, j)
    PROVE  \E part \in SUBSET Abstract!Stage(b) : Abstract!TakeEffect(part)
  <1>1. PICK part \in SUBSET BatchCommands(b) : done' = done \cup part
    BY DEF BatchJobStep
  <1>2. b \in Slots /\ job[b] \in RemoteJob BY NAssumption DEF Slots, IInv, TypeOK
  <1>3. Exists(job[b]) /\ ~Succeeded(job[b])
    BY <1>2, SuccessIsFinal DEF BatchJobStep
  <1>4. b = batch /\ BatchSent
    BY <1>2, <1>3 DEF IInv, TypeOK, Sent, Untouched
  <1>5. AbstractOpen = b /\ AbstractOpen' = AbstractOpen /\ AbstractVerdict' = AbstractVerdict
    BY <1>4 DEF AbstractOpen, AbstractVerdict, BatchSent, BatchJobStep, client, config
  <1>6. Abstract!TakeEffect(part)
    BY <1>1, <1>5 DEF Abstract!TakeEffect, Abstract!Stage, BatchCommands, AbstractOpen,
       AbstractVerdict, BatchJobStep, config
  <1> QED BY <1>1, <1>6 DEF BatchCommands, Abstract!Stage

\* A client step that leaves the stage open as it was gives a verdict or stutters.
LEMMA AbstractQuiet ==
    ASSUME IInv, IInv', UNCHANGED <<n, done, apply>>, AbstractOpen' = AbstractOpen,
           pc # "done"
    PROVE  [Abstract!Next]_Abstract!vars
  <1>1. outcome = "none" BY DEF IInv, Position
  <1>2. CASE outcome' = "none" BY <1>1, <1>2, AbstractStutter
  <1>3. CASE outcome' # "none" BY <1>1, <1>3, AbstractEnd DEF Abstract!Next
  <1> QED BY <1>2, <1>3

LEMMA AbstractStep == IInv /\ IInv' /\ [Next]_vars => [Abstract!Next]_Abstract!vars
  <1> SUFFICES ASSUME IInv, IInv', [Next]_vars PROVE [Abstract!Next]_Abstract!vars
    OBVIOUS
  <1>1. CASE SubmitBatch BY <1>1, AbstractOpening DEF Abstract!Next
  <1>2. ASSUME NEW view \in JobView, BatchSucceeds(view)
        PROVE  [Abstract!Next]_Abstract!vars
    <2>1. BatchSent
      BY <1>2 DEF BatchSucceeds, BatchSent, IInv, Position
    <2>2. batch' = batch + 1 /\ pc # "done" /\ UNCHANGED <<n, done, apply>>
      BY <1>2 DEF BatchSucceeds, config, tenant
    <2>3. ~BatchSent'
      <3>1. ASSUME batch' <= n' PROVE records'[batch'].submission_state = "not_attempted"
        <4>1. batch + 1 \in 1..N /\ records'[batch+1] = records[batch+1]
          BY <1>2, <2>2, <3>1, NAssumption DEF IInv, TypeOK, BatchSucceeds
        <4> QED BY <2>2, <4>1 DEF IInv, TypeOK, Recorded
      <3>2. pc' \in {"submit", "finalize", "done"}
        BY <1>2 DEF BatchSucceeds, GoTo, Stop
      <3> QED BY <3>1, <3>2 DEF BatchSent
    <2>4. AbstractOpen' = AbstractOpen
      BY <2>1, <2>2, <2>3 DEF AbstractOpen, IInv, TypeOK
    <2> QED BY <2>2, <2>4, AbstractQuiet
  <1>3. CASE Client /\ ~SubmitBatch /\ ~(\E view \in JobView : BatchSucceeds(view))
    <2>1. pc # "done" /\ UNCHANGED <<n, done, apply, batch>>
      BY <1>3 DEF Client, NothingToDo, LacksJobSupport, StartProof, ProofComplete, NextLookup,
         LookupFindsNothing, LookupRefuses, BatchHasJob, BatchUncertain, BatchUnobserved,
         BatchFails, SubmitFinalize, FinalizeHasJob, FinalizeUncertain, FinalizeUnobserved,
         FinalizeObserved, config, tenant
    <2>2. BatchSent' <=> BatchSent
      <3>1. CASE BatchUncertain \/ BatchUnobserved \/ (\E view \in JobView : BatchFails(view))
        <4>1. PICK attempt : BatchStops(attempt) BY <3>1, BatchStopActions
        <4>2. batch \in 1..N /\ batch <= n
          BY <4>1, NAssumption DEF BatchStops, IInv, TypeOK, Position
        <4>3. records'[batch] = attempt BY <4>1, <4>2 DEF BatchStops, IInv, TypeOK
        <4> QED BY <2>1, <4>1, <4>2, <4>3 DEF BatchStops, BatchSent
      <3>2. CASE ~(BatchUncertain \/ BatchUnobserved \/ (\E view \in JobView : BatchFails(view)))
        <4>1. /\ records' = records
              /\ pc \in {"submitted", "observe"} <=> pc' \in {"submitted", "observe"}
          BY <1>3, <3>2 DEF Client, NothingToDo, LacksJobSupport, StartProof, ProofComplete,
             NextLookup, LookupFindsNothing, LookupRefuses, BatchHasJob, SubmitFinalize,
             FinalizeHasJob, FinalizeUncertain, FinalizeUnobserved, FinalizeObserved, Stop, GoTo
        <4> QED BY <2>1, <4>1 DEF BatchSent
      <3> QED BY <3>1, <3>2
    <2> QED BY <2>1, <2>2, AbstractQuiet DEF AbstractOpen
  <1>4. CASE Tenant
    <2>1. ASSUME NEW b \in 1..N, NEW j \in RemoteJob, BatchJobStep(b, j)
          PROVE  Abstract!Next
      BY <2>1, AbstractEffect DEF Abstract!Next
    <2>2. ASSUME UNCHANGED <<config, client, done>> PROVE UNCHANGED Abstract!vars
      <3>1. AbstractOpen' = AbstractOpen
        BY <2>2 DEF AbstractOpen, BatchSent, client, config
      <3> QED BY <2>2, <3>1, AbstractStutter DEF client, config
    <2> QED
      BY <1>4, <2>1, <2>2
      DEF Tenant, AcceptRequest, LoseRequest, FinalizationJobStep, OtherClientCreates, tenant
  <1>5. CASE UNCHANGED vars
    <2>1. AbstractOpen' = AbstractOpen
      BY <1>5 DEF AbstractOpen, BatchSent, vars, client, config
    <2> QED BY <1>5, <2>1, AbstractStutter DEF vars, client, config, tenant
  <1> QED BY <1>1, <1>2, <1>3, <1>4, <1>5 DEF Next, Terminated

\* Every behaviour of the lifecycle is, step by step, a staged application:
\* the safety part of ImplementsStagedApply.
THEOREM StagedApplyRefinement == Spec => Abstract!Init /\ [][Abstract!Next]_Abstract!vars
  BY AbstractInit, AbstractStep, InductiveInvariant, PTL DEF Spec
====
