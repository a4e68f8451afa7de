---- MODULE JobObservation ----
(***************************************************************************)
(* What one observation of a Collibra job promises its caller: it ends,    *)
(* whether or not the job does, with a view that some answer about the job *)
(* justified while the observation ran, or with no view at all.  This is   *)
(* the observation SyncLifecycle is built on (its Observations(job)).      *)
(***************************************************************************)
EXTENDS CollibraJobs

VARIABLES
    job,    \* the tenant's job
    seen    \* the view the observation ended with: {} before, then one view

vars == <<job, seen>>

Init == job = NewJob /\ seen = {}

JobStep == job' \in JobSuccessors(job) /\ UNCHANGED seen

Observe == /\ seen = {}
           /\ \E view \in Observations(job) \cup {NoView} : seen' = {view}
           /\ UNCHANGED job

Next == JobStep \/ Observe

Spec == Init /\ [][Next]_vars /\ WF_vars(Observe)
====
