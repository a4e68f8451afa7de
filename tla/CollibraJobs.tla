---- MODULE CollibraJobs ----
(***************************************************************************)
(* The vocabulary of Collibra jobs and its normalisation, from             *)
(* integrations/collibra/jobs.py: what a job handle may answer, how an     *)
(* answer is classified, and what one bounded observation may report.      *)
(*                                                                         *)
(* A payload is [state, result]; "" stands for a missing, blank or         *)
(* malformed field (or body), "other" for a value outside the documented   *)
(* enumeration.  Job identifiers are left out: the callers below follow    *)
(* one handle at a time.                                                   *)
(***************************************************************************)

REMOTE_STATES == {"WAITING", "RUNNING", "CANCELING", "COMPLETED", "CANCELED", "ERROR"}
REMOTE_TERMINAL_STATES == {"COMPLETED", "CANCELED", "ERROR"}
NON_TERMINAL_STATES == {"WAITING", "RUNNING", "CANCELING"}
REMOTE_RESULTS == {"NOT_SET", "SUCCESS", "COMPLETED_WITH_ERROR", "FAILURE", "ABORTED"}

\* Normalised states a JobView may carry; "timeout" is added by timeout_view.
NORMALIZED == {"non_terminal", "terminal_success", "terminal_failure",
               "cancelled", "uncertain", "unknown", "timeout"}

Payload == [state : REMOTE_STATES \cup {"", "other"},
            result : REMOTE_RESULTS \cup {"", "other"}]

JobView == [remote_state : REMOTE_STATES \cup {"", "other"},
            normalized_state : NORMALIZED]

\* No JobView at all: the handle was not observed.
NoView == [remote_state |-> "", normalized_state |-> "none"]

CompletedIsSuccess(payload) ==   \* mutant: COMPLETED alone counts as success
    [remote_state |-> payload.state,
     normalized_state |-> IF payload.state = "COMPLETED" THEN "terminal_success"
                          ELSE IF payload.state \in NON_TERMINAL_STATES
                          THEN "non_terminal" ELSE "terminal_failure"]

\* classify_job: the normalised state alone (normalized_outcome is a function
\* of it and of the raw result, and only words an error message).
classify_job(payload) ==
    [remote_state |-> payload.state,
     normalized_state |->
        CASE payload.state = ""                   -> "uncertain"
          [] payload.state = "other"              -> "unknown"
          [] payload.state \in NON_TERMINAL_STATES -> "non_terminal"
          [] payload.state = "CANCELED"           -> "cancelled"
          [] payload.state = "ERROR"              -> "terminal_failure"
          [] payload.state = "COMPLETED" /\ payload.result \in {"", "NOT_SET"}
                                                  -> "uncertain"
          [] payload.state = "COMPLETED" /\ payload.result = "other"
                                                  -> "unknown"
          [] payload.state = "COMPLETED" /\ payload.result = "SUCCESS"
                                                  -> "terminal_success"
          [] OTHER                                -> "terminal_failure"]

timeout_view(last) == [last EXCEPT !.normalized_state = "timeout"]

is_terminal_success(view) == view.normalized_state = "terminal_success"

-----------------------------------------------------------------------------
(* The job as the Collibra server runs it (external).                      *)

NoJob == [state |-> "absent", result |-> "NOT_SET"]
NewJob == [state |-> "WAITING", result |-> "NOT_SET"]

RemoteJob == [state : REMOTE_STATES \cup {"absent"}, result : REMOTE_RESULTS]

Exists(j) == j.state # "absent"
Succeeded(j) == j.state = "COMPLETED" /\ j.result = "SUCCESS"

\* A job starts, may be asked to cancel, and ends; a COMPLETED job may publish
\* its result later than its state.  Terminal jobs with a result never change.
JobSuccessors(j) ==
    CASE j.state = "WAITING"   -> {[state |-> s, result |-> "NOT_SET"] :
                                      s \in {"RUNNING", "CANCELING", "ERROR"}}
      [] j.state = "RUNNING"   -> {[state |-> s, result |-> "NOT_SET"] :
                                      s \in {"CANCELING", "ERROR", "COMPLETED"}}
                                  \cup {[state |-> "COMPLETED", result |-> r] :
                                      r \in REMOTE_RESULTS}
      [] j.state = "CANCELING" -> {[state |-> s, result |-> "NOT_SET"] :
                                      s \in {"CANCELED", "ERROR"}}
      [] j.state = "COMPLETED" /\ j.result = "NOT_SET" ->
                                  {[state |-> "COMPLETED", result |-> r] :
                                      r \in REMOTE_RESULTS \ {"NOT_SET"}}
      [] OTHER                 -> {}

\* What one GET of the handle may answer: the job as it is, or a body whose
\* state or result the client cannot read.
Answers(j) ==
    {j} \cup {[state |-> s, result |-> j.result] : s \in {"", "other"}}
        \cup (IF j.state = "COMPLETED"
              THEN {[state |-> j.state, result |-> r] : r \in {"", "other"}}
              ELSE {})

\* What poll_until_terminal may return about job j: a classified answer that is
\* not "non_terminal", or a timeout that remembers the last answer, if any.
Observations(j) ==
    {v \in {classify_job(p) : p \in Answers(j)} : v.normalized_state # "non_terminal"}
    \cup {[remote_state |-> s, normalized_state |-> "timeout"] :
                                                      s \in NON_TERMINAL_STATES \cup {""}}
====
