---- MODULE JobPoll ----
(***************************************************************************)
(* poll_until_terminal and observe_job of integrations/collibra/jobs.py:   *)
(* one bounded observation of one job handle, against a job that moves on  *)
(* its own.  Time passes during a fetch, during the waits, and, the host   *)
(* being free to suspend the process, before the deadline is tested.       *)
(***************************************************************************)
EXTENDS Integers, CollibraJobs

CONSTANTS
    Interval,   \* interval_seconds
    Timeout,    \* timeout_seconds
    Slow        \* the longest fetch, and the longest suspension

\* What validate_job_polling_policy enforces, in whole units of time.
ASSUME PollingAssumption == /\ Interval \in Nat \ {0}
                            /\ Timeout \in Nat /\ Timeout >= Interval
                            /\ Slow \in Nat

VARIABLES
    job,        \* the tenant's job
    pc,         \* where the loop is
    elapsed,    \* monotonic_clock() - started
    last,       \* the last classified answer, NoView before the first
    returned,   \* what the caller got; NoView also when the fetch raised
    fetches     \* fetches made (history)

client == <<pc, elapsed, last, returned, fetches>>
vars == <<job, client>>

Init ==
    /\ job = NewJob
    /\ pc = "check"
    /\ elapsed = 0
    /\ last = NoView /\ returned = NoView
    /\ fetches = 0

Return(view) == pc' = "done" /\ returned' = view

CheckIgnoresDeadline(d) ==       \* mutant: only the wait looks at the clock
    /\ pc = "check"
    /\ elapsed' = elapsed + d
    /\ pc' = "fetch"
    /\ UNCHANGED <<job, last, returned, fetches>>

\* The test at the head of the loop, after a suspension of d.
CheckDeadline(d) ==
    /\ pc = "check"
    /\ elapsed' = elapsed + d
    /\ \/ elapsed' >= Timeout /\ Return(timeout_view(last))
       \/ elapsed' < Timeout /\ pc' = "fetch" /\ UNCHANGED returned
    /\ UNCHANGED <<job, last, fetches>>

Fetch ==
    /\ pc = "fetch"
    /\ pc' = "fetching"
    /\ fetches' = fetches + 1
    /\ UNCHANGED <<job, elapsed, last, returned>>

\* The GET raised an adapter error: observe_job returns no view.
FetchRaises ==
    /\ pc = "fetching"
    /\ Return(NoView)
    /\ UNCHANGED <<job, elapsed, last, fetches>>

FetchAnswers(p, d) ==
    /\ pc = "fetching"
    /\ p \in Answers(job)
    /\ last' = classify_job(p)
    /\ elapsed' = elapsed + d
    /\ pc' = "answered"
    /\ UNCHANGED <<job, returned, fetches>>

ReturnsCanceling ==              \* mutant: CANCELING is taken for an end
    /\ pc = "answered"
    /\ last.remote_state \notin {"WAITING", "RUNNING"}
    /\ Return(last)
    /\ UNCHANGED <<job, elapsed, last, fetches>>

ReturnAnswer ==
    /\ pc = "answered"
    /\ last.normalized_state # "non_terminal"
    /\ Return(last)
    /\ UNCHANGED <<job, elapsed, last, fetches>>

ReturnTimeout ==
    /\ pc = "answered"
    /\ last.normalized_state = "non_terminal"
    /\ elapsed >= Timeout
    /\ Return(timeout_view(last))
    /\ UNCHANGED <<job, elapsed, last, fetches>>

WaitHalfTheRest ==               \* mutant: waits half of the remaining time at most
    /\ pc = "answered"
    /\ last.normalized_state = "non_terminal"
    /\ elapsed < Timeout
    /\ LET half == (Timeout - elapsed + 1) \div 2
       IN  elapsed' = elapsed + (IF Interval < half THEN Interval ELSE half)
    /\ pc' = "check"
    /\ UNCHANGED <<job, last, returned, fetches>>

WaitTheInterval ==               \* mutant: not cut to the remaining time
    /\ pc = "answered"
    /\ last.normalized_state = "non_terminal"
    /\ elapsed < Timeout
    /\ elapsed' = elapsed + Interval
    /\ pc' = "check"
    /\ UNCHANGED <<job, last, returned, fetches>>

\* sleeper(min(interval_seconds, remaining)).
Wait ==
    /\ pc = "answered"
    /\ last.normalized_state = "non_terminal"
    /\ elapsed < Timeout
    /\ elapsed' = IF Interval < Timeout - elapsed THEN elapsed + Interval ELSE Timeout
    /\ pc' = "check"
    /\ UNCHANGED <<job, last, returned, fetches>>

JobStep == job' \in JobSuccessors(job) /\ UNCHANGED client

Client ==
    \/ \E d \in 0..Slow : CheckDeadline(d)
    \/ Fetch \/ FetchRaises
    \/ \E p \in Payload, d \in 0..Slow : FetchAnswers(p, d)
    \/ ReturnAnswer \/ ReturnTimeout \/ Wait

Terminated == pc = "done" /\ UNCHANGED vars

Next == Client \/ JobStep \/ Terminated

\* One thread, whose fetches return within the HTTP timeouts; the job need not
\* ever move.
Spec == Init /\ [][Next]_vars /\ WF_vars(Client)

-----------------------------------------------------------------------------
(* Properties.                                                             *)

\* The tenant is not polled faster than the interval, also when the remaining
\* time cuts the last wait short: the fetches fit the timeout, one per interval.
FetchesAreSpaced == fetches > 0 => (fetches - 1) * Interval < Timeout

\* A timeout is reported only after the whole timeout, and no fetch starts once
\* it has passed; the observation ends one fetch or suspension after the
\* deadline at the latest.
TimeoutIsExact ==
    /\ returned.normalized_state = "timeout" => elapsed >= Timeout
    /\ pc \in {"fetch", "fetching"} => elapsed < Timeout
    /\ elapsed <= Timeout + Slow

Seen == CASE pc = "done" -> {returned}
          [] pc = "answered" /\ last.normalized_state # "non_terminal" -> {last}
          [] OTHER -> {}

Abstract == INSTANCE JobObservation WITH seen <- Seen

\* The loop is one atomic observation of the job, taken when the answer that ends
\* it is read; and it ends even if the job stays RUNNING or CANCELING for ever.
ImplementsJobObservation == Abstract!Spec
====
