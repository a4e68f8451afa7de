---- MODULE JobPoll_proof ----
(***************************************************************************)
(* Proofs about JobPoll, for every interval, timeout and duration of a     *)
(* fetch or a suspension: how often the tenant is asked, when a timeout is *)
(* reported, and that the loop is one observation of the job.              *)
(***************************************************************************)
EXTENDS JobPoll, TLAPS

\* The answers a loop may keep: none yet, or one that does not end it.
Open == {NoView} \cup {v \in {classify_job(p) : p \in Payload} : v.normalized_state = "non_terminal"}

\* The fetches made before the present one each took an interval.
Spaced(n) == n * Interval <= elapsed

\* Where the loop is decides how much time may have passed and what it has read.
Clock ==
    /\ fetches \in Nat /\ elapsed \in Nat
    /\ pc \in {"check", "fetch", "fetching", "answered", "done"}
    /\ pc = "check" => elapsed <= Timeout /\ (Spaced(fetches) \/ elapsed = Timeout)
    /\ pc = "fetch" => elapsed < Timeout /\ Spaced(fetches)
    /\ pc = "fetching" => elapsed < Timeout /\ fetches > 0 /\ Spaced(fetches - 1)
    /\ pc = "answered" => fetches > 0 /\ Spaced(fetches - 1)
    /\ elapsed <= Timeout + Slow
    /\ FetchesAreSpaced

Views ==
    /\ pc \in {"check", "fetch", "fetching"} => last \in Open
    /\ pc = "answered" => \E p \in Payload : last = classify_job(p)
    /\ pc # "done" => returned = NoView
    /\ returned.normalized_state = "timeout" => elapsed >= Timeout

IInv == Clock /\ Views

-----------------------------------------------------------------------------

\* n fetches at one interval each, and one more.
LEMMA OneMore ==
    ASSUME NEW n \in Nat
    PROVE  /\ (n + 1 - 1) * Interval = n * Interval
           /\ n > 0 => (n - 1) * Interval + Interval = n * Interval
           /\ n * Interval \in Nat
           /\ n > 0 => (n - 1) * Interval \in Nat
  <1>1. Interval \in Nat BY PollingAssumption
  <1>2. n > 0 => n - 1 \in Nat OBVIOUS
  <1>3. \A m \in Nat : m * Interval \in Nat BY <1>1
  <1>4. \A m \in Nat : m * Interval + Interval = (m + 1) * Interval BY <1>1
  <1>5. n > 0 => (n - 1) + 1 = n OBVIOUS
  <1>6. (n + 1) - 1 = n OBVIOUS
  <1> QED BY <1>2, <1>3, <1>4, <1>5, <1>6

\* classify_job never reports a timeout, and an answer that does not end the
\* loop is a state in which the job runs.
LEMMA Classified ==
    ASSUME NEW p \in Payload
    PROVE  /\ classify_job(p).normalized_state \in NORMALIZED \ {"timeout"}
           /\ classify_job(p).normalized_state = "non_terminal" =>
                classify_job(p).remote_state \in NON_TERMINAL_STATES
           /\ classify_job(p) = [remote_state |-> classify_job(p).remote_state,
                                 normalized_state |-> classify_job(p).normalized_state]
  BY DEF classify_job, NORMALIZED, NON_TERMINAL_STATES, Payload, REMOTE_STATES

\* Before the first answer nothing is remembered.
LEMMA NothingSeen ==
    NoView.normalized_state = "none" /\ NoView.remote_state = ""
  BY DEF NoView

\* What the loop keeps while it goes on.
LEMMA OpenViews ==
    ASSUME NEW v \in Open
    PROVE  /\ v.remote_state \in NON_TERMINAL_STATES \cup {""}
           /\ v = [remote_state |-> v.remote_state, normalized_state |-> v.normalized_state]
  <1>1. CASE v = NoView BY <1>1 DEF NoView
  <1>2. CASE v # NoView
    <2>1. PICK p \in Payload : v = classify_job(p) BY <1>2 DEF Open
    <2>2. v.normalized_state = "non_terminal" BY <1>2 DEF Open
    <2> QED BY <2>1, <2>2, Classified
  <1> QED BY <1>1, <1>2

\* A loop begins with nothing read and no time passed.
LEMMA InitIInv == Init => IInv
  <1> SUFFICES ASSUME Init PROVE IInv OBVIOUS
  <1>1. Clock
    BY PollingAssumption DEF Init, Clock, Spaced, FetchesAreSpaced
  <1>2. Views BY DEF Init, Views, Open, NoView
  <1> QED BY <1>1, <1>2 DEF IInv

\* Each step of the loop keeps the invariant (poll_until_terminal, jobs.py:339).
LEMMA StepIInv == IInv /\ [Next]_vars => IInv'
  <1> SUFFICES ASSUME IInv, [Next]_vars PROVE IInv' OBVIOUS
  <1> USE PollingAssumption DEF IInv
  <1>1. ASSUME NEW d \in 0..Slow, CheckDeadline(d) PROVE IInv'
    <2>1. elapsed' \in Nat /\ elapsed' >= elapsed /\ elapsed' <= Timeout + Slow
      BY <1>1 DEF CheckDeadline, Clock
    <2>2. elapsed < Timeout \/ elapsed' >= Timeout BY <2>1 DEF Clock
    <2>3. elapsed < Timeout => Spaced(fetches) BY <1>1 DEF CheckDeadline, Clock
    <2>4. elapsed < Timeout => Spaced(fetches)'
      BY <2>1, <2>3, <1>1, OneMore DEF CheckDeadline, Clock, Spaced
    <2>5. Clock' BY <1>1, <2>1, <2>2, <2>4 DEF CheckDeadline, Return, Clock, FetchesAreSpaced
    <2>6. Views' BY <1>1, NothingSeen DEF CheckDeadline, Return, Views
    <2> QED BY <2>5, <2>6
  <1>2. CASE Fetch
    <2>1. Clock' BY <1>2, OneMore DEF Fetch, Clock, Spaced, FetchesAreSpaced
    <2>2. Views' BY <1>2 DEF Fetch, Views
    <2> QED BY <2>1, <2>2
  <1>3. CASE FetchRaises
    <2>1. Clock' BY <1>3 DEF FetchRaises, Return, Clock, FetchesAreSpaced
    <2>2. Views' BY <1>3, NothingSeen DEF FetchRaises, Return, Views
    <2> QED BY <2>1, <2>2
  <1>4. ASSUME NEW p \in Payload, NEW d \in 0..Slow, FetchAnswers(p, d) PROVE IInv'
    <2>1. elapsed' \in Nat /\ elapsed' >= elapsed /\ elapsed' <= Timeout + Slow
      BY <1>4 DEF FetchAnswers, Clock
    <2>2. Spaced(fetches - 1)'
      BY <1>4, <2>1, OneMore DEF FetchAnswers, Clock, Spaced
    <2>3. Clock' BY <1>4, <2>1, <2>2 DEF FetchAnswers, Clock, FetchesAreSpaced
    <2>4. Views' BY <1>4, NothingSeen DEF FetchAnswers, Views
    <2> QED BY <2>3, <2>4
  <1>5. CASE ReturnAnswer
    <2>1. Clock' BY <1>5 DEF ReturnAnswer, Return, Clock, FetchesAreSpaced
    <2>2. last.normalized_state # "timeout"
      BY <1>5, Classified DEF ReturnAnswer, Views
    <2>3. Views' BY <1>5, <2>2 DEF ReturnAnswer, Return, Views
    <2> QED BY <2>1, <2>3
  <1>6. CASE ReturnTimeout
    <2>1. Clock' BY <1>6 DEF ReturnTimeout, Return, Clock, FetchesAreSpaced
    <2>2. Views' BY <1>6 DEF ReturnTimeout, Return, Views
    <2> QED BY <2>1, <2>2
  <1>7. CASE Wait
    <2>1. elapsed' \in Nat /\ elapsed' <= Timeout
          /\ (elapsed' = elapsed + Interval \/ elapsed' = Timeout)
      BY <1>7 DEF Wait, Clock
    <2>2. elapsed' = elapsed + Interval => Spaced(fetches)'
      BY <1>7, OneMore DEF Wait, Clock, Spaced
    <2>3. Clock' BY <1>7, <2>1, <2>2 DEF Wait, Clock, FetchesAreSpaced
    <2>4. last \in Open BY <1>7 DEF Wait, Views, Open
    <2>5. Views' BY <1>7, <2>4, NothingSeen DEF Wait, Views
    <2> QED BY <2>3, <2>5
  <1>8. CASE JobStep \/ Terminated \/ UNCHANGED vars
    <2>1. UNCHANGED client BY <1>8 DEF JobStep, Terminated, vars, client
    <2>2. Clock' BY <2>1 DEF client, Clock, Spaced, FetchesAreSpaced
    <2>3. Views' BY <2>1 DEF client, Views
    <2> QED BY <2>2, <2>3
  <1> QED BY <1>1, <1>2, <1>3, <1>4, <1>5, <1>6, <1>7, <1>8 DEF Next, Client

\* Where the loop is decides how much time has passed and what it has read.
THEOREM InductiveInvariant == Spec => []IInv
  BY InitIInv, StepIInv, PTL DEF Spec

\* The tenant is asked at most once per interval, whatever the interval and the
\* timeout (the wait of poll_until_terminal, jobs.py:388).
THEOREM SpacedTheorem == Spec => []FetchesAreSpaced
  <1>1. IInv => FetchesAreSpaced BY DEF IInv, Clock
  <1> QED BY <1>1, InductiveInvariant, PTL

\* A timeout is exact, whatever the durations (the deadline of
\* poll_until_terminal, jobs.py:367).
THEOREM TimeoutTheorem == Spec => []TimeoutIsExact
  <1>1. IInv => TimeoutIsExact BY DEF IInv, Clock, Views, TimeoutIsExact
  <1> QED BY <1>1, InductiveInvariant, PTL

-----------------------------------------------------------------------------
(* The refinement.                                                         *)

\* What a timeout remembers is a state of a running job, or no state.
LEMMA TimeoutIsObserved ==
    ASSUME last \in Open
    PROVE  timeout_view(last) \in Observations(job)
  <1>1. last.remote_state \in NON_TERMINAL_STATES \cup {""}
    BY OpenViews
  <1>2. timeout_view(last) = [remote_state |-> last.remote_state, normalized_state |-> "timeout"]
    <2>1. \A a, b : [[remote_state |-> a, normalized_state |-> b] EXCEPT !.normalized_state = "timeout"]
                      = [remote_state |-> a, normalized_state |-> "timeout"]
      OBVIOUS
    <2>2. last = [remote_state |-> last.remote_state, normalized_state |-> last.normalized_state]
      BY OpenViews
    <2> QED BY <2>1, <2>2, Zenon DEF timeout_view
  <1> QED BY <1>1, <1>2 DEF Observations

\* Both modules speak of the same jobs.
LEMMA SameObservations ==
    /\ Abstract!Observations(job) = Observations(job)
    /\ Abstract!NoView = NoView
    /\ Abstract!JobSuccessors(job) = JobSuccessors(job)
    /\ Abstract!NewJob = NewJob
  BY DEF Observations, NoView, JobSuccessors, NewJob, classify_job, Answers,
         NON_TERMINAL_STATES, REMOTE_RESULTS,
         Abstract!Observations, Abstract!NoView, Abstract!JobSuccessors, Abstract!NewJob,
         Abstract!classify_job, Abstract!Answers,
         Abstract!NON_TERMINAL_STATES, Abstract!REMOTE_RESULTS

\* The step an observation ends with.
LEMMA Observed ==
    ASSUME Seen = {}, job' = job, NEW view \in Observations(job) \cup {NoView}, Seen' = {view}
    PROVE  Abstract!Observe
  BY SameObservations DEF Abstract!Observe

\* A fetch or a wait is a stutter; the steps that return are the observation.
LEMMA AbstractStep == IInv /\ [Next]_vars => [Abstract!Next]_Abstract!vars
  <1> SUFFICES ASSUME IInv, [Next]_vars PROVE [Abstract!Next]_Abstract!vars OBVIOUS
  <1> USE DEF IInv, Abstract!Next, Abstract!vars
  <1>1. ASSUME NEW d \in 0..Slow, CheckDeadline(d) PROVE [Abstract!Next]_Abstract!vars
    <2>1. Seen = {} /\ job' = job BY <1>1 DEF CheckDeadline, Seen
    <2>2. CASE pc' = "fetch" BY <2>1, <2>2 DEF Seen
    <2>3. CASE Return(timeout_view(last))
      <3>1. Seen' = {timeout_view(last)} BY <2>3 DEF Return, Seen
      <3>2. timeout_view(last) \in Observations(job)
        BY <1>1, TimeoutIsObserved DEF CheckDeadline, Views
      <3> QED BY <2>1, <3>1, <3>2, Observed
    <2> QED BY <1>1, <2>2, <2>3 DEF CheckDeadline
  <1>2. CASE Fetch BY <1>2 DEF Fetch, Seen
  <1>3. CASE FetchRaises
    <2>1. Seen = {} /\ job' = job /\ Seen' = {NoView} BY <1>3 DEF FetchRaises, Return, Seen
    <2> QED BY <2>1, Observed
  <1>4. ASSUME NEW p \in Payload, NEW d \in 0..Slow, FetchAnswers(p, d)
        PROVE  [Abstract!Next]_Abstract!vars
    <2>1. Seen = {} /\ job' = job BY <1>4 DEF FetchAnswers, Seen
    <2>2. CASE last'.normalized_state = "non_terminal"
      BY <1>4, <2>1, <2>2 DEF FetchAnswers, Seen
    <2>3. CASE last'.normalized_state # "non_terminal"
      <3>1. Seen' = {last'} BY <1>4, <2>3 DEF FetchAnswers, Seen
      <3>2. last' \in Observations(job) BY <1>4, <2>3 DEF FetchAnswers, Observations
      <3> QED BY <2>1, <3>1, <3>2, Observed
    <2> QED BY <2>2, <2>3
  <1>5. CASE ReturnAnswer BY <1>5 DEF ReturnAnswer, Return, Seen
  <1>6. CASE ReturnTimeout
    <2>1. Seen = {} /\ job' = job BY <1>6 DEF ReturnTimeout, Seen
    <2>2. Seen' = {timeout_view(last)} BY <1>6 DEF ReturnTimeout, Return, Seen
    <2>3. last \in Open BY <1>6 DEF ReturnTimeout, Views, Open
    <2> QED BY <2>1, <2>2, <2>3, TimeoutIsObserved, Observed
  <1>7. CASE Wait BY <1>7 DEF Wait, Seen
  <1>8. CASE JobStep BY <1>8, SameObservations DEF JobStep, client, Seen, Abstract!JobStep
  <1>9. CASE Terminated \/ UNCHANGED vars BY <1>9 DEF Terminated, vars, client, Seen
  <1> QED BY <1>1, <1>2, <1>3, <1>4, <1>5, <1>6, <1>7, <1>8, <1>9 DEF Next, Client

\* The polling loop is, step by step, one observation of the job
\* (poll_until_terminal): the safety part of ImplementsJobObservation.
THEOREM JobObservationRefinement == Spec => Abstract!Init /\ [][Abstract!Next]_Abstract!vars
  <1>1. Init => Abstract!Init BY SameObservations DEF Init, Abstract!Init, Seen
  <1> QED BY <1>1, AbstractStep, InductiveInvariant, PTL DEF Spec
====
