---- MODULE GitHubAction_proof ----
(***************************************************************************)
(* Proofs about GitHubAction, for any workflow runs, scenarios and page    *)
(* sizes: the search that precedes a new comment finds the sticky comment  *)
(* of an earlier run, however the runs and the comments of others mix; the *)
(* exit code of a run is the verdict on what its steps have read; and the  *)
(* impact it publishes is what the graph makes reachable.                  *)
(***************************************************************************)
EXTENDS GitHubAction, ReviewImpact_proof

IsSeq(s) == s \in Seq(Range(s))

\* A run has not come to its comment yet.
Early == {"idle", "ran"} \cup RunStep

Posted(r) == \E n \in DOMAIN comments : comments[n].by = r

\* A run saw no sticky comment when its search began, or its search was disturbed.
SawNothing(s) == s.shifted \/ s.visible = {}

\* What a search has passed has no marker; what was there at its start still lies
\* ahead, within the pages it looks at.
Searched(s) ==
    /\ (s.page - 1) * PerPage <= Len(comments)
    /\ \A n \in 1..(s.page - 1) * PerPage : ~comments[n].marker
    /\ \A v \in s.visible : \E n \in DOMAIN comments :
        comments[n].marker /\ n <= PerPage * MaxPages /\ comments[n].by = v

\* The record of a run fits the comments.
Search(r, s) ==
    /\ DOMAIN s = DOMAIN Idle /\ s.shifted \in BOOLEAN
    /\ s.pc \in Early => s.page = 1
    /\ s.pc = "find" => /\ s.page \in 1..MaxPages
                        /\ s.page > 1 /\ ~s.shifted => Searched(s)
    /\ s.pc = "post" => SawNothing(s)
    /\ Posted(r) => s.pc \in {"finalize", "done"} /\ SawNothing(s)

SInv ==
    /\ DOMAIN run = Runs /\ IsSeq(comments)
    /\ \A r \in Runs : Search(r, run[r])

-----------------------------------------------------------------------------
(* Sequences and pages.                                                    *)

LEMMA SeqFacts ==
    ASSUME NEW s, IsSeq(s)
    PROVE  Len(s) \in Nat /\ DOMAIN s = 1..Len(s)
  BY DEF IsSeq

LEMMA SeqIs ==
    ASSUME NEW S, NEW s \in Seq(S)
    PROVE  IsSeq(s)
  BY DEF IsSeq, Range

\* Append keeps what was there and adds one element.
LEMMA Appended ==
    ASSUME NEW s, NEW e, IsSeq(s)
    PROVE  /\ IsSeq(Append(s, e))
           /\ Len(Append(s, e)) = Len(s) + 1
           /\ \A n \in 1..Len(s) : Append(s, e)[n] = s[n]
           /\ Append(s, e)[Len(s) + 1] = e
  <1> DEFINE S == Range(s) \cup {e}
  <1>1. s \in Seq(S) /\ e \in S BY SeqMonotonic DEF IsSeq
  <1>2. Append(s, e) \in Seq(S) BY <1>1
  <1>3. IsSeq(Append(s, e)) BY <1>2, SeqIs
  <1> HIDE DEF S
  <1> QED BY <1>1, <1>3, AppendProperties

\* What is left when one element is removed was there before.
LEMMA Removed ==
    ASSUME NEW s, IsSeq(s), NEW i \in DOMAIN s
    PROVE  /\ IsSeq(RemoveAt(s, i))
           /\ \A k \in DOMAIN RemoveAt(s, i) : \E j \in DOMAIN s : RemoveAt(s, i)[k] = s[j]
  <1> DEFINE S == Range(s)
  <1>1. s \in Seq(S) /\ i \in 1..Len(s) /\ Len(s) \in Nat BY SeqFacts DEF IsSeq
  <1> HIDE DEF S
  <1>2. SubSeq(s, 1, i - 1) \in Seq(S) /\ SubSeq(s, i + 1, Len(s)) \in Seq(S)
    <2>1. \A k \in 1..Len(s) : s[k] \in S BY <1>1
    <2> QED BY <1>1, <2>1, SubSeqProperties
  <1>3. RemoveAt(s, i) \in Seq(S) BY <1>2, ConcatProperties DEF RemoveAt
  <1>4. \A k \in DOMAIN RemoveAt(s, i) : RemoveAt(s, i)[k] \in S BY <1>3
  <1>5. \A x \in S : \E j \in DOMAIN s : x = s[j] BY DEF S, Range
  <1> QED BY <1>3, <1>4, <1>5, SeqIs

\* The comments of one page.
LEMMA PageFacts ==
    ASSUME IsSeq(comments), NEW k \in Nat \ {0}, (k - 1) * PerPage <= Len(comments)
    PROVE  /\ Len(PageItems(k)) \in Nat /\ DOMAIN PageItems(k) = 1..Len(PageItems(k))
           /\ Len(PageItems(k)) < PerPage => Len(comments) < k * PerPage
           /\ Len(PageItems(k)) >= PerPage => k * PerPage <= Len(comments)
           /\ \A n \in DOMAIN comments : n > (k - 1) * PerPage /\ n <= k * PerPage =>
                /\ n - (k - 1) * PerPage \in DOMAIN PageItems(k)
                /\ PageItems(k)[n - (k - 1) * PerPage] = comments[n]
  <1> DEFINE last == k * PerPage
             N == Len(comments)
             hi == IF last < N THEN last ELSE N
             items == PageItems(k)
  <1>1. PerPage \in Nat \ {0} /\ N \in Nat /\ DOMAIN comments = 1..N
    BY BoundAssumption, SeqFacts
  <1>2. last \in Nat /\ (k - 1) * PerPage = last - PerPage /\ last >= PerPage BY <1>1
  <1>3. items = SubSeq(comments, last - PerPage + 1, hi) BY DEF PageItems
  <1>4. (k - 1) * PerPage <= N OBVIOUS
  <1> HIDE DEF last, N, items
  <1>5. last - PerPage <= N BY <1>2, <1>4
  <1>6. hi \in Nat /\ hi <= N /\ last - PerPage + 1 \in Nat \ {0} /\ last - PerPage <= hi
    BY <1>1, <1>2, <1>5
  <1> HIDE DEF hi
  <1>7. /\ items \in Seq(Range(comments)) /\ Len(items) = hi - (last - PerPage)
        /\ \A m \in 1..hi - (last - PerPage) : items[m] = comments[last - PerPage + m]
    <2> DEFINE lo == last - PerPage + 1
    <2>1. \A m \in 1..N : comments[m] \in Range(comments) BY <1>1 DEF Range
    <2>2. lo \in Int /\ hi \in Int /\ hi - lo + 1 = hi - (last - PerPage)
      BY <1>1, <1>2, <1>6
    <2>3. \A m \in lo..hi : comments[m] \in Range(comments) BY <1>1, <1>6, <2>1
    <2>4. \A m \in 1..hi - lo + 1 : lo + m - 1 = last - PerPage + m BY <1>1, <1>2
    <2>5. (IF lo <= hi THEN hi - lo + 1 ELSE 0) = hi - (last - PerPage) BY <1>1, <1>2, <1>6
    <2>6. items = SubSeq(comments, lo, hi) BY <1>3
    <2> HIDE DEF lo
    <2> QED BY <2>2, <2>3, <2>4, <2>5, <2>6, SubSeqProperties
  <1>8. Len(items) \in Nat /\ DOMAIN items = 1..Len(items) BY <1>7, LenProperties
  <1>9. Len(items) < PerPage => N < last BY <1>1, <1>2, <1>6, <1>7 DEF hi
  <1>10. Len(items) >= PerPage => last <= N BY <1>1, <1>2, <1>6, <1>7 DEF hi
  <1>11. \A n \in 1..N : n > last - PerPage /\ n <= last =>
            /\ n - (last - PerPage) \in 1..Len(items)
            /\ items[n - (last - PerPage)] = comments[n]
    <2> SUFFICES ASSUME NEW n \in 1..N, n > last - PerPage, n <= last
                 PROVE  /\ n - (last - PerPage) \in 1..Len(items)
                        /\ items[n - (last - PerPage)] = comments[n]
      OBVIOUS
    <2>1. n <= hi BY <1>1, <1>2 DEF hi
    <2>2. n - (last - PerPage) \in 1..hi - (last - PerPage)
          /\ last - PerPage + (n - (last - PerPage)) = n
      BY <1>1, <1>2, <1>6, <2>1
    <2> QED BY <1>7, <2>2
  <1> QED BY <1>1, <1>2, <1>8, <1>9, <1>10, <1>11 DEF last, N, items

-----------------------------------------------------------------------------
(* The records of the runs.                                                *)

LEMMA IdleFacts ==
    /\ DOMAIN Idle = {"request", "pc", "phase_a", "outputs", "config", "report", "plan", "result",
                      "conflicts", "drift", "artifact", "comment", "page", "sticky", "exit",
                      "faults", "read", "visible", "shifted"}
    /\ Idle.pc = "idle" /\ Idle.page = 1 /\ Idle.shifted = FALSE
  BY DEF Idle

\* A run that has not come to its comment.
Mild(s) == DOMAIN s = DOMAIN Idle /\ s.page = 1 /\ s.shifted \in BOOLEAN

LEMMA IdleMild == Mild(Idle)
  BY IdleFacts DEF Mild

\* What the steps of the run step do to a record leaves it mild.
LEMMA RanMild ==
    ASSUME NEW s, NEW outputs, Mild(s)
    PROVE  Mild(Ran(s, outputs)) /\ Ran(s, outputs).pc = "ran"
  BY IdleFacts DEF Mild, Ran

LEMMA FaultyMild ==
    ASSUME NEW s, Mild(s)
    PROVE  Mild(Faulty(s)) /\ Faulty(s).pc = s.pc
  BY IdleFacts DEF Mild, Faulty

LEMMA ReadsMild ==
    ASSUME NEW r, NEW what, Mild(run[r])
    PROVE  Mild(ReadsOf(r, what))
  BY IdleFacts DEF Mild, ReadsOf

\* A call answers or is disturbed: the record it leaves is mild either way.
LEMMA AfterMild ==
    ASSUME NEW r, NEW answer, NEW a, Mild(run[r])
    PROVE  Mild(After(r, answer, a))
  BY ReadsMild, FaultyMild DEF After, Reading

-----------------------------------------------------------------------------
(* The steps of the runs.                                                  *)

LEMMA InitSInv == Init => SInv
  <1> SUFFICES ASSUME Init PROVE SInv OBVIOUS
  <1>1. IsSeq(comments) /\ \A n \in DOMAIN comments : comments[n].by \notin Runs
    BY CommentAssumption DEF Init, IsSeq
  <1>2. ASSUME NEW r \in Runs PROVE Search(r, run[r])
    <2>1. run[r] = Idle BY DEF Init
    <2>2. ~Posted(r) BY <1>1 DEF Posted
    <2> QED BY <2>1, <2>2, IdleFacts DEF Search, Early
  <1>3. DOMAIN run = Runs BY DEF Init
  <1> QED BY <1>1, <1>2, <1>3 DEF SInv

\* A step that leaves the comments alone: it is the record of the run that counts.
LEMMA QuietStep ==
    ASSUME SInv, NEW r \in Runs, NEW s, Step(r, s), UNCHANGED comments, Search(r, s)
    PROVE  SInv'
  <1>1. /\ DOMAIN run' = Runs /\ run'[r] = s
        /\ \A q \in Runs \ {r} : run'[q] = run[q]
    BY DEF Step, SInv
  <1>2. ASSUME NEW q \in Runs PROVE Search(q, run[q])'
    <2>1. PICK t : t = run'[q] OBVIOUS
    <2>2. Search(q, t) BY <1>1, <2>1 DEF SInv
    <2>3. Search(q, run[q])' <=> Search(q, t) BY <2>1 DEF Search, Searched, Posted, SawNothing
    <2> QED BY <2>2, <2>3
  <1>3. IsSeq(comments') BY DEF SInv
  <1> QED BY <1>1, <1>2, <1>3 DEF SInv, IsSeq

\* A run that has not come to its comment has posted none.
LEMMA EarlyRun ==
    ASSUME SInv, NEW r \in Runs, run[r].pc \in Early
    PROVE  Mild(run[r]) /\ ~Posted(r)
  BY DEF SInv, Search, Mild, Early, RunStep

LEMMA EarlyStep ==
    ASSUME SInv, NEW r \in Runs, run[r].pc \in Early, UNCHANGED comments,
           NEW s, Step(r, s), Mild(s), s.pc \in Early
    PROVE  SInv'
  <1>1. ~Posted(r) BY EarlyRun
  <1>2. Search(r, s) BY <1>1 DEF Search, Mild, Early, RunStep
  <1> QED BY <1>2, QuietStep

\* What the calls of the command line print, disturbed or not.
LEMMA AnswerForms ==
    ASSUME NEW w
    PROVE  /\ \A a \in Possible(Checked(w)) : a.form \in {"garbled", "diagnostic", "report"}
           /\ \A a \in Possible(Planned(w)) : a.form \in {"garbled", "diagnostic", "report", "plan"}
  <1> DEFINE Shape(a) == a = Answer(a.form, a.exit, a.content)
  <1>1. Shape(Checked(w)) /\ Checked(w).form \in {"diagnostic", "report"}
    BY DEF Checked, Diagnostic, Answer
  <1>2. Shape(Planned(w)) /\ Planned(w).form \in {"diagnostic", "report", "plan"}
    <2> DEFINE report == Checked(w)
    <2>1. Shape(report) /\ report.form \in {"diagnostic", "report"} BY <1>1
    <2>2. \/ Planned(w) = report
          \/ \E content : Planned(w) = Answer("plan", 0, content)
      BY DEF Planned
    <2> QED BY <2>1, <2>2 DEF Answer
  <1>3. ASSUME NEW answer, NEW a \in Possible(answer), Shape(answer)
        PROVE  a.form = answer.form \/ a.form \in {"garbled", "diagnostic"}
    <2>1. CASE a = answer BY <2>1
    <2>2. CASE a = [answer EXCEPT !.exit = Killed] BY <1>3, <2>2 DEF Answer
    <2>3. CASE a = Answer("garbled", Killed, Nothing) \/ a = Diagnostic(1)
      BY <2>3 DEF Answer, Diagnostic
    <2> QED BY <2>1, <2>2, <2>3 DEF Possible, Disturbed
  <1> HIDE DEF Shape
  <1> QED BY <1>1, <1>2, <1>3

\* The run step, from its start to its outputs.
LEMMA RunStepsKeep ==
    ASSUME SInv, NEW r \in Runs, RunSteps(r)
    PROVE  SInv'
  <1> USE DEF At, Outside
  <1>0. run[r].pc \in Early /\ UNCHANGED comments
    BY DEF RunSteps, Early, RunStep, Start, RunValidate, RunCheck, RunPlan, RunImpact, Called,
           ReviewConflicts, ReviewComparison, ReviewDrift, ReviewResult, WriteFails, CrashRun
  <1>1. Mild(run[r]) BY <1>0, EarlyRun
  <1>2. ASSUME NEW t, NEW outputs, Mild(t), Step(r, Ran(t, outputs)) PROVE SInv'
    BY <1>0, <1>2, RanMild, EarlyStep DEF Early
  <1>3. CASE Start(r)
    <2>1. PICK q \in scenario.requests[r] :
            \/ Step(r, [Idle EXCEPT !.request = q, !.pc = FirstStep(q)])
            \/ Step(r, Ran([Idle EXCEPT !.request = q, !.phase_a = TRUE],
                           Failed("action_contract_invalid")))
      BY <1>3 DEF Start
    <2>2. CASE Step(r, [Idle EXCEPT !.request = q, !.pc = FirstStep(q)])
      <3> DEFINE s == [Idle EXCEPT !.request = q, !.pc = FirstStep(q)]
      <3>1. Mild(s) /\ s.pc = FirstStep(q) BY IdleFacts DEF Mild
      <3>2. Step(r, s) BY <2>2
      <3>3. FirstStep(q) \in Early BY DEF FirstStep, Early, RunStep
      <3> HIDE DEF s
      <3> QED BY <1>0, <3>1, <3>2, <3>3, EarlyStep
    <2>3. Mild([Idle EXCEPT !.request = q, !.phase_a = TRUE]) BY IdleFacts DEF Mild
    <2> QED BY <1>2, <2>1, <2>2, <2>3
  <1>4. CASE RunValidate(r)
    <2>1. PICK a : LET record == After(r, Validated(world), a)
                   IN  \/ \E outputs : Step(r, Ran(record, outputs))
                       \/ Step(r, [record EXCEPT !.config = a.content, !.pc = "check"])
      BY <1>4 DEF RunValidate
    <2> DEFINE record == After(r, Validated(world), a)
    <2>2. Mild(record) BY <1>1, AfterMild
    <2>3. \/ \E outputs : Step(r, Ran(record, outputs))
          \/ Step(r, [record EXCEPT !.config = a.content, !.pc = "check"])
      BY <2>1
    <2> HIDE DEF record
    <2>4. CASE Step(r, [record EXCEPT !.config = a.content, !.pc = "check"])
      <3> DEFINE s == [record EXCEPT !.config = a.content, !.pc = "check"]
      <3>1. Mild(s) /\ s.pc = "check" BY <2>2, IdleFacts DEF Mild
      <3>2. Step(r, s) BY <2>4
      <3> HIDE DEF s
      <3> QED BY <1>0, <3>1, <3>2, EarlyStep DEF Early, RunStep
    <2> QED BY <1>2, <2>2, <2>3, <2>4
  <1>5. CASE RunCheck(r)
    <2>1. PICK a \in Possible(Checked(world)) :
            LET record == [After(r, Checked(world), a) EXCEPT !.report = a.content]
            IN  Step(r, CASE a.form = "garbled" -> Ran(record, Failed("action_contract_invalid"))
                          [] a.form = "diagnostic" -> Ran(record, DiagnosticFailure(a))
                          [] a.form = "report" ->
                               IF a.exit = 3 THEN Ran(record, Blocked(r))
                               ELSE IF a.exit # 0 THEN Ran(record, Failed("operational_failure"))
                               ELSE IF record.request.op = "check"
                               THEN Ran(record, Outcome("passed", "", 0))
                               ELSE [record EXCEPT !.pc = "plan"])
      BY <1>5 DEF RunCheck
    <2> DEFINE record == [After(r, Checked(world), a) EXCEPT !.report = a.content]
    <2>2. Mild(record)
      <3>1. Mild(After(r, Checked(world), a)) BY <1>1, AfterMild
      <3> QED BY <3>1, IdleFacts DEF Mild
    <2>3. a.form \in {"garbled", "diagnostic", "report"} BY AnswerForms
    <2>4. \/ \E outputs : Step(r, Ran(record, outputs))
          \/ Step(r, [record EXCEPT !.pc = "plan"])
      <3>1. CASE a.form = "garbled" BY <2>1, <3>1
      <3>2. CASE a.form = "diagnostic" BY <2>1, <3>2
      <3>3. CASE a.form = "report" BY <2>1, <3>3
      <3> QED BY <2>3, <3>1, <3>2, <3>3
    <2> HIDE DEF record
    <2>5. CASE Step(r, [record EXCEPT !.pc = "plan"])
      <3> DEFINE s == [record EXCEPT !.pc = "plan"]
      <3>1. Mild(s) /\ s.pc = "plan" BY <2>2, IdleFacts DEF Mild
      <3>2. Step(r, s) BY <2>5
      <3> HIDE DEF s
      <3> QED BY <1>0, <3>1, <3>2, EarlyStep DEF Early, RunStep
    <2> QED BY <1>2, <2>2, <2>4, <2>5
  <1>6. CASE RunPlan(r)
    <2>1. PICK a \in Possible(Planned(world)) :
            LET record == [After(r, Planned(world), a) EXCEPT !.plan = a.content]
            IN  Step(r, CASE a.form = "garbled" -> Ran(record, Failed("action_contract_invalid"))
                          [] a.form = "diagnostic" -> Ran(record, DiagnosticFailure(a))
                          [] a.form = "report" -> Ran(record, Blocked(r))
                          [] a.form = "plan" ->
                               IF a.exit # 0
                               THEN Ran(record, Failed("action_contract_invalid"))
                               ELSE IF ~Consistent(r, a.content)
                               THEN Ran(record, Failed("inputs_changed_during_run"))
                               ELSE Ran(record, [Outcome("passed", "", 0) EXCEPT !.plan_path = TRUE]))
      BY <1>6 DEF RunPlan
    <2> DEFINE record == [After(r, Planned(world), a) EXCEPT !.plan = a.content]
    <2>2. Mild(record)
      <3>1. Mild(After(r, Planned(world), a)) BY <1>1, AfterMild
      <3> QED BY <3>1, IdleFacts DEF Mild
    <2>3. a.form \in {"garbled", "diagnostic", "report", "plan"} BY AnswerForms
    <2>4. \E outputs : Step(r, Ran(record, outputs))
      <3>1. CASE a.form = "garbled" BY <2>1, <3>1
      <3>2. CASE a.form = "diagnostic" BY <2>1, <3>2
      <3>3. CASE a.form = "report" BY <2>1, <3>3
      <3>4. CASE a.form = "plan" BY <2>1, <3>4
      <3> QED BY <2>3, <3>1, <3>2, <3>3, <3>4
    <2> HIDE DEF record
    <2> QED BY <1>2, <2>2, <2>4
  <1>7. CASE RunImpact(r)
    <2> DEFINE answer == Impacted(world, run[r].request)
    <2>1. PICK a : LET record == [After(r, answer, a) EXCEPT !.result = a.content]
                   IN  \E outputs : Step(r, Ran(record, outputs))
      <3> HIDE DEF answer
      <3> QED BY <1>7 DEF RunImpact, answer
    <2> HIDE DEF answer
    <2> DEFINE record == [After(r, answer, a) EXCEPT !.result = a.content]
    <2>2. Mild(record)
      <3>1. Mild(After(r, answer, a)) BY <1>1, AfterMild
      <3> QED BY <3>1, IdleFacts DEF Mild
    <2>3. \E outputs : Step(r, Ran(record, outputs)) BY <2>1
    <2> HIDE DEF record
    <2> QED BY <1>2, <2>2, <2>3
  <1>8. CASE ReviewConflicts(r)
    <2>1. Mild(Reading(r)) BY <1>1, ReadsMild DEF Reading
    <2>2. ASSUME NEW conflicts, NEW pc \in {"comparison", "result"},
                 Step(r, [Reading(r) EXCEPT !.conflicts = conflicts, !.pc = pc])
          PROVE  SInv'
      <3> DEFINE s == [Reading(r) EXCEPT !.conflicts = conflicts, !.pc = pc]
      <3>1. Mild(s) /\ s.pc = pc BY <2>1, IdleFacts DEF Mild
      <3>2. Step(r, s) BY <2>2
      <3> HIDE DEF s
      <3> QED BY <1>0, <3>1, <3>2, EarlyStep DEF Early, RunStep
    <2> QED BY <1>2, <1>8, <2>1, <2>2 DEF ReviewConflicts, ReviewFailed
  <1>9. CASE ReviewComparison(r)
    <2> DEFINE q == run[r].request
               saved == IF HasComparison(q) THEN run[q.comparison].artifact ELSE <<>>
               what == IF saved = <<>> THEN Nothing ELSE run[q.comparison].read["comparison"]
    <2>1. Mild(ReadsOf(r, what)) /\ Mild(Reading(r)) BY <1>1, ReadsMild DEF Reading
    <2>2. ASSUME NEW s, Mild(s), s.pc = "drift", Step(r, s) PROVE SInv'
      BY <1>0, <2>2, EarlyStep DEF Early, RunStep
    <2>3. \/ Step(r, [ReadsOf(r, what) EXCEPT !.artifact = saved, !.pc = "drift"])
          \/ Step(r, ReviewFailed(ReadsOf(r, what)))
          \/ Step(r, [Reading(r) EXCEPT !.pc = "drift",
                        !.artifact = <<Compared(world.baseline, world.candidate)>>])
          \/ Step(r, ReviewFailed(Reading(r)))
      BY <1>9 DEF ReviewComparison
    <2> HIDE DEF q, saved, what
    <2>4. CASE Step(r, [ReadsOf(r, what) EXCEPT !.artifact = saved, !.pc = "drift"])
      <3> DEFINE s == [ReadsOf(r, what) EXCEPT !.artifact = saved, !.pc = "drift"]
      <3>1. Mild(s) /\ s.pc = "drift" BY <2>1, IdleFacts DEF Mild
      <3>2. Step(r, s) BY <2>4
      <3> HIDE DEF s
      <3> QED BY <2>2, <3>1, <3>2
    <2>5. CASE Step(r, [Reading(r) EXCEPT !.pc = "drift",
                          !.artifact = <<Compared(world.baseline, world.candidate)>>])
      <3> DEFINE s == [Reading(r) EXCEPT !.pc = "drift",
                          !.artifact = <<Compared(world.baseline, world.candidate)>>]
      <3>1. Mild(s) /\ s.pc = "drift" BY <2>1, IdleFacts DEF Mild
      <3>2. Step(r, s) BY <2>5
      <3> HIDE DEF s
      <3> QED BY <2>2, <3>1, <3>2
    <2>6. CASE Step(r, ReviewFailed(ReadsOf(r, what))) \/ Step(r, ReviewFailed(Reading(r)))
      BY <1>2, <2>1, <2>6 DEF ReviewFailed
    <2> QED BY <2>3, <2>4, <2>5, <2>6
  <1>10. CASE ReviewDrift(r)
    <2>1. Mild(Reading(r)) BY <1>1, ReadsMild DEF Reading
    <2>2. ASSUME NEW drift, Step(r, [Reading(r) EXCEPT !.pc = "result", !.drift = drift])
          PROVE  SInv'
      <3> DEFINE s == [Reading(r) EXCEPT !.pc = "result", !.drift = drift]
      <3>1. Mild(s) /\ s.pc = "result" BY <2>1, IdleFacts DEF Mild
      <3>2. Step(r, s) BY <2>2
      <3> HIDE DEF s
      <3> QED BY <1>0, <3>1, <3>2, EarlyStep DEF Early, RunStep
    <2> QED BY <1>2, <1>10, <2>1, <2>2 DEF ReviewDrift, ReviewFailed
  <1>11. CASE ReviewResult(r) BY <1>1, <1>2, <1>11 DEF ReviewResult
  <1>12. CASE WriteFails(r) BY <1>1, <1>2, <1>12, FaultyMild DEF WriteFails
  <1>13. CASE CrashRun(r) BY <1>1, <1>2, <1>13, FaultyMild DEF CrashRun
  <1> QED BY <1>3, <1>4, <1>5, <1>6, <1>7, <1>8, <1>9, <1>10, <1>11, <1>12, <1>13 DEF RunSteps

-----------------------------------------------------------------------------
(* The comment.                                                            *)

\* The steps before the search, and those after it that leave the comments alone.
LEMMA AroundStep ==
    ASSUME SInv, NEW r \in Runs,
           EmitCommentState(r) \/ RequestFails(r) \/ PatchComment(r) \/ Finalize(r)
    PROVE  SInv'
  <1> USE DEF At, Outside
  <1>0. /\ Search(r, run[r]) /\ UNCHANGED comments /\ DOMAIN run[r] = DOMAIN Idle
        /\ run[r].pc \in {"ran", "find", "post", "patch", "finalize"}
    BY DEF SInv, Search, EmitCommentState, RequestFails, PatchComment, Finalize
  <1>1. CASE EmitCommentState(r)
    <2> DEFINE state == CommentState(run[r].request, run[r].phase_a)
               s == [run[r] EXCEPT !.comment = state,
                        !.pc = IF state = "" THEN "find" ELSE "finalize"]
    <2>1. Step(r, s) BY <1>1 DEF EmitCommentState
    <2>2. Mild(run[r]) /\ ~Posted(r) BY <1>1, EarlyRun DEF EmitCommentState, Early
    <2> HIDE DEF state
    <2>3. Mild(s) /\ s.pc \in {"find", "finalize"} BY <2>2, IdleFacts DEF Mild
    <2> HIDE DEF s
    <2>4. 1 \in 1..MaxPages BY BoundAssumption
    <2>5. Search(r, s) BY <2>2, <2>3, <2>4 DEF Search, Mild, Early, RunStep
    <2> QED BY <1>0, <2>1, <2>5, QuietStep
  <1>2. ASSUME NEW s, Step(r, s), DOMAIN s = DOMAIN Idle, s.pc \in {"finalize", "done"},
               s.shifted = run[r].shifted, s.visible = run[r].visible
        PROVE  SInv'
    <2>1. Search(r, s) BY <1>0, <1>2 DEF Search, Early, RunStep, SawNothing
    <2> QED BY <1>0, <1>2, <2>1, QuietStep
  <1>3. ASSUME NEW t, NEW status, t \in {run[r], Faulty(run[r])},
               Step(r, Published(t, status))
        PROVE  SInv'
    <2>1. DOMAIN t = DOMAIN Idle /\ t.shifted = run[r].shifted /\ t.visible = run[r].visible
      BY <1>0, <1>3, IdleFacts DEF Faulty
    <2> DEFINE s == Published(t, status)
    <2>2. /\ DOMAIN s = DOMAIN Idle /\ s.pc = "finalize"
          /\ s.shifted = run[r].shifted /\ s.visible = run[r].visible
      BY <2>1, IdleFacts DEF Published
    <2> HIDE DEF s
    <2>3. Step(r, s) BY <1>3 DEF s
    <2> QED BY <1>2, <2>2, <2>3
  <1>4. CASE RequestFails(r) BY <1>3, <1>4 DEF RequestFails
  <1>5. CASE PatchComment(r) BY <1>3, <1>5 DEF PatchComment
  <1>6. CASE Finalize(r)
    <2>1. PICK exit : Step(r, [run[r] EXCEPT !.pc = "done", !.exit = exit]) BY <1>6 DEF Finalize
    <2> DEFINE s == [run[r] EXCEPT !.pc = "done", !.exit = exit]
    <2>2. /\ DOMAIN s = DOMAIN Idle /\ s.pc = "done"
          /\ s.shifted = run[r].shifted /\ s.visible = run[r].visible
      BY <1>0, IdleFacts
    <2>3. Step(r, s) BY <2>1
    <2> HIDE DEF s
    <2> QED BY <1>2, <2>2, <2>3
  <1> QED BY <1>1, <1>4, <1>5, <1>6

\* The search: a page without the comment is passed, and after the last page there
\* is none to be found (find_sticky_comment, github_ci/comment.py:97).
LEMMA FindStep ==
    ASSUME SInv, NEW r \in Runs, FindPage(r)
    PROVE  SInv'
  <1> DEFINE k == run[r].page
             items == PageItems(k)
             found == {n \in DOMAIN items : items[n].marker}
             visible == {comments[n].by : n \in {m \in Markers : m <= PerPage * MaxPages}}
             record == IF k > 1 THEN run[r] ELSE [run[r] EXCEPT !.visible = visible]
  <1>1. /\ run[r].pc = "find" /\ UNCHANGED comments /\ Search(r, run[r])
        /\ DOMAIN run[r] = DOMAIN Idle /\ run[r].shifted \in BOOLEAN /\ k \in 1..MaxPages
        /\ ~Posted(r) /\ IsSeq(comments)
    BY DEF FindPage, At, Outside, SInv, Search
  <1>2. /\ PerPage \in Nat \ {0} /\ MaxPages \in Nat \ {0} /\ k \in Nat \ {0}
        /\ Len(comments) \in Nat /\ DOMAIN comments = 1..Len(comments)
    BY <1>1, BoundAssumption, SeqFacts
  <1>3. \/ Step(r, Published(run[r], "failed"))
        \/ \E sticky : Step(r, [record EXCEPT !.sticky = sticky, !.pc = "patch"])
        \/ /\ found = {} /\ (Len(items) < PerPage \/ k = MaxPages)
           /\ Step(r, [record EXCEPT !.pc = "post"])
        \/ /\ found = {} /\ ~(Len(items) < PerPage \/ k = MaxPages)
           /\ Step(r, [record EXCEPT !.page = k + 1])
    BY DEF FindPage
  <1>4. /\ DOMAIN record = DOMAIN Idle /\ record.shifted = run[r].shifted
        /\ record.pc = "find" /\ record.page = k
    BY <1>1, IdleFacts
  <1>5. ASSUME ~record.shifted
        PROVE  /\ (k - 1) * PerPage <= Len(comments)
               /\ \A n \in 1..(k - 1) * PerPage : ~comments[n].marker
               /\ \A v \in record.visible : \E n \in DOMAIN comments :
                    comments[n].marker /\ n <= PerPage * MaxPages /\ comments[n].by = v
    <2>1. CASE k > 1
      <3>1. record = run[r] BY <2>1
      <3> QED BY <1>1, <1>4, <1>5, <2>1, <3>1 DEF Search, Searched
    <2>2. CASE ~(k > 1)
      <3>1. (k - 1) * PerPage = 0
        <4>1. k = 1 BY <1>2, <2>2
        <4> QED BY <1>2, <4>1
      <3>2. record.visible = visible BY <1>1, <2>2, IdleFacts
      <3>3. \A v \in visible : \E n \in DOMAIN comments :
                comments[n].marker /\ n <= PerPage * MaxPages /\ comments[n].by = v
        BY DEF Markers
      <3> HIDE DEF k, record, visible
      <3> QED BY <1>2, <3>1, <3>2, <3>3
    <2> QED BY <2>1, <2>2
  <1> HIDE DEF record, visible
  <1>6. ASSUME ~record.shifted, found = {}
        PROVE  /\ Len(items) < PerPage => Len(comments) < k * PerPage
               /\ Len(items) >= PerPage => k * PerPage <= Len(comments)
               /\ \A n \in DOMAIN comments : n <= k * PerPage => ~comments[n].marker
    <2>1. (k - 1) * PerPage <= Len(comments) BY <1>5, <1>6
    <2>2. /\ Len(items) < PerPage => Len(comments) < k * PerPage
          /\ Len(items) >= PerPage => k * PerPage <= Len(comments)
          /\ \A n \in DOMAIN comments : n > (k - 1) * PerPage /\ n <= k * PerPage =>
               /\ n - (k - 1) * PerPage \in DOMAIN items
               /\ items[n - (k - 1) * PerPage] = comments[n]
      BY <1>1, <1>2, <2>1, PageFacts
    <2>3. ASSUME NEW n \in DOMAIN comments, n <= k * PerPage
          PROVE  ~comments[n].marker
      <3> DEFINE before == (k - 1) * PerPage
      <3>0. before \in Int BY <1>2
      <3>1. CASE n <= before
        <4>1. n \in 1..before BY <1>2, <3>0, <3>1
        <4> QED BY <1>5, <1>6, <4>1
      <3>2. CASE n > before
        <4>1. n - before \in DOMAIN items /\ items[n - before] = comments[n] BY <2>2, <2>3, <3>2
        <4> QED BY <1>6, <4>1
      <3> HIDE DEF before
      <3> QED BY <1>2, <3>0, <3>1, <3>2
    <2> QED BY <2>2, <2>3
  <1>7. Len(items) \in Nat \/ record.shifted
    BY <1>1, <1>2, <1>4, <1>5, PageFacts
  <1> HIDE DEF items, found, k
  <1>8. CASE Step(r, Published(run[r], "failed"))
    <2> DEFINE s == Published(run[r], "failed")
    <2>1. DOMAIN s = DOMAIN Idle /\ s.pc = "finalize" /\ s.shifted = run[r].shifted
      BY <1>1, IdleFacts DEF Published
    <2>2. Step(r, s) BY <1>8
    <2> HIDE DEF s
    <2>3. Search(r, s) BY <1>1, <2>1 DEF Search, Early, RunStep
    <2> QED BY <1>1, <2>2, <2>3, QuietStep
  <1>9. ASSUME NEW sticky, Step(r, [record EXCEPT !.sticky = sticky, !.pc = "patch"])
        PROVE  SInv'
    <2> DEFINE s == [record EXCEPT !.sticky = sticky, !.pc = "patch"]
    <2>1. DOMAIN s = DOMAIN Idle /\ s.pc = "patch" /\ s.shifted = run[r].shifted
      BY <1>4, IdleFacts
    <2>2. Step(r, s) BY <1>9
    <2> HIDE DEF s
    <2>3. Search(r, s) BY <1>1, <2>1 DEF Search, Early, RunStep
    <2> QED BY <1>1, <2>2, <2>3, QuietStep
  <1>10. CASE /\ found = {} /\ (Len(items) < PerPage \/ k = MaxPages)
              /\ Step(r, [record EXCEPT !.pc = "post"])
    <2> DEFINE s == [record EXCEPT !.pc = "post"]
    <2>1. /\ DOMAIN s = DOMAIN Idle /\ s.pc = "post" /\ s.shifted = record.shifted
          /\ s.visible = record.visible
      BY <1>4, IdleFacts
    <2>2. Step(r, s) BY <1>10
    <2> HIDE DEF s
    <2>3. SawNothing(s)
      <3> SUFFICES ASSUME ~record.shifted, NEW v \in record.visible PROVE FALSE
        BY <1>1, <1>4, <2>1 DEF SawNothing
      <3>1. PICK n \in DOMAIN comments :
              comments[n].marker /\ n <= PerPage * MaxPages /\ comments[n].by = v
        BY <1>5
      <3>2. ~(n <= k * PerPage) BY <1>6, <1>10, <3>1
      <3>3. n \in Nat /\ n <= Len(comments) /\ k * PerPage \in Nat BY <1>2
      <3>4. CASE Len(items) < PerPage BY <1>2, <1>6, <1>10, <3>2, <3>3, <3>4
      <3>5. CASE k = MaxPages
        <4>1. k * PerPage = PerPage * MaxPages BY <1>2, <3>5
        <4> QED BY <3>1, <3>2, <4>1
      <3> QED BY <1>10, <3>4, <3>5
    <2>4. Search(r, s) BY <1>1, <1>4, <2>1, <2>3 DEF Search, Early, RunStep
    <2> QED BY <1>1, <2>2, <2>4, QuietStep
  <1>11. CASE /\ found = {} /\ ~(Len(items) < PerPage \/ k = MaxPages)
              /\ Step(r, [record EXCEPT !.page = k + 1])
    <2> DEFINE s == [record EXCEPT !.page = k + 1]
    <2>1. /\ DOMAIN s = DOMAIN Idle /\ s.pc = "find" /\ s.shifted = record.shifted
          /\ s.visible = record.visible /\ s.page = k + 1
      BY <1>4, IdleFacts
    <2>2. Step(r, s) BY <1>11
    <2> HIDE DEF s
    <2>3. k + 1 \in 1..MaxPages /\ (k + 1) - 1 = k BY <1>1, <1>2, <1>11 DEF k
    <2>4. ASSUME ~s.shifted PROVE Searched(s)
      <3>0. ~record.shifted BY <2>1, <2>4
      <3>1. Len(items) >= PerPage BY <1>2, <1>7, <1>11, <3>0
      <3>2. k * PerPage <= Len(comments) BY <1>6, <1>11, <3>0, <3>1
      <3>3. k * PerPage \in Nat BY <1>2
      <3>4. \A n \in 1..k * PerPage : ~comments[n].marker
        <4> DEFINE end == k * PerPage
        <4>1. end \in Nat /\ end <= Len(comments) BY <3>2, <3>3
        <4>2. \A n \in DOMAIN comments : n <= end => ~comments[n].marker BY <1>6, <1>11, <3>0
        <4> HIDE DEF end
        <4>3. \A n \in 1..end : n \in DOMAIN comments /\ n <= end BY <1>2, <4>1
        <4>4. \A n \in 1..end : ~comments[n].marker BY <4>2, <4>3
        <4> QED BY <4>4 DEF end
      <3>5. (s.page - 1) * PerPage = k * PerPage BY <2>1, <2>3
      <3>6. \A v \in s.visible : \E n \in DOMAIN comments :
                comments[n].marker /\ n <= PerPage * MaxPages /\ comments[n].by = v
        BY <1>5, <2>1, <3>0
      <3> QED BY <3>2, <3>4, <3>5, <3>6 DEF Searched
    <2>5. Search(r, s) BY <1>1, <1>4, <2>1, <2>3, <2>4 DEF Search, Early, RunStep
    <2> QED BY <1>1, <2>2, <2>5, QuietStep
  <1> QED BY <1>3, <1>8, <1>9, <1>10, <1>11

-----------------------------------------------------------------------------
(* What becomes of the comments.                                           *)

\* A new comment comes last: the searches that are under way stay where they are.
LEMMA SearchesKeep ==
    ASSUME SInv, NEW e, NEW r \in Runs, NEW s, Search(r, s),
           comments' = Append(comments, e), e.by # r
    PROVE  Search(r, s)'
  <1>1. /\ IsSeq(comments) /\ Len(comments) \in Nat /\ DOMAIN comments = 1..Len(comments)
        /\ IsSeq(comments') /\ Len(comments') = Len(comments) + 1
        /\ \A n \in 1..Len(comments) : comments'[n] = comments[n]
        /\ comments'[Len(comments) + 1] = e
    BY SeqFacts, Appended DEF SInv
  <1>2. DOMAIN comments' = 1..Len(comments) + 1 BY <1>1, SeqFacts
  <1>3. (\E n \in DOMAIN comments' : comments'[n].by = r) => Posted(r)
    BY <1>1, <1>2 DEF Posted
  <1>4. ASSUME s.page \in 1..MaxPages, s.page > 1, Searched(s)
        PROVE  /\ (s.page - 1) * PerPage <= Len(comments')
               /\ \A n \in 1..(s.page - 1) * PerPage : ~comments'[n].marker
               /\ \A v \in s.visible : \E n \in DOMAIN comments' :
                    comments'[n].marker /\ n <= PerPage * MaxPages /\ comments'[n].by = v
    <2> DEFINE end == (s.page - 1) * PerPage
    <2>1. end \in Int BY <1>4, BoundAssumption
    <2>2. /\ end <= Len(comments) /\ \A n \in 1..end : ~comments[n].marker
          /\ \A v \in s.visible : \E n \in DOMAIN comments :
                comments[n].marker /\ n <= PerPage * MaxPages /\ comments[n].by = v
      BY <1>4 DEF Searched
    <2> HIDE DEF end
    <2>3. \A n \in 1..end : n \in 1..Len(comments) BY <1>1, <2>1, <2>2
    <2>4. \A n \in 1..end : ~comments'[n].marker BY <1>1, <2>2, <2>3
    <2>5. end <= Len(comments') BY <1>1, <2>1, <2>2
    <2>6. \A n \in DOMAIN comments : n \in DOMAIN comments' /\ comments'[n] = comments[n]
      BY <1>1, <1>2
    <2>7. \A v \in s.visible : \E n \in DOMAIN comments' :
            comments'[n].marker /\ n <= PerPage * MaxPages /\ comments'[n].by = v
      BY <2>2, <2>6
    <2> QED BY <2>4, <2>5, <2>7 DEF end
  <1> QED BY <1>3, <1>4 DEF Search, Searched, Posted, SawNothing

\* A run posts a comment only after it has seen none.
LEMMA PostStep ==
    ASSUME SInv, NEW r \in Runs, PostComment(r)
    PROVE  SInv'
  <1> DEFINE e == Comment(r, TRUE)
  <1>1. /\ run[r].pc = "post" /\ DOMAIN run = Runs
        /\ comments' = Append(comments, e) /\ e.by = r
        /\ Search(r, run[r]) /\ DOMAIN run[r] = DOMAIN Idle
    BY DEF PostComment, At, SInv, Search, Comment
  <1>2. PICK s : /\ Step(r, s)
                 /\ s = Published(run[r], "created") \/ s = Published(Faulty(run[r]), "failed")
    BY DEF PostComment
  <1>3. /\ DOMAIN s = DOMAIN Idle /\ s.pc = "finalize" /\ s.shifted = run[r].shifted
        /\ s.visible = run[r].visible
    <2>1. CASE s = Published(run[r], "created")
      BY <1>1, <2>1, IdleFacts DEF Published
    <2>2. CASE s = Published(Faulty(run[r]), "failed")
      <3> DEFINE t == Faulty(run[r])
      <3>1. DOMAIN t = DOMAIN Idle /\ t.shifted = run[r].shifted /\ t.visible = run[r].visible
        BY <1>1, IdleFacts DEF Faulty
      <3> HIDE DEF t
      <3>2. s = Published(t, "failed") BY <2>2 DEF t
      <3> QED BY <3>1, <3>2, IdleFacts DEF Published
    <2> QED BY <1>2, <2>1, <2>2
  <1>4. run'[r] = s /\ DOMAIN run' = Runs /\ \A q \in Runs \ {r} : run'[q] = run[q]
    BY <1>1, <1>2 DEF Step
  <1>5. IsSeq(comments') BY <1>1, Appended DEF SInv
  <1>6. Search(r, run[r])' BY <1>1, <1>3, <1>4 DEF Search, Early, RunStep, SawNothing
  <1>7. ASSUME NEW q \in Runs \ {r} PROVE Search(q, run[q])'
    <2>1. PICK t : t = run[q] OBVIOUS
    <2>2. Search(q, t)' BY <1>1, <2>1, SearchesKeep DEF SInv
    <2>3. run'[q] = t BY <1>4, <2>1
    <2> QED BY <2>2, <2>3 DEF Search, Searched, Posted, SawNothing
  <1> QED BY <1>4, <1>5, <1>6, <1>7 DEF SInv, IsSeq

\* A comment of another.
LEMMA AddStep ==
    ASSUME SInv, AddComment, "other" \notin Runs
    PROVE  SInv'
  <1>1. UNCHANGED run /\ comments' = Append(comments, Comment("other", FALSE))
    BY DEF AddComment
  <1>2. Comment("other", FALSE).by = "other" BY DEF Comment
  <1>3. IsSeq(comments') BY <1>1, Appended DEF SInv
  <1>4. ASSUME NEW q \in Runs PROVE Search(q, run[q])'
    <2>1. PICK t : t = run[q] OBVIOUS
    <2>2. Search(q, t)' BY <1>1, <1>2, <2>1, SearchesKeep DEF SInv
    <2> QED BY <1>1, <2>1, <2>2 DEF Search, Searched, Posted, SawNothing
  <1> QED BY <1>1, <1>3, <1>4 DEF SInv, IsSeq

\* A deletion adds no comment of a run, and disturbs the searches between two pages.
LEMMA DeleteStep ==
    ASSUME SInv, DeleteComment
    PROVE  SInv'
  <1>1. PICK n \in DOMAIN comments : comments' = RemoveAt(comments, n) BY DEF DeleteComment
  <1>2. /\ IsSeq(comments')
        /\ \A k \in DOMAIN comments' : \E j \in DOMAIN comments : comments'[k] = comments[j]
    BY <1>1, Removed DEF SInv
  <1>3. run' = [r \in Runs |-> [run[r] EXCEPT !.shifted = @ \/ BetweenPages(r)]]
    BY DEF DeleteComment
  <1>4. ASSUME NEW r \in Runs PROVE Search(r, run[r])'
    <2>1. Search(r, run[r]) BY DEF SInv
    <2>2. /\ DOMAIN run'[r] = DOMAIN Idle /\ run'[r].pc = run[r].pc
          /\ run'[r].page = run[r].page /\ run'[r].visible = run[r].visible
          /\ run'[r].shifted = (run[r].shifted \/ BetweenPages(r))
      BY <1>3, <2>1, IdleFacts DEF Search
    <2>3. run'[r].shifted \in BOOLEAN /\ (run[r].shifted => run'[r].shifted)
      BY <2>1, <2>2 DEF Search
    <2>4. (\E k \in DOMAIN comments' : comments'[k].by = r) => Posted(r) BY <1>2 DEF Posted
    <2>5. run[r].pc = "find" /\ run[r].page > 1 => run'[r].shifted
      BY <2>2 DEF BetweenPages, At
    <2> QED BY <2>1, <2>2, <2>3, <2>4, <2>5 DEF Search, SawNothing, Posted, Early
  <1> QED BY <1>2, <1>3, <1>4 DEF SInv, IsSeq

-----------------------------------------------------------------------------
(* The theorems.                                                           *)

\* No search passes the comment it looks for, unless comments are deleted between
\* two of its pages.
THEOREM SearchInvariance == Spec => []SInv
  <1>1. SInv /\ [Next]_vars => SInv'
    <2> SUFFICES ASSUME SInv, [Next]_vars PROVE SInv' OBVIOUS
    <2>1. ASSUME UNCHANGED <<run, comments>> PROVE SInv'
      BY <2>1 DEF SInv, Search, Searched, Posted, SawNothing
    <2>2. ChangeWorld \/ UNCHANGED vars => UNCHANGED <<run, comments>> BY DEF ChangeWorld, vars
    <2>3. ASSUME NEW r \in Runs, CommentSteps(r) PROVE SInv'
      BY <2>3, AroundStep, FindStep, PostStep DEF CommentSteps
    <2> QED BY <2>1, <2>2, <2>3, RunStepsKeep, AddStep, DeleteStep, CommentAssumption DEF Next
  <1> QED BY <1>1, InitSInv, PTL DEF Spec

\* A run posts a second sticky comment only if the first was not there when its
\* search began, lay beyond the last page, or slid between two pages
\* (create_or_update_comment, github_ci/comment.py:143).
THEOREM StickyTheorem == Spec => []OneStickyComment
  <1>1. SInv => OneStickyComment
    <2> SUFFICES ASSUME SInv, NEW m \in Markers, NEW n \in Markers, comments[n].by \in Runs
                 PROVE  LET r == comments[n].by
                        IN  comments[m].by \notin run[r].visible \/ run[r].shifted
      BY DEF OneStickyComment
    <2>1. PICK r \in Runs : r = comments[n].by OBVIOUS
    <2>2. Posted(r) BY <2>1 DEF Posted, Markers
    <2>3. SawNothing(run[r]) BY <2>2 DEF SInv, Search
    <2> QED BY <2>1, <2>3 DEF SawNothing
  <1> QED BY <1>1, SearchInvariance, PTL

-----------------------------------------------------------------------------
(* The gate.                                                               *)

Late == {"ran", "find", "post", "patch", "finalize", "done"}

\* What the properties of a run say, said of its record.
Drifted(s) ==
    UnexpectedDifference(s.read["comparison"].baseline, s.read["comparison"].candidate,
        IF s.request.policy THEN s.read["drift"].drift_policy ELSE {})

Contested(s) ==
    /\ "conflicts" \in DOMAIN s.read
    /\ Undecided(s.read["conflicts"].observations.entries,
                 RulesFor(s.read["conflicts"], s.request))

Objected(s) ==
    \/ "check" \in DOMAIN s.read /\ PolicyError(s.read["check"])
    \/ "plan" \in DOMAIN s.read /\ PolicyError(s.read["plan"])
    \/ Contested(s)
    \/ "drift" \in DOMAIN s.read /\ Drifted(s)

PlannedAsChecked(s) ==
    LET planned == s.read["plan"] checked == s.read["check"]
    IN  /\ planned.config = s.read["validate"].config
        /\ PoliciesOf(planned.policies) = PoliciesOf(checked.policies)
        /\ planned.snapshot = checked.snapshot

ComparisonUsable(s) ==
    /\ s.read["comparison"] # Nothing
    /\ HasComparison(s.request) \/ SnapshotsCompare(s.read["comparison"], s.request)

DriftUsable(s) ==
    IF s.request.policy THEN DriftPolicyLoads(s.read["drift"].drift_policy)
    ELSE LET compared == s.read["comparison"]
         IN  Projection(compared.baseline) = Projection(compared.candidate)

Usable(s) ==
    LET q == s.request read == DOMAIN s.read
    IN  /\ ~s.phase_a
        /\ read \cap {"validate", "check", "plan", "impact", "conflicts", "comparison"} # {}
        /\ \A pc \in read \cap {"validate", "check", "plan"} : ConfigLoads(s.read[pc])
        /\ \A pc \in read \cap {"check", "plan"} : PoliciesLoad(s.read[pc].policies)
        /\ "plan" \in read => PlannedAsChecked(s) \/ PolicyError(s.read["plan"])
        /\ "impact" \in read => ImpactLoads(s.read["impact"], q)
        /\ "conflicts" \in read => ConflictsLoad(s.read["conflicts"], q)
        /\ "comparison" \in read => ComparisonUsable(s)
        /\ "drift" \in read => DriftUsable(s)

-----------------------------------------------------------------------------
(* The inductive invariant.                                                *)

\* A comparison is of two snapshots that were read, and one the loader accepts.
SavedIs(s) ==
    s.artifact # <<>> =>
        /\ "comparison" \in DOMAIN s.read /\ s.read["comparison"] \in Worlds
        /\ Projects(s.read["comparison"].baseline) /\ Projects(s.read["comparison"].candidate)
        /\ s.artifact = <<Compared(s.read["comparison"].baseline,
                                   s.read["comparison"].candidate)>>
        /\ AcceptsComparison(s.artifact[1])

\* The drift lane, once it has run, says whether the snapshots drift.
DriftIs(s) ==
    s.drift.status # "not_run" => /\ DriftCoherent(s.drift)
                                  /\ s.drift.status = "unexpected_drift" <=> Drifted(s)

\* So does the conflict lane of the conflicts.
ConflictsAre(s) ==
    /\ s.conflicts.status # "not_run" => ConflictsCoherent(s.conflicts)
    /\ s.conflicts.status = "blocked" <=> Contested(s)
    /\ "conflicts" \in DOMAIN s.read => ConflictsLoad(s.read["conflicts"], s.request)

\* The comparison that the run has is usable.
ComparisonIs(s) ==
    "comparison" \in DOMAIN s.read => ComparisonUsable(s) /\ s.artifact # <<>>

ObservationRead(s) == IF s.request.observations THEN {"conflicts"} ELSE {}

\* How far a run of the operations validate, check and plan has come, with what it has read.
PolicyStage(s) ==
    /\ s.request.op \notin {"impact", "review"} /\ s.conflicts = NotRun /\ s.artifact = <<>>
    /\ s.pc = "validate" => DOMAIN s.read = {}
    /\ s.pc \in {"check", "plan"} =>
        /\ ConfigLoads(s.read["validate"]) /\ s.config = s.read["validate"].config
    /\ s.pc = "check" => DOMAIN s.read = {"validate"}
    /\ s.pc = "plan" =>
        /\ DOMAIN s.read = {"validate", "check"}
        /\ ConfigLoads(s.read["check"]) /\ PoliciesLoad(s.read["check"].policies)
        /\ s.report.policy = PoliciesOf(s.read["check"].policies)
        /\ s.report.snapshot = s.read["check"].snapshot
        /\ ~PolicyError(s.read["check"])

\* How far a review has come.
ReviewStage(s) ==
    LET q == s.request
    IN  /\ q.op = "review" /\ (q.observations \/ DriftLane(q))
        /\ s.pc = "conflicts" => DOMAIN s.read = {} /\ q.observations /\ s.conflicts = NotRun
        /\ s.pc \in {"comparison", "drift"} => DriftLane(q)
        /\ s.pc \in {"conflicts", "comparison"} => s.artifact = <<>>
        /\ s.pc # "conflicts" => ConflictsAre(s)
        /\ s.pc = "comparison" => DOMAIN s.read = ObservationRead(s)
        /\ s.pc = "drift" => DOMAIN s.read = ObservationRead(s) \cup {"comparison"}
        /\ s.pc = "result" =>
            /\ DOMAIN s.read = ObservationRead(s) \cup
                                (IF DriftLane(q) THEN {"comparison", "drift"} ELSE {})
            /\ s.drift.status = "not_run" <=> ~DriftLane(q)
            /\ "drift" \in DOMAIN s.read => DriftUsable(s)
        /\ ComparisonIs(s)

PolicySteps == {"validate", "check", "plan"}
ReviewSteps == {"conflicts", "comparison", "drift", "result"}

Stage(s) ==
    /\ ~s.phase_a
    /\ s.pc # "result" => s.drift = NotRun
    /\ s.pc \in PolicySteps => PolicyStage(s)
    /\ s.pc = "impact" => DOMAIN s.read = {} /\ s.artifact = <<>>
    /\ s.pc \in ReviewSteps => ReviewStage(s)

\* An impact that is told is that of the graph that was read.
ImpactTold(s, impact) ==
    LET w == s.read["impact"] q == s.request
    IN  /\ "impact" \in DOMAIN s.read /\ w \in Worlds /\ ImpactLoads(w, q)
        /\ s.result = ImpactResult(Graph(SourceNodes(w), SourceEdges(w)), w.changed,
                                   IF q.configured THEN <<PoliciesOf(w.policies)>> ELSE <<>>)
        /\ impact = s.result.status

Silent(o) == o.impact \notin {"clear", "impacted"}

\* What the outputs of a run step say of what it has read.
Verdicts(s) ==
    LET o == s.outputs
    IN  /\ \/ o.status = "" /\ s.faults # 0
           \/ o.status = "failed" /\ o.desired = 1 /\ (s.faults # 0 \/ ~Usable(s))
           \/ o.status = "passed" /\ o.desired = 0 /\ Usable(s) /\ ~Objected(s)
           \/ /\ o.status = "blocked" /\ o.desired = DesiredExit("blocked", s.request.failOn)
              /\ Usable(s) /\ Objected(s)
        /\ o.plan_path => PlannedAsChecked(s)
        /\ Silent(o) \/ ImpactTold(s, o.impact)

\* A run asks for a comparison of a run, or for none.
Asks(s) == s.request.op = "review" => s.request.comparison \in Runs \cup {Nowhere}

Good(s) ==
    /\ s.faults \in Nat /\ Asks(s)
    /\ SavedIs(s) /\ DriftIs(s)
    /\ s.pc = "idle" => s = Idle
    /\ s.pc \in RunStep => Stage(s)
    /\ s.pc \notin Late => s.outputs = NoOutputs
    /\ s.pc \in Late => Verdicts(s)
    /\ s.pc = "done" =>
        s.exit = (IF s.comment = "failed" \/ s.phase_a \/ s.outputs.status = "" THEN 1
                  ELSE s.outputs.desired)

GInv ==
    /\ world \in Worlds /\ scenario \in {s.may : s \in Scenarios}
    /\ \A r \in Runs : Good(run[r])

-----------------------------------------------------------------------------
(* What is said of a run and of its record is the same.                    *)

LEMMA OfTheRecord ==
    ASSUME NEW r
    PROVE  /\ Drifts(r) <=> Drifted(run[r])
           /\ Objection(r) <=> Objected(run[r])
           /\ PlanOfCheckedInputs(r) <=> PlannedAsChecked(run[r])
           /\ InputsFine(r) <=> Usable(run[r])
  <1>1. Drifts(r) <=> Drifted(run[r]) BY DEF Drifts, Drifted, ReadAt
  <1>2. PlanOfCheckedInputs(r) <=> PlannedAsChecked(run[r])
    BY DEF PlanOfCheckedInputs, PlannedAsChecked, ReadAt
  <1>3. Objection(r) <=> Objected(run[r])
    BY <1>1 DEF Objection, Objected, Contested, ReadAt
  <1>4. InputsFine(r) <=> Usable(run[r])
    BY <1>2 DEF InputsFine, Usable, ComparisonUsable, DriftUsable, ReadAt
  <1> QED BY <1>1, <1>2, <1>3, <1>4

\* They depend on the request and on what was read, and the impact on the result.
SameInputs(s, t) ==
    /\ t.read = s.read /\ t.request = s.request /\ t.phase_a = s.phase_a
    /\ t.result = s.result

LEMMA SameVerdict ==
    ASSUME NEW s, NEW t, SameInputs(s, t)
    PROVE  /\ Drifted(t) <=> Drifted(s)
           /\ Contested(t) <=> Contested(s)
           /\ Objected(t) <=> Objected(s)
           /\ PlannedAsChecked(t) <=> PlannedAsChecked(s)
           /\ Usable(t) <=> Usable(s)
           /\ \A impact : ImpactTold(t, impact) <=> ImpactTold(s, impact)
  <1>1. /\ Drifted(t) <=> Drifted(s)
        /\ Contested(t) <=> Contested(s)
        /\ PlannedAsChecked(t) <=> PlannedAsChecked(s)
        /\ ComparisonUsable(t) <=> ComparisonUsable(s)
        /\ DriftUsable(t) <=> DriftUsable(s)
    BY DEF SameInputs, Drifted, Contested, PlannedAsChecked, ComparisonUsable, DriftUsable
  <1>2. Objected(t) <=> Objected(s) BY <1>1 DEF SameInputs, Objected
  <1>3. Usable(t) <=> Usable(s) BY <1>1 DEF SameInputs, Usable
  <1>4. \A impact : ImpactTold(t, impact) <=> ImpactTold(s, impact)
    BY DEF SameInputs, ImpactTold
  <1> QED BY <1>1, <1>2, <1>3, <1>4

\* A record is a run's.
IsRun(s) == DOMAIN s = DOMAIN Idle

LEMMA RanFields ==
    ASSUME NEW s, NEW outputs, IsRun(s)
    PROVE  LET t == Ran(s, outputs) IN
           /\ IsRun(t) /\ t.pc = "ran" /\ t.outputs = outputs /\ SameInputs(s, t)
           /\ t.faults = s.faults /\ t.artifact = s.artifact /\ t.drift = s.drift
  BY IdleFacts DEF IsRun, Ran, SameInputs

LEMMA FaultyFields ==
    ASSUME NEW s, IsRun(s)
    PROVE  LET t == Faulty(s) IN
           /\ IsRun(t) /\ t.pc = s.pc /\ t.outputs = s.outputs /\ SameInputs(s, t)
           /\ t.faults = s.faults + 1 /\ t.artifact = s.artifact /\ t.drift = s.drift
           /\ t.config = s.config /\ t.report = s.report /\ t.conflicts = s.conflicts
  BY IdleFacts DEF IsRun, Faulty, SameInputs

LEMMA ReadsFields ==
    ASSUME NEW r, NEW what, IsRun(run[r])
    PROVE  LET s == run[r] t == ReadsOf(r, what) IN
           /\ IsRun(t) /\ t.pc = s.pc /\ t.outputs = s.outputs
           /\ t.request = s.request /\ t.phase_a = s.phase_a
           /\ t.faults = s.faults /\ t.artifact = s.artifact /\ t.drift = s.drift
           /\ t.config = s.config /\ t.report = s.report /\ t.conflicts = s.conflicts
           /\ DOMAIN t.read = DOMAIN s.read \cup {s.pc} /\ t.read[s.pc] = what
           /\ \A pc \in DOMAIN s.read : pc # s.pc => t.read[pc] = s.read[pc]
  <1> DEFINE s == run[r]
             t == ReadsOf(r, what)
             reads == [step \in DOMAIN s.read \cup {s.pc} |->
                            IF step = s.pc THEN what ELSE s.read[step]]
  <1>1. t = [s EXCEPT !.read = reads] BY DEF ReadsOf
  <1>2. t.read = reads BY <1>1, IdleFacts DEF IsRun
  <1>3. /\ DOMAIN reads = DOMAIN s.read \cup {s.pc} /\ reads[s.pc] = what
        /\ \A pc \in DOMAIN s.read : pc # s.pc => reads[pc] = s.read[pc]
    OBVIOUS
  <1>4. /\ IsRun(t) /\ t.pc = s.pc /\ t.outputs = s.outputs
        /\ t.request = s.request /\ t.phase_a = s.phase_a
        /\ t.faults = s.faults /\ t.artifact = s.artifact /\ t.drift = s.drift
        /\ t.config = s.config /\ t.report = s.report /\ t.conflicts = s.conflicts
    <2> HIDE DEF reads
    <2> QED BY <1>1, IdleFacts DEF IsRun
  <1> HIDE DEF reads, s, t
  <1> QED BY <1>2, <1>3, <1>4 DEF s, t

\* The outputs of a run step that has passed, or failed.
LEMMA PassedFields ==
    LET o == Outcome("passed", "", 0) IN
    /\ o.status = "passed" /\ o.desired = 0 /\ o.plan_path = FALSE /\ Silent(o)
  BY DEF Outcome, NoOutputs, Silent

LEMMA FailedFields ==
    ASSUME NEW failure
    PROVE  /\ Failed(failure).status = "failed" /\ Failed(failure).desired = 1
           /\ Failed(failure).plan_path = FALSE /\ Silent(Failed(failure))
           /\ DOMAIN Failed(failure)
                = {"status", "failure", "desired", "plan_path", "impact", "review"}
  BY DEF Failed, Outcome, NoOutputs, Silent

-----------------------------------------------------------------------------
(* Steps of one run.                                                       *)

LEMMA GoodStep ==
    ASSUME SInv, GInv, NEW r \in Runs, NEW t, Step(r, t), Good(t), UNCHANGED <<world, scenario>>
    PROVE  GInv'
  <1>1. run'[r] = t /\ \A q \in Runs \ {r} : run'[q] = run[q] BY DEF Step, SInv
  <1>2. \A q \in Runs : Good(run'[q]) BY <1>1 DEF GInv
  <1>3. \A q \in Runs : Good(run'[q])
            => /\ Good(run[q])'
    OBVIOUS
  <1> QED BY <1>2 DEF GInv

\* The step that ends the run step needs its verdict.
LEMMA GoodEnd ==
    ASSUME NEW s, IsRun(s), NEW o, s.faults \in Nat, Asks(s), SavedIs(s), DriftIs(s),
           Verdicts(Ran(s, o))
    PROVE  Good(Ran(s, o))
  <1> DEFINE t == Ran(s, o)
  <1>1. /\ t.pc = "ran" /\ SameInputs(s, t) /\ t.faults = s.faults
        /\ t.artifact = s.artifact /\ t.drift = s.drift
    BY RanFields
  <1>2. Verdicts(t) OBVIOUS
  <1> HIDE DEF t
  <1>3. Asks(t) BY <1>1 DEF Asks, SameInputs
  <1>4. SavedIs(t) BY <1>1 DEF SavedIs, SameInputs
  <1>5. DriftIs(t) BY <1>1, SameVerdict DEF DriftIs
  <1>6. Good(t) BY <1>1, <1>2, <1>3, <1>4, <1>5 DEF Good, RunStep, Late
  <1> QED BY <1>6 DEF t

\* A run step that has failed, by a fault or because of what it has read.
LEMMA FailedVerdict ==
    ASSUME NEW s, IsRun(s), NEW o, o.status = "failed", o.desired = 1, o.plan_path = FALSE,
           Silent(o), s.faults # 0 \/ ~Usable(s)
    PROVE  Verdicts(Ran(s, o))
  <1> DEFINE t == Ran(s, o)
  <1>1. t.outputs = o /\ SameInputs(s, t) /\ t.faults = s.faults BY RanFields
  <1>2. Usable(t) <=> Usable(s) BY <1>1, SameVerdict
  <1> HIDE DEF t
  <1>3. /\ t.outputs.status = "failed" /\ t.outputs.desired = 1 /\ t.outputs.plan_path = FALSE
        /\ Silent(t.outputs)
        /\ t.faults # 0 \/ ~Usable(t)
    BY <1>1, <1>2
  <1>4. Verdicts(t) BY <1>3 DEF Verdicts
  <1> QED BY <1>4 DEF t

\* A run step that has reached a verdict on what it has read.
LEMMA PassedVerdict ==
    ASSUME NEW s, IsRun(s), NEW o, o.status = "passed", o.desired = 0,
           o.plan_path => PlannedAsChecked(s), Usable(s), ~Objected(s),
           Silent(o) \/ ImpactTold(s, o.impact)
    PROVE  Verdicts(Ran(s, o))
  <1> DEFINE t == Ran(s, o)
  <1>1. t.outputs = o /\ SameInputs(s, t) BY RanFields
  <1>2. /\ Usable(t) <=> Usable(s)
        /\ Objected(t) <=> Objected(s)
        /\ PlannedAsChecked(t) <=> PlannedAsChecked(s)
        /\ ImpactTold(t, o.impact) <=> ImpactTold(s, o.impact)
    BY <1>1, SameVerdict
  <1> HIDE DEF t
  <1>3. Verdicts(t) BY <1>1, <1>2 DEF Verdicts
  <1> QED BY <1>3 DEF t

LEMMA BlockedVerdict ==
    ASSUME NEW s, IsRun(s), NEW o, o.status = "blocked", o.plan_path = FALSE,
           o.desired = DesiredExit("blocked", s.request.failOn), Usable(s), Objected(s),
           Silent(o)
    PROVE  Verdicts(Ran(s, o))
  <1> DEFINE t == Ran(s, o)
  <1>1. t.outputs = o /\ SameInputs(s, t) BY RanFields
  <1>2. Usable(t) <=> Usable(s) BY <1>1, SameVerdict
  <1>3. Objected(t) <=> Objected(s) BY <1>1, SameVerdict
  <1>4. t.request = s.request BY <1>1 DEF SameInputs
  <1> HIDE DEF t
  <1>5. Verdicts(t) BY <1>1, <1>2, <1>3, <1>4 DEF Verdicts
  <1> QED BY <1>5 DEF t

-----------------------------------------------------------------------------
(* The calls of the command line.                                          *)

\* What a call answers is what its inputs make of it; a disturbed one counts as a fault.
LEMMA PolicyTruth ==
    ASSUME NEW w, PoliciesLoad(w.policies)
    PROVE  LET report == ReportFor(w.snapshot, PoliciesOf(w.policies)) IN
           /\ report.ok <=> ~PolicyError(w)
           /\ report.policy = PoliciesOf(w.policies) /\ report.snapshot = w.snapshot
  <1> DEFINE policies == PoliciesOf(w.policies)
             objects == w.snapshot.objects
             report == ReportFor(w.snapshot, policies)
             violations == Violations(w.snapshot, policies)
  <1>1. \A p \in policies : PolicyAllowed(p) BY DEF PoliciesOf, PoliciesLoad
  <1>2. ASSUME NEW p \in policies, NEW o \in objects, Selects(p.select, o.kind, o.id)
        PROVE  o.kind \in AllowedKinds["require_description"]
    <2>1. o.kind \in AllowedKinds[p.rule] /\ p.rule \in DOMAIN AllowedKinds
      BY <1>1, <1>2 DEF PolicyAllowed, Selects
    <2> QED BY <2>1 DEF AllowedKinds, OwnerKinds
  <1>3. violations = {v \in [policy : policies, object : objects] :
                        /\ v.object.kind \in AllowedKinds["require_description"]
                        /\ Selects(v.policy.select, v.object.kind, v.object.id)
                        /\ Violates(w.snapshot, v.object, v.policy.rule)}
    BY DEF Violations
  <1> HIDE DEF policies, violations
  <1>4. (\E v \in violations : v.policy.severity = "error") <=> PolicyError(w)
    <2>1. ASSUME NEW v \in violations, v.policy.severity = "error" PROVE PolicyError(w)
      <3>1. /\ v.policy \in policies /\ v.object \in objects
            /\ Selects(v.policy.select, v.object.kind, v.object.id)
            /\ Violates(w.snapshot, v.object, v.policy.rule)
        BY <1>3
      <3> QED BY <2>1, <3>1 DEF PolicyError, policies
    <2>2. ASSUME PolicyError(w) PROVE \E v \in violations : v.policy.severity = "error"
      <3>1. PICK p \in policies, o \in objects :
                /\ p.severity = "error" /\ Selects(p.select, o.kind, o.id)
                /\ Violates(w.snapshot, o, p.rule)
        BY <2>2 DEF PolicyError, policies
      <3> DEFINE v == [policy |-> p, object |-> o]
      <3>2. v \in violations BY <1>2, <1>3, <3>1
      <3> QED BY <3>1, <3>2
    <2> QED BY <2>1, <2>2
  <1>5. report = [policy |-> policies, snapshot |-> w.snapshot, violations |-> violations,
                  ok |-> \A v \in violations : v.policy.severity # "error"]
    BY DEF ReportFor, violations
  <1>6. /\ report.ok <=> ~PolicyError(w)
        /\ report.policy = policies /\ report.snapshot = w.snapshot
    BY <1>4, <1>5
  <1> QED BY <1>6 DEF policies

\* An answer, or what a disturbed call leaves of it.
LEMMA AnswersAre ==
    ASSUME NEW form, NEW exit, NEW content, form # "garbled",
           NEW a \in Possible(Answer(form, exit, content))
    PROVE  LET answer == Answer(form, exit, content) IN
           /\ answer.form = form /\ answer.exit = exit /\ answer.content = content
           /\ a = answer \/ a.exit \in {1, Killed}
           /\ a = answer => a.form = form /\ a.exit = exit /\ a.content = content
           /\ a # answer => a.form \in {form, "garbled", "diagnostic"}
  <1> DEFINE answer == Answer(form, exit, content)
  <1>1. answer.form = form /\ answer.exit = exit /\ answer.content = content BY DEF Answer
  <1>2. CASE a = answer BY <1>1, <1>2
  <1>3. CASE a = Answer("garbled", Killed, Nothing) \/ a = Diagnostic(1)
    <2>1. a.exit \in {1, Killed} /\ a.form \in {"garbled", "diagnostic"}
      BY <1>3 DEF Answer, Diagnostic
    <2> HIDE DEF answer
    <2> QED BY <1>1, <2>1 DEF answer
  <1>4. CASE a = [answer EXCEPT !.exit = Killed]
    <2>1. a.exit = Killed /\ a.form = form BY <1>4 DEF Answer
    <2> HIDE DEF answer
    <2> QED BY <1>1, <2>1 DEF answer
  <1>5. a \in {answer} \cup {Answer("garbled", Killed, Nothing),
                             [answer EXCEPT !.exit = Killed], Diagnostic(1)}
    BY DEF Possible, Disturbed
  <1> HIDE DEF answer
  <1> QED BY <1>2, <1>3, <1>4, <1>5 DEF answer

LEMMA DiagnosticsAre ==
    ASSUME NEW exit, NEW a \in Possible(Diagnostic(exit))
    PROVE  /\ a = Diagnostic(exit) => a.form = "diagnostic" /\ a.exit = exit
           /\ a # Diagnostic(exit) => /\ a.form \in {"diagnostic", "garbled"}
                                     /\ a.exit \in {1, Killed}
  <1>1. Diagnostic(exit) = Answer("diagnostic", exit, Nothing) BY DEF Diagnostic
  <1>2. a \in Possible(Answer("diagnostic", exit, Nothing)) BY <1>1
  <1> DEFINE answer == Answer("diagnostic", exit, Nothing)
  <1>3. /\ a = answer \/ a.exit \in {1, Killed}
        /\ a = answer => a.form = "diagnostic" /\ a.exit = exit
        /\ a # answer => a.form \in {"diagnostic", "garbled"}
    BY <1>2, AnswersAre
  <1> HIDE DEF answer
  <1> QED BY <1>1, <1>3 DEF answer

\* The run and what is invariant about it.
LEMMA RunIs ==
    ASSUME SInv, GInv, NEW r \in Runs
    PROVE  IsRun(run[r]) /\ Good(run[r]) /\ world \in Worlds
  BY DEF SInv, GInv, Search, IsRun

\* Reading the world disturbs nothing that is known of the run.
LEMMA ReadsGood ==
    ASSUME NEW r, NEW what, IsRun(run[r]), Good(run[r]), run[r].pc \in RunStep \ {"result"}
    PROVE  LET t == ReadsOf(r, what) IN Asks(t) /\ SavedIs(t) /\ DriftIs(t)
  <1> DEFINE s == run[r]
             t == ReadsOf(r, what)
  <1>1. /\ t.request = s.request /\ t.artifact = s.artifact /\ t.drift = s.drift
        /\ DOMAIN t.read = DOMAIN s.read \cup {s.pc}
        /\ \A pc \in DOMAIN s.read : pc # s.pc => t.read[pc] = s.read[pc]
    BY ReadsFields
  <1>2. Asks(s) /\ SavedIs(s) /\ Stage(s) BY DEF Good
  <1> HIDE DEF s, t
  <1>3. s.drift = NotRun BY <1>2 DEF Stage, s
  <1>4. s.artifact # <<>> => s.pc = "drift"
    BY <1>2 DEF Stage, PolicyStage, ReviewStage, PolicySteps, ReviewSteps, RunStep, s
  <1>5. Asks(t) BY <1>1, <1>2 DEF Asks
  <1>6. DriftIs(t) BY <1>1, <1>3 DEF DriftIs, NotRun
  <1>7. SavedIs(t)
    <2>1. SUFFICES ASSUME t.artifact # <<>> PROVE SavedIs(t) BY DEF SavedIs
    <2>2. "comparison" \in DOMAIN s.read /\ s.pc # "comparison" BY <1>1, <1>2, <1>4, <2>1 DEF SavedIs
    <2>3. t.read["comparison"] = s.read["comparison"] /\ "comparison" \in DOMAIN t.read
      BY <1>1, <2>2
    <2> QED BY <1>1, <1>2, <2>3 DEF SavedIs
  <1> QED BY <1>5, <1>6, <1>7 DEF t

\* What a call leaves of the run's record (u): what it read, and a fault unless it answered.
Left(s, u, answered) ==
    /\ IsRun(u) /\ u.pc = s.pc /\ u.request = s.request /\ u.phase_a = s.phase_a
    /\ u.config = s.config /\ u.report = s.report /\ u.conflicts = s.conflicts
    /\ u.artifact = s.artifact /\ u.drift = s.drift /\ u.outputs = s.outputs
    /\ DOMAIN u.read = DOMAIN s.read \cup {s.pc} /\ u.read[s.pc] = world
    /\ \A pc \in DOMAIN s.read : pc # s.pc => u.read[pc] = s.read[pc]
    /\ u.faults \in Nat /\ (~answered => u.faults # 0)
    /\ Asks(u) /\ SavedIs(u) /\ DriftIs(u)

LEMMA CallLeaves ==
    ASSUME SInv, GInv, NEW r \in Runs, run[r].pc \in RunStep \ {"result"},
           NEW answer, NEW a, Called(answer, a)
    PROVE  /\ Left(run[r], After(r, answer, a), a = answer)
           /\ UNCHANGED <<world, scenario, comments>>
  <1> DEFINE s == run[r]
             t == Reading(r)
             u == After(r, answer, a)
  <1>1. IsRun(s) /\ Good(s) BY RunIs
  <1>2. s.faults \in Nat BY <1>1 DEF Good
  <1>3. /\ IsRun(t) /\ t.pc = s.pc /\ t.request = s.request /\ t.phase_a = s.phase_a
        /\ t.config = s.config /\ t.report = s.report /\ t.conflicts = s.conflicts
        /\ t.artifact = s.artifact /\ t.drift = s.drift /\ t.faults = s.faults
        /\ t.outputs = s.outputs
        /\ DOMAIN t.read = DOMAIN s.read \cup {s.pc} /\ t.read[s.pc] = world
        /\ \A pc \in DOMAIN s.read : pc # s.pc => t.read[pc] = s.read[pc]
    BY <1>1, ReadsFields DEF Reading
  <1>4. Asks(t) /\ SavedIs(t) /\ DriftIs(t) BY <1>1, ReadsGood DEF Reading
  <1>5. u = IF a = answer THEN t ELSE Faulty(t) BY DEF After
  <1>6. UNCHANGED <<world, scenario, comments>> BY DEF Called
  <1> HIDE DEF s, t, u
  <1>7. CASE a = answer
    <2>1. u = t BY <1>5, <1>7
    <2> QED BY <1>2, <1>3, <1>4, <1>6, <1>7, <2>1 DEF s, u, Left
  <1>8. CASE a # answer
    <2>1. u = Faulty(t) BY <1>5, <1>8
    <2>2. /\ IsRun(u) /\ u.pc = t.pc /\ SameInputs(t, u)
          /\ u.faults = t.faults + 1 /\ u.artifact = t.artifact /\ u.drift = t.drift
          /\ u.outputs = t.outputs /\ u.config = t.config /\ u.report = t.report /\ u.conflicts = t.conflicts
      BY <1>3, <2>1, FaultyFields
    <2>3. u.read = t.read /\ u.request = t.request /\ u.phase_a = t.phase_a
      BY <2>2 DEF SameInputs
    <2>4. Asks(u) /\ SavedIs(u) BY <1>4, <2>2, <2>3 DEF Asks, SavedIs
    <2>5. DriftIs(u) BY <1>4, <2>2, SameVerdict DEF DriftIs
    <2>6. u.faults \in Nat /\ u.faults # 0 BY <1>2, <1>3, <2>2
    <2> QED BY <1>3, <1>6, <1>8, <2>2, <2>3, <2>4, <2>5, <2>6 DEF s, u, Left
  <1> QED BY <1>7, <1>8

\* A call that does not answer, or answers that its inputs cannot be used, ends in a failure.
LEMMA GoodFailure ==
    ASSUME SInv, GInv, NEW r \in Runs, NEW u, IsRun(u), u.faults \in Nat,
           Asks(u), SavedIs(u), DriftIs(u), u.faults # 0 \/ ~Usable(u),
           NEW o, o.status = "failed", o.desired = 1, o.plan_path = FALSE, Silent(o),
           Step(r, Ran(u, o)), UNCHANGED <<world, scenario>>
    PROVE  GInv'
  <1>1. Verdicts(Ran(u, o)) BY FailedVerdict
  <1>2. Good(Ran(u, o)) BY <1>1, GoodEnd
  <1> QED BY <1>2, GoodStep

-----------------------------------------------------------------------------
(* The operations validate, check and plan.                                *)

LEMMA ValidateStep ==
    ASSUME SInv, GInv, NEW r \in Runs, RunValidate(r)
    PROVE  GInv'
  <1> DEFINE s == run[r]
             answer == Validated(world)
  <1>1. s.pc = "validate" BY DEF RunValidate, At
  <1>2. PICK a \in Possible(answer) :
            /\ Called(answer, a)
            /\ LET record == After(r, answer, a)
               IN  Step(r, IF a.form = "garbled"
                           THEN Ran(record, Failed("action_contract_invalid"))
                           ELSE IF a.exit # 0 THEN Ran(record, Failed("configuration_failed"))
                           ELSE IF record.request.op = "validate"
                           THEN Ran(record, Outcome("passed", "", 0))
                           ELSE [record EXCEPT !.config = a.content, !.pc = "check"])
    BY DEF RunValidate
  <1> DEFINE u == After(r, answer, a)
  <1>3. Good(s) /\ IsRun(s) BY RunIs
  <1>4. Stage(s) /\ PolicyStage(s)
    BY <1>1, <1>3 DEF Good, RunStep, Stage, PolicySteps
  <1>5. /\ IsRun(u) /\ u.pc = s.pc /\ u.request = s.request /\ u.phase_a = s.phase_a
        /\ u.config = s.config /\ u.report = s.report /\ u.conflicts = s.conflicts
        /\ u.artifact = s.artifact /\ u.drift = s.drift /\ u.outputs = s.outputs
        /\ DOMAIN u.read = DOMAIN s.read \cup {s.pc} /\ u.read[s.pc] = world
        /\ u.faults \in Nat /\ (a # answer => u.faults # 0)
        /\ Asks(u) /\ SavedIs(u) /\ DriftIs(u)
        /\ UNCHANGED <<world, scenario, comments>>
    <2>1. s.pc \in RunStep \ {"result"} /\ Called(answer, a) BY <1>1, <1>2 DEF RunStep
    <2> HIDE DEF answer
    <2> QED BY <2>1, CallLeaves DEF Left
  <1>6. /\ a.form = "garbled" => a # answer
        /\ a.exit = 0 => a = answer
        /\ a = answer => /\ a.exit = 0 <=> ConfigLoads(world)
                         /\ a.exit = 0 => a.content = world.config
    <2>1. CASE ConfigLoads(world)
      <3>1. answer = Answer("config", 0, world.config) BY <2>1 DEF Validated
      <3> HIDE DEF answer
      <3>2. /\ answer.form = "config" /\ answer.exit = 0 /\ answer.content = world.config
            /\ a = answer \/ a.exit \in {1, 137}
            /\ a # answer => a.exit # 0
        BY <3>1, AnswersAre DEF Killed
      <3> QED BY <2>1, <3>2
    <2>2. CASE ~ConfigLoads(world)
      <3>1. answer = Diagnostic(1) BY <2>2 DEF Validated
      <3> HIDE DEF answer
      <3> QED BY <2>2, <3>1, DiagnosticsAre DEF Killed
    <2> QED BY <2>1, <2>2
  <1> HIDE DEF u, answer
  <1>7. DOMAIN u.read = {"validate"} /\ u.read["validate"] = world /\ ~u.phase_a
    BY <1>1, <1>4, <1>5 DEF PolicyStage, Stage
  <1>8. Usable(u) <=> ConfigLoads(world) BY <1>7 DEF Usable
  <1>9. ~Objected(u) BY <1>7 DEF Objected, Contested
  <1>10. CASE a.form = "garbled" \/ a.exit # 0
    <2>1. u.faults # 0 \/ ~Usable(u) BY <1>5, <1>6, <1>8, <1>10
    <2>2. PICK failure : Step(r, Ran(u, Failed(failure))) BY <1>2, <1>10 DEF u, answer
    <2> QED BY <1>5, <2>1, <2>2, GoodFailure, FailedFields
  <1>11. CASE a.form # "garbled" /\ a.exit = 0 /\ u.request.op = "validate"
    <2> DEFINE o == Outcome("passed", "", 0)
    <2>1. Step(r, Ran(u, o)) BY <1>2, <1>11 DEF u, answer
    <2>2. o.status = "passed" /\ o.desired = 0 /\ o.plan_path = FALSE /\ Silent(o)
      BY PassedFields
    <2>3. Usable(u) BY <1>6, <1>8, <1>11
    <2> HIDE DEF o
    <2>4. Verdicts(Ran(u, o)) BY <1>5, <1>9, <2>2, <2>3, PassedVerdict
    <2>5. Good(Ran(u, o)) BY <1>5, <2>4, GoodEnd
    <2> QED BY <1>5, <2>1, <2>5, GoodStep
  <1>12. CASE a.form # "garbled" /\ a.exit = 0 /\ u.request.op # "validate"
    <2> DEFINE t == [u EXCEPT !.config = a.content, !.pc = "check"]
    <2>1. Step(r, t) BY <1>2, <1>12 DEF u, answer
    <2>2. /\ t.pc = "check" /\ t.config = world.config /\ SameInputs(u, t)
          /\ t.faults = u.faults /\ t.artifact = u.artifact /\ t.drift = u.drift
          /\ t.conflicts = u.conflicts /\ t.outputs = u.outputs
      BY <1>5, <1>6, <1>12, IdleFacts DEF IsRun, SameInputs
    <2> HIDE DEF t
    <2>3. /\ t.read = u.read /\ t.request = u.request /\ t.phase_a = u.phase_a
      BY <2>2 DEF SameInputs
    <2>4. Asks(t) /\ SavedIs(t) BY <1>5, <2>2, <2>3 DEF Asks, SavedIs
    <2>5. DriftIs(t) BY <1>5, <2>2, SameVerdict DEF DriftIs
    <2>6. ConfigLoads(world) BY <1>6, <1>12
    <2>7. PolicyStage(t)
      BY <1>4, <1>5, <1>7, <2>2, <2>3, <2>6 DEF PolicyStage
    <2>8. Stage(t)
      BY <1>1, <1>4, <1>5, <2>2, <2>3, <2>7 DEF Stage, PolicySteps, ReviewSteps
    <2>9. t.outputs = NoOutputs BY <1>1, <1>3, <1>5, <2>2 DEF Good, Late
    <2>10. Good(t) BY <1>5, <2>2, <2>4, <2>5, <2>8, <2>9 DEF Good, Late
    <2> QED BY <1>5, <2>1, <2>10, GoodStep
  <1> QED BY <1>10, <1>11, <1>12

\* A run step that ends with a verdict.
LEMMA GoodVerdict ==
    ASSUME SInv, GInv, NEW r \in Runs, NEW u, IsRun(u), u.faults \in Nat,
           Asks(u), SavedIs(u), DriftIs(u), Usable(u), NEW o,
           \/ /\ o.status = "passed" /\ o.desired = 0 /\ ~Objected(u)
              /\ o.plan_path => PlannedAsChecked(u)
              /\ Silent(o) \/ ImpactTold(u, o.impact)
           \/ /\ o.status = "blocked" /\ o.desired = DesiredExit("blocked", u.request.failOn)
              /\ Objected(u) /\ o.plan_path = FALSE /\ Silent(o),
           Step(r, Ran(u, o)), UNCHANGED <<world, scenario>>
    PROVE  GInv'
  <1>1. Verdicts(Ran(u, o)) BY PassedVerdict, BlockedVerdict
  <1>2. Good(Ran(u, o)) BY <1>1, GoodEnd
  <1> QED BY <1>2, GoodStep

LEMMA BlockedFields ==
    ASSUME NEW r
    PROVE  /\ Blocked(r).status = "blocked" /\ Blocked(r).plan_path = FALSE
           /\ Blocked(r).desired = DesiredExit("blocked", run[r].request.failOn)
           /\ Silent(Blocked(r))
  BY DEF Blocked, Outcome, NoOutputs, Silent

\* A change of the record that leaves alone what is said of it.
LEMMA SameRun ==
    ASSUME NEW u, NEW t, SameInputs(u, t), t.faults = u.faults,
           t.artifact = u.artifact, t.drift = u.drift,
           u.faults \in Nat, Asks(u), SavedIs(u), DriftIs(u)
    PROVE  t.faults \in Nat /\ Asks(t) /\ SavedIs(t) /\ DriftIs(t)
  <1>1. Asks(t) BY DEF Asks, SameInputs
  <1>2. SavedIs(t) BY DEF SavedIs, SameInputs
  <1>3. DriftIs(t) BY SameVerdict DEF DriftIs
  <1> QED BY <1>1, <1>2, <1>3

LEMMA CheckStep ==
    ASSUME SInv, GInv, NEW r \in Runs, RunCheck(r)
    PROVE  GInv'
  <1> DEFINE s == run[r]
             w == world
             answer == Checked(w)
  <1>1. s.pc = "check" BY DEF RunCheck, At
  <1>2. PICK a \in Possible(answer) :
            /\ Called(answer, a)
            /\ LET record == [After(r, answer, a) EXCEPT !.report = a.content]
               IN  Step(r, CASE a.form = "garbled" ->
                                    Ran(record, Failed("action_contract_invalid"))
                             [] a.form = "diagnostic" -> Ran(record, DiagnosticFailure(a))
                             [] a.form = "report" ->
                                  IF a.exit = 3 THEN Ran(record, Blocked(r))
                                  ELSE IF a.exit # 0
                                  THEN Ran(record, Failed("operational_failure"))
                                  ELSE IF record.request.op = "check"
                                  THEN Ran(record, Outcome("passed", "", 0))
                                  ELSE [record EXCEPT !.pc = "plan"])
    BY DEF RunCheck
  <1> DEFINE u == After(r, answer, a)
             v == [u EXCEPT !.report = a.content]
             passed == Outcome("passed", "", 0)
  <1>3. Good(s) /\ IsRun(s) BY RunIs
  <1>4. Stage(s) /\ PolicyStage(s)
    BY <1>1, <1>3 DEF Good, RunStep, Stage, PolicySteps
  <1>5. Left(s, u, a = answer) /\ UNCHANGED <<world, scenario, comments>>
    <2>1. s.pc \in RunStep \ {"result"} /\ Called(answer, a) BY <1>1, <1>2 DEF RunStep
    <2> HIDE DEF answer
    <2> QED BY <2>1, CallLeaves
  <1> HIDE DEF u
  <1>6. /\ IsRun(v) /\ SameInputs(u, v) /\ v.faults = u.faults /\ v.artifact = u.artifact
        /\ v.drift = u.drift /\ v.conflicts = u.conflicts /\ v.config = u.config
        /\ v.report = a.content /\ v.outputs = u.outputs
    BY <1>5, IdleFacts DEF IsRun, SameInputs, Left
  <1>7. v.faults \in Nat /\ Asks(v) /\ SavedIs(v) /\ DriftIs(v)
    BY <1>5, <1>6, SameRun DEF Left
  <1>8. /\ DOMAIN v.read = {"validate", "check"} /\ v.read["check"] = w /\ ~v.phase_a
        /\ ConfigLoads(v.read["validate"]) /\ v.config = v.read["validate"].config
        /\ v.request = s.request
    BY <1>1, <1>4, <1>5, <1>6 DEF PolicyStage, Stage, Left, SameInputs
  <1>9. a # answer => v.faults # 0 BY <1>5, <1>6 DEF Left
  <1>14. Step(r, CASE a.form = "garbled" -> Ran(v, Failed("action_contract_invalid"))
                   [] a.form = "diagnostic" -> Ran(v, DiagnosticFailure(a))
                   [] a.form = "report" ->
                        IF a.exit = 3 THEN Ran(v, Blocked(r))
                        ELSE IF a.exit # 0 THEN Ran(v, Failed("operational_failure"))
                        ELSE IF v.request.op = "check" THEN Ran(v, passed)
                        ELSE [v EXCEPT !.pc = "plan"])
    BY <1>2 DEF u
  <1> HIDE DEF v, passed
  <1>10. Usable(v) <=> ConfigLoads(w) /\ PoliciesLoad(w.policies) BY <1>8 DEF Usable
  <1>11. Objected(v) <=> PolicyError(w) BY <1>8 DEF Objected, Contested
  <1>12. CASE ~(ConfigLoads(w) /\ PoliciesLoad(w.policies))
    <2>1. answer = Diagnostic(4) BY <1>12 DEF Checked
    <2>2. a.form \in {"diagnostic", "garbled"}
      <3> HIDE DEF answer
      <3> QED BY <2>1, DiagnosticsAre
    <2>3. PICK failure : Step(r, Ran(v, Failed(failure)))
      BY <1>14, <2>2 DEF DiagnosticFailure
    <2> QED BY <1>5, <1>6, <1>7, <1>10, <1>12, <2>3, GoodFailure, FailedFields
  <1>13. CASE ConfigLoads(w) /\ PoliciesLoad(w.policies)
    <2> DEFINE report == ReportFor(w.snapshot, PoliciesOf(w.policies))
               exit == IF report.ok THEN 0 ELSE 3
    <2>1. /\ report.ok <=> ~PolicyError(w)
          /\ report.policy = PoliciesOf(w.policies) /\ report.snapshot = w.snapshot
      BY <1>13, PolicyTruth
    <2>2. answer = Answer("report", exit, report) BY <1>13 DEF Checked
    <2> HIDE DEF report
    <2>3. exit \in {0, 3, 4, 6} OBVIOUS
    <2>4. /\ a = answer \/ a.exit \in {1, Killed}
          /\ a = answer => a.form = "report" /\ a.exit = exit /\ a.content = report
          /\ a # answer => a.form \in {"report", "garbled", "diagnostic"}
      <3> HIDE DEF answer, exit
      <3>1. a \in Possible(Answer("report", exit, report)) BY <2>2
      <3>2. LET given == Answer("report", exit, report) IN
            /\ a = given \/ a.exit \in {1, Killed}
            /\ a = given => a.form = "report" /\ a.exit = exit /\ a.content = report
            /\ a # given => a.form \in {"report", "garbled", "diagnostic"}
        BY <2>3, <3>1, AnswersAre
      <3> QED BY <2>2, <3>2
    <2> HIDE DEF answer
    <2>5. Usable(v) BY <1>10, <1>13
    <2>6. CASE a.form = "garbled" \/ a.form = "diagnostic"
      <3>1. v.faults # 0 BY <1>9, <2>4, <2>6
      <3>2. PICK failure : Step(r, Ran(v, Failed(failure)))
        BY <1>14, <2>6 DEF DiagnosticFailure
      <3> QED BY <1>5, <1>6, <1>7, <3>1, <3>2, GoodFailure, FailedFields
    <2>7. CASE a.form = "report" /\ a.exit = 3
      <3>1. a = answer /\ exit = 3 BY <2>4, <2>7 DEF Killed
      <3>2. Objected(v) BY <1>11, <2>1, <3>1
      <3>3. Step(r, Ran(v, Blocked(r))) BY <1>14, <2>7
      <3>4. /\ Blocked(r).status = "blocked" /\ Blocked(r).plan_path = FALSE
            /\ Blocked(r).desired = DesiredExit("blocked", v.request.failOn)
            /\ Silent(Blocked(r))
        BY <1>8, BlockedFields
      <3> QED BY <1>5, <1>6, <1>7, <2>5, <3>2, <3>3, <3>4, GoodVerdict
    <2>8. CASE a.form = "report" /\ a.exit \notin {0, 3}
      <3>1. v.faults # 0 BY <1>9, <2>3, <2>4, <2>8
      <3>2. Step(r, Ran(v, Failed("operational_failure"))) BY <1>14, <2>8
      <3> QED BY <1>5, <1>6, <1>7, <3>1, <3>2, GoodFailure, FailedFields
    <2>9. CASE a.form = "report" /\ a.exit = 0
      <3>1. a = answer /\ exit = 0 BY <2>4, <2>9 DEF Killed
      <3>2. ~PolicyError(w) /\ ~Objected(v) BY <1>11, <2>1, <3>1
      <3>3. CASE v.request.op = "check"
        <4>1. Step(r, Ran(v, passed)) BY <1>14, <2>9, <3>3
        <4>2. /\ passed.status = "passed" /\ passed.desired = 0 /\ passed.plan_path = FALSE
              /\ Silent(passed)
          BY PassedFields DEF passed
        <4> QED BY <1>5, <1>6, <1>7, <2>5, <3>2, <4>1, <4>2, GoodVerdict
      <3>4. CASE v.request.op # "check"
        <4> DEFINE t == [v EXCEPT !.pc = "plan"]
        <4>1. Step(r, t) BY <1>14, <2>9, <3>4
        <4>2. /\ t.pc = "plan" /\ t.config = v.config /\ t.report = v.report
              /\ SameInputs(v, t) /\ t.faults = v.faults /\ t.artifact = v.artifact
              /\ t.drift = v.drift /\ t.conflicts = v.conflicts /\ t.outputs = v.outputs
          BY <1>6, IdleFacts DEF IsRun, SameInputs
        <4> HIDE DEF t
        <4>3. t.faults \in Nat /\ Asks(t) /\ SavedIs(t) /\ DriftIs(t)
          BY <1>7, <4>2, SameRun
        <4>4. t.read = v.read /\ t.request = v.request /\ t.phase_a = v.phase_a
          BY <4>2 DEF SameInputs
        <4>5. t.report.policy = PoliciesOf(w.policies) /\ t.report.snapshot = w.snapshot
          BY <1>6, <2>1, <2>4, <3>1, <4>2
        <4>6. t.conflicts = NotRun /\ t.artifact = <<>> /\ t.drift = NotRun
              /\ t.request.op \notin {"impact", "review"}
          BY <1>1, <1>4, <1>5, <1>6, <1>8, <4>2, <4>4 DEF PolicyStage, Stage, Left
        <4>7. PolicyStage(t)
          BY <1>8, <1>13, <3>2, <4>2, <4>4, <4>5, <4>6 DEF PolicyStage
        <4>8. Stage(t) BY <1>8, <4>2, <4>4, <4>6, <4>7 DEF Stage, PolicySteps, ReviewSteps
        <4>9. t.outputs = NoOutputs BY <1>1, <1>3, <1>5, <1>6, <4>2 DEF Good, Late, Left
        <4>10. Good(t) BY <4>2, <4>3, <4>8, <4>9 DEF Good, Late
        <4> QED BY <1>5, <4>1, <4>10, GoodStep
      <3> QED BY <3>3, <3>4
    <2> QED BY <2>4, <2>6, <2>7, <2>8, <2>9
  <1> QED BY <1>12, <1>13

\* What planning answers: as checking does, or a plan of the inputs.
LEMMA PlanAnswers ==
    ASSUME NEW w, NEW a \in Possible(Planned(w))
    PROVE  LET answer == Planned(w)
               loads == ConfigLoads(w) /\ PoliciesLoad(w.policies)
           IN  /\ a.form = "garbled" => a # answer
               /\ a.form \in {"garbled", "diagnostic", "report", "plan"}
               /\ a.form = "diagnostic" => a # answer \/ ~loads
               /\ a.form = "report" => loads /\ PolicyError(w)
               /\ a.form = "plan" => loads /\ ~PolicyError(w)
               /\ a.form = "plan" /\ a.exit # 0 => a # answer
               /\ a.form = "plan" /\ a.exit = 0 =>
                    /\ a = answer /\ a.content.config = w.config
                    /\ a.content.policy = PoliciesOf(w.policies)
                    /\ a.content.snapshot = w.snapshot
  <1> DEFINE answer == Planned(w)
             checked == Checked(w)
             loads == ConfigLoads(w) /\ PoliciesLoad(w.policies)
             report == ReportFor(w.snapshot, PoliciesOf(w.policies))
             plan == [config |-> w.config, policy |-> report.policy, snapshot |-> report.snapshot]
  <1>1. CASE ~loads
    <2>1. checked = Diagnostic(4) BY <1>1 DEF Checked
    <2>2. Diagnostic(4).exit = 4 BY DEF Diagnostic, Answer
    <2>3. answer = Diagnostic(4) BY <2>1, <2>2 DEF Planned
    <2>5. a \in Possible(Diagnostic(4)) BY <2>3
    <2> HIDE DEF answer
    <2>4. /\ a = answer => a.form = "diagnostic"
          /\ a # answer => a.form \in {"diagnostic", "garbled"}
      BY <2>3, <2>5, DiagnosticsAre
    <2> HIDE DEF loads
    <2> QED BY <1>1, <2>4 DEF answer, loads
  <1>2. ASSUME loads
        PROVE  /\ report.ok <=> ~PolicyError(w)
               /\ report.policy = PoliciesOf(w.policies) /\ report.snapshot = w.snapshot
               /\ checked = Answer("report", IF report.ok THEN 0 ELSE 3, report)
    BY <1>2, PolicyTruth DEF Checked
  <1> HIDE DEF report
  <1>3. CASE loads /\ ~report.ok
    <2>1. checked = Answer("report", 3, report) BY <1>2, <1>3
    <2>2. answer = Answer("report", 3, report)
      <3>1. checked.exit = 3 BY <2>1 DEF Answer
      <3> HIDE DEF checked
      <3> QED BY <2>1, <3>1 DEF Planned, checked
    <2> HIDE DEF answer
    <2>3. a \in Possible(Answer("report", 3, report)) BY <2>2 DEF answer
    <2>4. LET given == Answer("report", 3, report) IN
          /\ a = given => a.form = "report"
          /\ a # given => a.form \in {"report", "garbled", "diagnostic"}
      BY <2>3, AnswersAre
    <2> HIDE DEF loads
    <2> QED BY <1>2, <1>3, <2>2, <2>4 DEF answer, loads
  <1>4. CASE loads /\ report.ok
    <2>1. checked = Answer("report", 0, report) BY <1>2, <1>4
    <2>2. answer = Answer("plan", 0, plan)
      <3>1. checked.exit = 0 /\ checked.content = report BY <2>1 DEF Answer
      <3> HIDE DEF checked
      <3> QED BY <3>1 DEF Planned, checked
    <2> HIDE DEF answer
    <2>3. a \in Possible(Answer("plan", 0, plan)) BY <2>2 DEF answer
    <2>4. plan.config = w.config /\ plan.policy = PoliciesOf(w.policies)
          /\ plan.snapshot = w.snapshot
      BY <1>2, <1>4
    <2> HIDE DEF plan
    <2>5. LET given == Answer("plan", 0, plan) IN
          /\ a = given \/ a.exit \in {1, Killed}
          /\ a = given => a.form = "plan" /\ a.exit = 0 /\ a.content = plan
          /\ a # given => a.form \in {"plan", "garbled", "diagnostic"}
      BY <2>3, AnswersAre
    <2> HIDE DEF loads
    <2> QED BY <1>2, <1>4, <2>2, <2>4, <2>5 DEF answer, loads, Killed
  <1> QED BY <1>1, <1>3, <1>4

LEMMA PlanStep ==
    ASSUME SInv, GInv, NEW r \in Runs, RunPlan(r)
    PROVE  GInv'
  <1> DEFINE s == run[r]
             w == world
             answer == Planned(w)
             passed == [Outcome("passed", "", 0) EXCEPT !.plan_path = TRUE]
  <1>1. s.pc = "plan" BY DEF RunPlan, At
  <1>2. PICK a \in Possible(answer) :
            /\ Called(answer, a)
            /\ LET record == [After(r, answer, a) EXCEPT !.plan = a.content]
               IN  Step(r, CASE a.form = "garbled" ->
                                    Ran(record, Failed("action_contract_invalid"))
                             [] a.form = "diagnostic" -> Ran(record, DiagnosticFailure(a))
                             [] a.form = "report" -> Ran(record, Blocked(r))
                             [] a.form = "plan" ->
                                  IF a.exit # 0
                                  THEN Ran(record, Failed("action_contract_invalid"))
                                  ELSE IF ~Consistent(r, a.content)
                                  THEN Ran(record, Failed("inputs_changed_during_run"))
                                  ELSE Ran(record, passed))
    BY DEF RunPlan
  <1> DEFINE u == After(r, answer, a)
             v == [u EXCEPT !.plan = a.content]
  <1>3. Good(s) /\ IsRun(s) BY RunIs
  <1>4. Stage(s) /\ PolicyStage(s)
    BY <1>1, <1>3 DEF Good, RunStep, Stage, PolicySteps
  <1>5. Left(s, u, a = answer) /\ UNCHANGED <<world, scenario, comments>>
    <2>1. s.pc \in RunStep \ {"result"} /\ Called(answer, a) BY <1>1, <1>2 DEF RunStep
    <2> HIDE DEF answer
    <2> QED BY <2>1, CallLeaves
  <1> HIDE DEF u
  <1>6. IsRun(v) /\ SameInputs(u, v) /\ v.faults = u.faults /\ v.artifact = u.artifact
        /\ v.drift = u.drift
    BY <1>5, IdleFacts DEF IsRun, SameInputs, Left
  <1>7. v.faults \in Nat /\ Asks(v) /\ SavedIs(v) /\ DriftIs(v)
    BY <1>5, <1>6, SameRun DEF Left
  <1>8. /\ DOMAIN v.read = {"validate", "check", "plan"} /\ v.read["plan"] = w
        /\ ~v.phase_a /\ v.request = s.request
        /\ v.read["validate"] = s.read["validate"] /\ v.read["check"] = s.read["check"]
    BY <1>1, <1>4, <1>5, <1>6 DEF PolicyStage, Stage, Left, SameInputs
  <1>9. a # answer => v.faults # 0 BY <1>5, <1>6 DEF Left
  <1>10. Step(r, CASE a.form = "garbled" -> Ran(v, Failed("action_contract_invalid"))
                   [] a.form = "diagnostic" -> Ran(v, DiagnosticFailure(a))
                   [] a.form = "report" -> Ran(v, Blocked(r))
                   [] a.form = "plan" ->
                        IF a.exit # 0 THEN Ran(v, Failed("action_contract_invalid"))
                        ELSE IF ~Consistent(r, a.content)
                        THEN Ran(v, Failed("inputs_changed_during_run"))
                        ELSE Ran(v, passed))
    BY <1>2 DEF u
  <1>11. /\ passed.status = "passed" /\ passed.desired = 0 /\ Silent(passed)
    BY DEF Outcome, NoOutputs, Silent
  <1> HIDE DEF v, passed
  <1> DEFINE loads == ConfigLoads(w) /\ PoliciesLoad(w.policies)
  <1>12. /\ ConfigLoads(s.read["validate"]) /\ s.config = s.read["validate"].config
         /\ ConfigLoads(s.read["check"]) /\ PoliciesLoad(s.read["check"].policies)
         /\ s.report.policy = PoliciesOf(s.read["check"].policies)
         /\ s.report.snapshot = s.read["check"].snapshot
         /\ ~PolicyError(s.read["check"])
    BY <1>1, <1>4 DEF PolicyStage
  <1>13. Usable(v) <=> loads /\ (PlannedAsChecked(v) \/ PolicyError(w))
    BY <1>8, <1>12 DEF Usable
  <1>14. Objected(v) <=> PolicyError(w) BY <1>8, <1>12 DEF Objected, Contested
  <1>15. /\ a.form = "garbled" => a # answer
         /\ a.form \in {"garbled", "diagnostic", "report", "plan"}
         /\ a.form = "diagnostic" => a # answer \/ ~loads
         /\ a.form = "report" => loads /\ PolicyError(w)
         /\ a.form = "plan" => loads /\ ~PolicyError(w)
         /\ a.form = "plan" /\ a.exit # 0 => a # answer
         /\ a.form = "plan" /\ a.exit = 0 =>
              /\ a = answer /\ a.content.config = w.config
              /\ a.content.policy = PoliciesOf(w.policies) /\ a.content.snapshot = w.snapshot
    BY PlanAnswers
  <1> HIDE DEF answer, loads
  <1>16. CASE \/ a.form \in {"garbled", "diagnostic"}
              \/ a.form = "plan" /\ (a.exit # 0 \/ ~Consistent(r, a.content))
    <2>1. PICK failure : Step(r, Ran(v, Failed(failure)))
      BY <1>10, <1>16 DEF DiagnosticFailure
    <2>2. v.faults # 0 \/ ~Usable(v)
      <3>1. CASE a.form = "garbled" BY <1>9, <1>15, <3>1
      <3>2. CASE a.form = "diagnostic" BY <1>9, <1>13, <1>15, <3>2
      <3>3. CASE a.form = "plan" /\ a.exit # 0 BY <1>9, <1>15, <3>3
      <3>4. CASE a.form = "plan" /\ a.exit = 0 /\ ~Consistent(r, a.content)
        <4>1. ~PlannedAsChecked(v)
          BY <1>8, <1>12, <1>15, <3>4 DEF Consistent, PlannedAsChecked
        <4> QED BY <1>13, <1>15, <3>4, <4>1
      <3> QED BY <1>16, <3>1, <3>2, <3>3, <3>4
    <2> QED BY <1>5, <1>6, <1>7, <2>1, <2>2, GoodFailure, FailedFields
  <1>17. CASE a.form = "report"
    <2>1. Usable(v) /\ Objected(v) BY <1>13, <1>14, <1>15, <1>17
    <2>2. Step(r, Ran(v, Blocked(r))) BY <1>10, <1>17
    <2>3. /\ Blocked(r).status = "blocked" /\ Blocked(r).plan_path = FALSE
          /\ Blocked(r).desired = DesiredExit("blocked", v.request.failOn)
          /\ Silent(Blocked(r))
      BY <1>8, BlockedFields
    <2> QED BY <1>5, <1>6, <1>7, <2>1, <2>2, <2>3, GoodVerdict
  <1>18. CASE a.form = "plan" /\ a.exit = 0 /\ Consistent(r, a.content)
    <2>1. PlannedAsChecked(v)
      BY <1>8, <1>12, <1>15, <1>18 DEF Consistent, PlannedAsChecked
    <2>2. Usable(v) /\ ~Objected(v) BY <1>13, <1>14, <1>15, <1>18, <2>1
    <2>3. Step(r, Ran(v, passed)) BY <1>10, <1>18
    <2> QED BY <1>5, <1>6, <1>7, <1>11, <2>1, <2>2, <2>3, GoodVerdict
  <1> QED BY <1>15, <1>16, <1>17, <1>18

-----------------------------------------------------------------------------
(* The operation impact.                                                   *)

LEMMA ImpactStep ==
    ASSUME SInv, GInv, NEW r \in Runs, RunImpact(r)
    PROVE  GInv'
  <1> DEFINE s == run[r]
             w == world
             answer == Impacted(w, s.request)
  <1>1. s.pc = "impact" BY DEF RunImpact, At
  <1>2. PICK a \in Possible(answer) :
            /\ Called(answer, a)
            /\ LET record == [After(r, answer, a) EXCEPT !.result = a.content]
               IN  Step(r, IF a.exit \in {0, 6}
                           THEN Ran(record, [Outcome("passed", "", 0) EXCEPT
                                                !.impact = a.content.status])
                           ELSE Ran(record, ImpactFailure(a)))
    BY DEF RunImpact
  <1> DEFINE u == After(r, answer, a)
             v == [u EXCEPT !.result = a.content]
             passed == [Outcome("passed", "", 0) EXCEPT !.impact = a.content.status]
  <1>3. Good(s) /\ IsRun(s) BY RunIs
  <1>4. DOMAIN s.read = {} /\ ~s.phase_a
    BY <1>1, <1>3 DEF Good, RunStep, Stage
  <1>5. Left(s, u, a = answer) /\ UNCHANGED <<world, scenario, comments>>
    <2>1. s.pc \in RunStep \ {"result"} /\ Called(answer, a) BY <1>1, <1>2 DEF RunStep
    <2> HIDE DEF answer
    <2> QED BY <2>1, CallLeaves
  <1> HIDE DEF u
  <1>6. /\ IsRun(v) /\ v.read = u.read /\ v.request = u.request /\ v.phase_a = u.phase_a
        /\ v.faults = u.faults /\ v.artifact = u.artifact /\ v.drift = u.drift
        /\ v.result = a.content
    BY <1>5, IdleFacts DEF IsRun, Left
  <1>7. v.faults \in Nat /\ Asks(v) /\ SavedIs(v) /\ DriftIs(v)
    BY <1>5, <1>6 DEF Left, Asks, SavedIs, DriftIs, Drifted
  <1>8. DOMAIN v.read = {"impact"} /\ v.read["impact"] = w /\ ~v.phase_a /\ v.request = s.request
    BY <1>1, <1>4, <1>5, <1>6 DEF Left
  <1>9. a # answer => v.faults # 0 BY <1>5, <1>6 DEF Left
  <1>10. Step(r, IF a.exit \in {0, 6} THEN Ran(v, passed) ELSE Ran(v, ImpactFailure(a)))
    BY <1>2 DEF u
  <1>11. /\ passed.status = "passed" /\ passed.desired = 0 /\ passed.plan_path = FALSE
         /\ passed.impact = a.content.status
    BY DEF Outcome, NoOutputs
  <1>12. /\ ImpactFailure(a).status = "failed" /\ ImpactFailure(a).desired = 1
         /\ ImpactFailure(a).plan_path = FALSE /\ Silent(ImpactFailure(a))
    BY DEF ImpactFailure, Failed, Outcome, NoOutputs, Silent
  <1> HIDE DEF v, passed
  <1>13. Usable(v) <=> ImpactLoads(w, s.request) BY <1>8 DEF Usable
  <1>14. ~Objected(v) BY <1>8 DEF Objected, Contested
  <1> DEFINE content == ImpactResult(Graph(SourceNodes(w), SourceEdges(w)), w.changed,
                                     IF s.request.configured THEN <<PoliciesOf(w.policies)>>
                                     ELSE <<>>)
  <1> HIDE DEF content
  <1>15. /\ a.exit \in {0, 6} => a = answer /\ ImpactLoads(w, s.request) /\ a.content = content
         /\ a.exit \notin {0, 6} => a # answer \/ ~ImpactLoads(w, s.request)
    <2>1. CASE ~ImpactLoads(w, s.request)
      <3>1. answer = Diagnostic(4) BY <2>1 DEF Impacted
      <3> HIDE DEF answer
      <3>2. a.exit \in {1, 4, Killed} BY <3>1, DiagnosticsAre
      <3> QED BY <2>1, <3>2 DEF Killed
    <2>2. CASE ImpactLoads(w, s.request)
      <3> DEFINE exit == IF content.status = "impacted" THEN 6 ELSE 0
      <3>1. answer = Answer("impact", exit, content) BY <2>2 DEF Impacted, content
      <3>2. exit \in {0, 6} OBVIOUS
      <3> HIDE DEF answer, exit
      <3>3. a \in Possible(Answer("impact", exit, content)) BY <3>1
      <3>4. LET given == Answer("impact", exit, content) IN
            /\ a = given \/ a.exit \in {1, Killed}
            /\ a = given => a.form = "impact" /\ a.exit = exit /\ a.content = content
      <4>1. exit \in {0, 3, 4, 6} BY <3>2
      <4> QED BY <3>3, <4>1, AnswersAre
      <3> QED BY <2>2, <3>1, <3>2, <3>4 DEF Killed
    <2> QED BY <2>1, <2>2
  <1> HIDE DEF answer
  <1>16. CASE a.exit \in {0, 6}
    <2>1. Usable(v) BY <1>13, <1>15, <1>16
    <2>2. Step(r, Ran(v, passed)) BY <1>10, <1>16
    <2>3. ImpactTold(v, passed.impact)
      <3>1. w \in Worlds BY RunIs
      <3>2. v.result = content /\ passed.impact = v.result.status BY <1>6, <1>11, <1>15, <1>16
      <3> QED BY <1>8, <1>15, <1>16, <3>1, <3>2 DEF ImpactTold, content
    <2> QED BY <1>5, <1>6, <1>7, <1>11, <1>14, <2>1, <2>2, <2>3, GoodVerdict
  <1>17. CASE a.exit \notin {0, 6}
    <2>1. v.faults # 0 \/ ~Usable(v) BY <1>9, <1>13, <1>15, <1>17
    <2>2. Step(r, Ran(v, ImpactFailure(a))) BY <1>10, <1>17
    <2> QED BY <1>5, <1>6, <1>7, <1>12, <2>1, <2>2, GoodFailure
  <1> QED BY <1>16, <1>17

-----------------------------------------------------------------------------
(* The start of a run.                                                     *)

LEMMA StartStep ==
    ASSUME SInv, GInv, NEW r \in Runs, Start(r)
    PROVE  GInv'
  <1>1. PICK q \in scenario.requests[r] :
            Step(r, IF InputsValid(q)
                    THEN [Idle EXCEPT !.request = q, !.pc = FirstStep(q)]
                    ELSE Ran([Idle EXCEPT !.request = q, !.phase_a = TRUE],
                             Failed("action_contract_invalid")))
    BY DEF Start
  <1>2. UNCHANGED <<world, scenario>> BY DEF Start, Outside
  <1>3. q.op = "review" => q.comparison \in Runs \cup {Nowhere}
    <2>1. PICK s \in Scenarios : scenario = s.may BY DEF GInv
    <2> QED BY <1>1, <2>1, RequestAssumption
  <1>4. /\ Idle.faults = 0 /\ Idle.artifact = <<>> /\ Idle.drift = NotRun
        /\ Idle.conflicts = NotRun /\ DOMAIN Idle.read = {} /\ Idle.phase_a = FALSE
        /\ NotRun.status = "not_run" /\ 0 \in Nat /\ Idle.outputs = NoOutputs
    <2>1. Idle.read = <<>> BY DEF Idle
    <2>2. DOMAIN Idle.read = {} BY <2>1
    <2>3. NotRun.status = "not_run" BY DEF NotRun
    <2> QED BY <2>2, <2>3 DEF Idle
  <1>5. CASE InputsValid(q)
    <2> DEFINE t == [Idle EXCEPT !.request = q, !.pc = FirstStep(q)]
    <2>1. Step(r, t) BY <1>1, <1>5
    <2>2. /\ t.request = q /\ t.pc = FirstStep(q) /\ t.faults = 0 /\ t.artifact = <<>>
          /\ t.drift = NotRun /\ t.conflicts = NotRun /\ DOMAIN t.read = {} /\ ~t.phase_a
          /\ t.outputs = NoOutputs
      BY <1>4, IdleFacts
    <2> HIDE DEF t
    <2>3. t.pc \in {"impact", "validate", "conflicts", "comparison"}
          /\ (t.pc = "validate" => q.op \notin {"impact", "review"})
          /\ (t.pc \in {"conflicts", "comparison"} => q.op = "review")
          /\ (t.pc = "conflicts" => q.observations)
          /\ (t.pc = "comparison" => ~q.observations)
      BY <2>2 DEF FirstStep
    <2>4. Asks(t) /\ SavedIs(t) /\ DriftIs(t) BY <1>3, <1>4, <2>2 DEF Asks, SavedIs, DriftIs
    <2>5. t.pc = "validate" => PolicyStage(t) BY <2>2, <2>3 DEF PolicyStage
    <2>6. t.pc \in {"conflicts", "comparison"} => ReviewStage(t)
      <3>1. SUFFICES ASSUME t.pc \in {"conflicts", "comparison"} PROVE ReviewStage(t) OBVIOUS
      <3>2. q.op = "review" /\ (q.observations \/ DriftLane(q))
        BY <1>5, <2>3, <3>1 DEF InputsValid, ReviewInputs
      <3>3. ConflictsAre(t) /\ ComparisonIs(t)
        BY <1>4, <2>2 DEF ConflictsAre, ComparisonIs, Contested
      <3>4. t.pc = "comparison" => DOMAIN t.read = ObservationRead(t) /\ DriftLane(q)
        BY <2>2, <2>3, <3>2 DEF ObservationRead
      <3> QED BY <2>2, <2>3, <3>1, <3>2, <3>3, <3>4 DEF ReviewStage
    <2>7. Stage(t) BY <2>2, <2>3, <2>5, <2>6 DEF Stage, PolicySteps, ReviewSteps
    <2>8. Good(t) BY <1>4, <2>2, <2>3, <2>4, <2>7 DEF Good, Late
    <2> QED BY <1>2, <2>1, <2>8, GoodStep
  <1>6. CASE ~InputsValid(q)
    <2> DEFINE t == [Idle EXCEPT !.request = q, !.phase_a = TRUE]
    <2>1. Step(r, Ran(t, Failed("action_contract_invalid"))) BY <1>1, <1>6
    <2>2. /\ t.request = q /\ t.faults = 0 /\ t.artifact = <<>> /\ IsRun(t)
          /\ t.drift = NotRun /\ t.phase_a
      BY <1>4, IdleFacts DEF IsRun
    <2> HIDE DEF t
    <2>3. Asks(t) /\ SavedIs(t) /\ DriftIs(t) BY <1>3, <1>4, <2>2 DEF Asks, SavedIs, DriftIs
    <2>4. ~Usable(t) BY <2>2 DEF Usable
    <2> QED BY <1>2, <1>4, <2>1, <2>2, <2>3, <2>4, GoodFailure, FailedFields
  <1> QED BY <1>5, <1>6

-----------------------------------------------------------------------------
(* The operation review.                                                   *)

LEMMA ReviewFailureFields ==
    ASSUME NEW failure
    PROVE  LET o == [Failed(failure) EXCEPT !.review = "failed"] IN
           o.status = "failed" /\ o.desired = 1 /\ o.plan_path = FALSE /\ Silent(o)
  <1> DEFINE p == Failed(failure)
  <1>1. /\ p.status = "failed" /\ p.desired = 1 /\ p.plan_path = FALSE /\ Silent(p)
        /\ DOMAIN p = {"status", "failure", "desired", "plan_path", "impact", "review"}
    BY FailedFields
  <1> HIDE DEF p
  <1>2. LET o == [p EXCEPT !.review = "failed"] IN
        o.status = "failed" /\ o.desired = 1 /\ o.plan_path = FALSE /\ Silent(o)
    BY <1>1 DEF Silent
  <1> QED BY <1>2 DEF p

\* A review that cannot use what it has read has failed.
LEMMA GoodReviewFailure ==
    ASSUME SInv, GInv, NEW r \in Runs, NEW u, IsRun(u), u.faults \in Nat,
           Asks(u), SavedIs(u), DriftIs(u), u.faults # 0 \/ ~Usable(u),
           Step(r, ReviewFailed(u)), UNCHANGED <<world, scenario>>
    PROVE  GInv'
  <1> DEFINE o == [Failed("configuration_failed") EXCEPT !.review = "failed"]
  <1>1. o.status = "failed" /\ o.desired = 1 /\ o.plan_path = FALSE /\ Silent(o)
    BY ReviewFailureFields
  <1>2. Step(r, Ran(u, o)) BY DEF ReviewFailed
  <1> HIDE DEF o
  <1> QED BY <1>1, <1>2, GoodFailure

\* What the world brings along.
LEMMA WorldIs ==
    ASSUME NEW w \in Worlds
    PROVE  /\ Shaped(w.baseline) /\ Shaped(w.candidate) /\ Sided(w.drift_policy)
           /\ w # Nothing
           /\ \A q : IsFiniteSet(w.observations.entries) /\ IsFiniteSet(RulesFor(w, q))
  <1>1. /\ Shaped(w.baseline) /\ Shaped(w.candidate)
        /\ IsFiniteSet(w.observations.entries) /\ IsFiniteSet(AuthorityOf(w.authority))
        /\ \A rule \in w.drift_policy : \A side \in {"baseline", "candidate"} :
            LET sides == rule.expected[side] IN sides \in Seq(Range(sides)) /\ Len(sides) <= 1
        /\ "config" \in DOMAIN w
    BY WorldAssumption
  <1>2. \A q : RulesFor(w, q) = AuthorityOf(w.authority) \/ RulesFor(w, q) = {}
    BY DEF RulesFor
  <1>3. IsFiniteSet({}) BY FS_EmptySet
  <1>4. w # Nothing
    <2>1. DOMAIN Nothing = {"kind"} BY DEF Nothing
    <2> QED BY <1>1, <2>1
  <1>5. Sided(w.drift_policy) BY <1>1 DEF Sided
  <1> QED BY <1>1, <1>2, <1>3, <1>4, <1>5

LEMMA ConflictsStep ==
    ASSUME SInv, GInv, NEW r \in Runs, ReviewConflicts(r)
    PROVE  GInv'
  <1> DEFINE s == run[r]
             q == s.request
             u == Reading(r)
             block == ConflictsBlock(world.observations.entries, RulesFor(world, q))
             t == [u EXCEPT !.conflicts = block,
                            !.pc = IF DriftLane(q) THEN "comparison" ELSE "result"]
  <1>1. s.pc = "conflicts" BY DEF ReviewConflicts, At
  <1>2. /\ IF ~ConflictsLoad(world, q) THEN Step(r, ReviewFailed(u)) ELSE Step(r, t)
        /\ UNCHANGED <<world, scenario>>
    BY DEF ReviewConflicts, Outside
  <1>3. Good(s) /\ IsRun(s) /\ world \in Worlds BY RunIs
  <1>4. Stage(s) /\ ReviewStage(s)
    BY <1>1, <1>3 DEF Good, RunStep, Stage, ReviewSteps
  <1>5. /\ s.faults \in Nat /\ DOMAIN s.read = {} /\ q.observations /\ s.artifact = <<>>
        /\ q.op = "review" /\ s.drift = NotRun /\ ~s.phase_a /\ s.outputs = NoOutputs
    BY <1>1, <1>3, <1>4 DEF Good, Stage, ReviewStage, Late
  <1>6. /\ IsRun(u) /\ u.request = q /\ u.phase_a = s.phase_a /\ u.faults = s.faults
        /\ u.artifact = s.artifact /\ u.drift = s.drift /\ u.outputs = NoOutputs
        /\ DOMAIN u.read = {"conflicts"} /\ u.read["conflicts"] = world
    BY <1>1, <1>3, <1>5, ReadsFields DEF Reading
  <1>7. Asks(u) /\ SavedIs(u) /\ DriftIs(u)
    BY <1>1, <1>3, ReadsGood DEF Reading, RunStep
  <1>8. /\ block.status # "not_run" /\ ConflictsCoherent(block)
        /\ block.status = "blocked" <=> Undecided(world.observations.entries, RulesFor(world, q))
    <2> DEFINE observed == world.observations.entries
               rules == RulesFor(world, q)
    <2>1. IsFiniteSet(observed) /\ IsFiniteSet(rules) BY <1>3, WorldIs
    <2> HIDE DEF observed, rules
    <2>2. LET c == ConflictsBlock(observed, rules)
          IN  /\ c.status # "not_run" /\ ConflictsCoherent(c)
              /\ c.status = "blocked" <=> Undecided(observed, rules)
      BY <2>1, ConflictsTruth
    <2> QED BY <2>2 DEF observed, rules
  <1> HIDE DEF u, block
  <1>9. CASE ~ConflictsLoad(world, q)
    <2>1. ~Usable(u) BY <1>6, <1>9 DEF Usable
    <2> HIDE DEF q
    <2> QED BY <1>2, <1>5, <1>6, <1>7, <1>9, <2>1, GoodReviewFailure
  <1>10. CASE ConflictsLoad(world, q)
    <2>1. Step(r, t) BY <1>2, <1>10
    <2>2. /\ t.pc = (IF DriftLane(q) THEN "comparison" ELSE "result") /\ t.conflicts = block
          /\ t.faults = u.faults /\ t.artifact = <<>> /\ t.drift = NotRun
          /\ SameInputs(u, t) /\ t.artifact = u.artifact /\ t.drift = u.drift
          /\ t.outputs = NoOutputs
      BY <1>5, <1>6, IdleFacts DEF IsRun, SameInputs
    <2> HIDE DEF t
    <2>3. /\ DOMAIN t.read = {"conflicts"} /\ t.read["conflicts"] = world
          /\ t.request = q /\ ~t.phase_a
      BY <1>5, <1>6, <2>2 DEF SameInputs
    <2>4. t.faults \in Nat /\ Asks(t) /\ SavedIs(t) /\ DriftIs(t)
      BY <1>5, <1>6, <1>7, <2>2, SameRun
    <2>5. Contested(t) <=> Undecided(world.observations.entries, RulesFor(world, q))
      BY <2>3 DEF Contested
    <2>6. ConflictsAre(t) BY <1>8, <1>10, <2>2, <2>3, <2>5 DEF ConflictsAre
    <2>7. ReviewStage(t)
      BY <1>5, <2>2, <2>3, <2>6 DEF ReviewStage, ComparisonIs, ObservationRead, NotRun
    <2>8. Stage(t) BY <2>2, <2>3, <2>7 DEF Stage, PolicySteps, ReviewSteps
    <2>9. Good(t) BY <2>2, <2>4, <2>8 DEF Good, Late
    <2> QED BY <1>2, <2>1, <2>9, GoodStep
  <1> QED BY <1>9, <1>10

\* What a review knows of the conflicts stays true as it reads on.
LEMMA ConflictsStay ==
    ASSUME NEW s, NEW t, ConflictsAre(s), t.conflicts = s.conflicts, t.request = s.request,
           "conflicts" \in DOMAIN t.read <=> "conflicts" \in DOMAIN s.read,
           "conflicts" \in DOMAIN s.read => t.read["conflicts"] = s.read["conflicts"]
    PROVE  ConflictsAre(t) /\ (Contested(t) <=> Contested(s))
  <1>1. Contested(t) <=> Contested(s) BY DEF Contested
  <1> QED BY <1>1 DEF ConflictsAre

\* A review that has its comparison goes on to the drift.
LEMMA ComparisonGood ==
    ASSUME SInv, GInv, NEW r \in Runs, run[r].pc = "comparison", NEW what, NEW artifact,
           what \in Worlds, Projects(what.baseline), Projects(what.candidate),
           artifact = <<Compared(what.baseline, what.candidate)>>,
           AcceptsComparison(artifact[1]),
           HasComparison(run[r].request) \/ SnapshotsCompare(what, run[r].request),
           Step(r, [ReadsOf(r, what) EXCEPT !.artifact = artifact, !.pc = "drift"]),
           UNCHANGED <<world, scenario>>
    PROVE  GInv'
  <1> DEFINE s == run[r]
             u == ReadsOf(r, what)
             t == [u EXCEPT !.artifact = artifact, !.pc = "drift"]
  <1>1. s.pc = "comparison" OBVIOUS
  <1>2. Good(s) /\ IsRun(s) BY RunIs
  <1>3. Stage(s) /\ ReviewStage(s)
    BY <1>1, <1>2 DEF Good, RunStep, Stage, ReviewSteps
  <1>4. /\ s.faults \in Nat /\ DOMAIN s.read = ObservationRead(s) /\ s.drift = NotRun
        /\ s.request.op = "review" /\ DriftLane(s.request) /\ ~s.phase_a /\ ConflictsAre(s)
        /\ s.outputs = NoOutputs
    BY <1>1, <1>2, <1>3 DEF Good, Stage, ReviewStage, Late
  <1>5. /\ IsRun(u) /\ u.request = s.request /\ u.phase_a = s.phase_a /\ u.faults = s.faults
        /\ u.drift = s.drift /\ u.conflicts = s.conflicts /\ u.outputs = s.outputs
        /\ DOMAIN u.read = DOMAIN s.read \cup {"comparison"} /\ u.read["comparison"] = what
        /\ \A pc \in DOMAIN s.read : pc # "comparison" => u.read[pc] = s.read[pc]
    BY <1>1, <1>2, ReadsFields
  <1>6. Asks(u)
    BY <1>1, <1>2, ReadsGood DEF RunStep
  <1>7. Step(r, t) OBVIOUS
  <1> HIDE DEF u
  <1>8. /\ t.pc = "drift" /\ t.artifact = artifact /\ t.request = s.request
        /\ t.read = u.read /\ ~t.phase_a /\ t.faults = s.faults /\ t.drift = NotRun
        /\ t.conflicts = s.conflicts /\ t.outputs = NoOutputs
    BY <1>4, <1>5, IdleFacts DEF IsRun
  <1> HIDE DEF s, t
  <1>9. Asks(t) BY <1>5, <1>6, <1>8 DEF Asks
  <1>10. SavedIs(t) BY <1>5, <1>8 DEF SavedIs
  <1>11. DriftIs(t) BY <1>8 DEF DriftIs, NotRun
  <1>12. ConflictsAre(t)
    <2>1. "conflicts" \in DOMAIN t.read <=> "conflicts" \in DOMAIN s.read BY <1>5, <1>8
    <2>2. "conflicts" \in DOMAIN s.read => t.read["conflicts"] = s.read["conflicts"]
      BY <1>5, <1>8
    <2> QED BY <1>4, <1>8, <2>1, <2>2, ConflictsStay
  <1>13. ComparisonIs(t)
    <2>1. what # Nothing BY WorldIs
    <2>2. artifact # <<>> OBVIOUS
    <2> QED BY <1>5, <1>8, <2>1, <2>2 DEF ComparisonIs, ComparisonUsable, s
  <1>14. DOMAIN t.read = ObservationRead(t) \cup {"comparison"}
    BY <1>4, <1>5, <1>8 DEF ObservationRead
  <1>15. ReviewStage(t) BY <1>4, <1>8, <1>12, <1>13, <1>14 DEF ReviewStage
  <1>16. Stage(t) BY <1>8, <1>15 DEF Stage, PolicySteps, ReviewSteps
  <1>17. Good(t) BY <1>4, <1>8, <1>9, <1>10, <1>11, <1>16 DEF Good, Late
  <1> QED BY <1>7, <1>17, GoodStep

LEMMA ComparisonStep ==
    ASSUME SInv, GInv, NEW r \in Runs, ReviewComparison(r)
    PROVE  GInv'
  <1> DEFINE s == run[r]
             q == s.request
             from == run[q.comparison]
             saved == IF HasComparison(q) THEN from.artifact ELSE <<>>
             what == IF saved = <<>> THEN Nothing ELSE from.read["comparison"]
             loading == ReadsOf(r, what)
  <1>1. s.pc = "comparison" BY DEF ReviewComparison, At
  <1>2. Step(r, IF HasComparison(q)
                THEN IF saved # <<>> /\ AcceptsComparison(saved[1])
                     THEN [loading EXCEPT !.artifact = saved, !.pc = "drift"]
                     ELSE ReviewFailed(loading)
                ELSE IF SnapshotsCompare(world, q)
                     THEN [Reading(r) EXCEPT !.pc = "drift",
                              !.artifact = <<Compared(world.baseline, world.candidate)>>]
                     ELSE ReviewFailed(Reading(r)))
    BY DEF ReviewComparison
  <1>3. UNCHANGED <<world, scenario>> BY DEF ReviewComparison, Outside
  <1>4. Good(s) /\ IsRun(s) /\ world \in Worlds BY RunIs
  <1>5. s.faults \in Nat /\ Asks(s) /\ q.op = "review"
    BY <1>1, <1>4 DEF Good, RunStep, Stage, ReviewSteps, ReviewStage
  <1>6. ASSUME NEW x, Step(r, ReviewFailed(ReadsOf(r, x))),
               x = Nothing \/ (~HasComparison(q) /\ ~SnapshotsCompare(x, q))
        PROVE  GInv'
    <2> DEFINE u == ReadsOf(r, x)
    <2>1. /\ IsRun(u) /\ u.request = q /\ u.faults = s.faults
          /\ DOMAIN u.read = DOMAIN s.read \cup {"comparison"} /\ u.read["comparison"] = x
      BY <1>1, <1>4, ReadsFields
    <2>2. Asks(u) /\ SavedIs(u) /\ DriftIs(u) BY <1>1, <1>4, ReadsGood DEF RunStep
    <2>3. Step(r, ReviewFailed(u)) BY <1>6
    <2> HIDE DEF u
    <2>4. ~ComparisonUsable(u) BY <1>6, <2>1 DEF ComparisonUsable
    <2>5. ~Usable(u) BY <2>1, <2>4 DEF Usable
    <2> HIDE DEF s, q
    <2>6. u.faults \in Nat BY <1>5, <2>1
    <2> QED BY <1>3, <2>1, <2>2, <2>3, <2>5, <2>6, GoodReviewFailure
  <1>7. CASE HasComparison(q)
    <2>1. q.comparison \in Runs BY <1>5, <1>7 DEF Asks, HasComparison
    <2>2. SavedIs(from)
      <3>1. Good(from) BY <2>1 DEF GInv
      <3> QED BY <3>1 DEF Good
    <2>3. saved = from.artifact BY <1>7
    <2>4. CASE saved = <<>>
      <3>1. what = Nothing BY <2>4
      <3>2. Step(r, ReviewFailed(loading)) BY <1>2, <1>7, <2>4
      <3>3. Step(r, ReviewFailed(ReadsOf(r, Nothing))) BY <3>1, <3>2
      <3> QED BY <1>6, <3>3
    <2>5. CASE saved # <<>>
      <3> DEFINE compared == from.read["comparison"]
      <3>1. /\ compared \in Worlds /\ Projects(compared.baseline) /\ Projects(compared.candidate)
            /\ saved = <<Compared(compared.baseline, compared.candidate)>>
            /\ AcceptsComparison(saved[1])
        BY <2>2, <2>3, <2>5 DEF SavedIs
      <3>2. what = compared BY <2>5
      <3>3. Step(r, [loading EXCEPT !.artifact = saved, !.pc = "drift"])
        BY <1>2, <1>7, <2>5, <3>1
      <3>4. Step(r, [ReadsOf(r, compared) EXCEPT !.artifact = saved, !.pc = "drift"])
        BY <3>2, <3>3
      <3>5. HasComparison(run[r].request) BY <1>7
      <3> HIDE DEF saved, compared
      <3> QED BY <1>1, <1>3, <3>1, <3>4, <3>5, ComparisonGood
    <2> QED BY <2>4, <2>5
  <1>8. CASE ~HasComparison(q) /\ SnapshotsCompare(world, q)
    <2> DEFINE artifact == <<Compared(world.baseline, world.candidate)>>
    <2>1. /\ Projects(world.baseline) /\ Projects(world.candidate)
          /\ Comparable(world.baseline, world.candidate, q.align)
      BY <1>8 DEF SnapshotsCompare, Comparable
    <2>2. Shaped(world.baseline) /\ Shaped(world.candidate) BY <1>4, WorldIs
    <2>3. AcceptsComparison(Compared(world.baseline, world.candidate))
      BY <2>1, <2>2, CompareAccepts
    <2>4. Step(r, [ReadsOf(r, world) EXCEPT !.artifact = artifact, !.pc = "drift"])
      BY <1>2, <1>8 DEF Reading
    <2>5. AcceptsComparison(artifact[1]) BY <2>3
    <2>6. artifact = <<Compared(world.baseline, world.candidate)>> OBVIOUS
    <2>7. SnapshotsCompare(world, run[r].request) BY <1>8
    <2> HIDE DEF artifact
    <2> QED BY <1>1, <1>3, <1>4, <2>1, <2>4, <2>5, <2>6, <2>7, ComparisonGood
  <1>9. CASE ~HasComparison(q) /\ ~SnapshotsCompare(world, q)
    <2>1. Step(r, ReviewFailed(ReadsOf(r, world))) BY <1>2, <1>9 DEF Reading
    <2> QED BY <1>6, <1>9, <2>1
  <1> QED BY <1>7, <1>8, <1>9

LEMMA DriftStep ==
    ASSUME SInv, GInv, NEW r \in Runs, ReviewDrift(r)
    PROVE  GInv'
  <1> DEFINE s == run[r]
             q == s.request
             w == world
             policy == DriftPolicyFor(w, q)
             comparison == s.artifact[1]
             block == DriftBlock(comparison, DriftResult(comparison, policy))
             u == Reading(r)
             t == [u EXCEPT !.pc = "result", !.drift = block]
             compared == s.read["comparison"]
             b == compared.baseline
             c == compared.candidate
             rules == IF q.policy THEN w.drift_policy ELSE {}
  <1>1. s.pc = "drift" BY DEF ReviewDrift, At
  <1>2. IF (q.policy => DriftPolicyLoads(w.drift_policy)) /\ DriftBuilds(comparison, policy)
        THEN Step(r, t) ELSE Step(r, ReviewFailed(u))
    BY DEF ReviewDrift
  <1>3. UNCHANGED <<world, scenario>> BY DEF ReviewDrift, Outside
  <1>4. Good(s) /\ IsRun(s) /\ w \in Worlds BY RunIs
  <1>5. Stage(s) /\ ReviewStage(s)
    BY <1>1, <1>4 DEF Good, RunStep, Stage, ReviewSteps
  <1>6. /\ s.faults \in Nat /\ DOMAIN s.read = ObservationRead(s) \cup {"comparison"}
        /\ q.op = "review" /\ DriftLane(q) /\ ~s.phase_a /\ ConflictsAre(s)
        /\ s.outputs = NoOutputs /\ ComparisonIs(s) /\ SavedIs(s) /\ s.artifact # <<>>
    <2>1. "comparison" \in DOMAIN s.read BY <1>1, <1>5 DEF ReviewStage
    <2> QED BY <1>1, <1>4, <1>5, <2>1 DEF Good, Stage, ReviewStage, ComparisonIs, Late
  <1>7. /\ compared \in Worlds /\ Projects(b) /\ Projects(c)
        /\ comparison = Compared(b, c)
    BY <1>6 DEF SavedIs
  <1>8. /\ IsRun(u) /\ u.request = q /\ u.phase_a = s.phase_a /\ u.faults = s.faults
        /\ u.artifact = s.artifact /\ u.drift = s.drift /\ u.conflicts = s.conflicts
        /\ u.outputs = s.outputs /\ DOMAIN u.read = DOMAIN s.read \cup {"drift"} /\ u.read["drift"] = w
        /\ \A pc \in DOMAIN s.read : pc # "drift" => u.read[pc] = s.read[pc]
    BY <1>1, <1>4, ReadsFields DEF Reading
  <1>9. Asks(u) /\ SavedIs(u) /\ DriftIs(u)
    BY <1>1, <1>4, ReadsGood DEF Reading, RunStep
  <1>10. u.read["comparison"] = compared /\ "comparison" \in DOMAIN u.read
    BY <1>6, <1>8
  <1>11. (q.policy => DriftPolicyLoads(w.drift_policy)) /\ DriftBuilds(comparison, policy)
            <=> DriftUsable(u)
    <2>1. DriftUsable(u) <=> IF q.policy THEN DriftPolicyLoads(w.drift_policy)
                             ELSE Projection(b) = Projection(c)
      BY <1>8, <1>10 DEF DriftUsable
    <2>2. Compared(b, c).status = "identical" <=> Projection(b) = Projection(c)
      BY <1>7, Identical
    <2>3. policy = IF q.policy THEN <<w.drift_policy>> ELSE <<>> BY DEF DriftPolicyFor
    <2>4. q.policy => policy # <<>> BY <2>3
    <2>5. ~q.policy => policy = <<>> BY <2>3
    <2>6. comparison.status = "identical" <=> Projection(b) = Projection(c)
      BY <1>7, <2>2
    <2> HIDE DEF policy, comparison, b, c, u, q, w
    <2> QED BY <2>1, <2>4, <2>5, <2>6 DEF DriftBuilds
  <1>12. Drifted(u) <=> UnexpectedDifference(b, c, rules) BY <1>8, <1>10 DEF Drifted
  <1>13. DriftUsable(u) => /\ block.status # "not_run" /\ DriftCoherent(block)
                           /\ block.status = "unexpected_drift" <=> UnexpectedDifference(b, c, rules)
    <2> SUFFICES ASSUME DriftUsable(u)
                 PROVE  /\ block.status # "not_run" /\ DriftCoherent(block)
                        /\ block.status = "unexpected_drift" <=> UnexpectedDifference(b, c, rules)
      OBVIOUS
    <2>1. Shaped(b) /\ Shaped(c) BY <1>7, WorldIs
    <2>2. Sided(w.drift_policy) BY <1>4, WorldIs
    <2>3. \/ policy = <<>> /\ rules = {} /\ Projection(b) = Projection(c)
          \/ policy = <<rules>> /\ PolicyUnambiguous(rules) /\ Sided(rules)
      <3>1. CASE q.policy
        <4>1. rules = w.drift_policy /\ policy = <<rules>> BY <3>1 DEF DriftPolicyFor
        <4>2. DriftPolicyLoads(w.drift_policy) BY <1>8, <3>1 DEF DriftUsable
        <4> QED BY <2>2, <4>1, <4>2 DEF DriftPolicyLoads
      <3>2. CASE ~q.policy
        <4>1. rules = {} /\ policy = <<>> BY <3>2 DEF DriftPolicyFor
        <4>2. Projection(b) = Projection(c) BY <1>8, <1>10, <3>2 DEF DriftUsable
        <4> QED BY <4>1, <4>2
      <3> QED BY <3>1, <3>2
    <2>4. block = DriftBlock(Compared(b, c), DriftResult(Compared(b, c), policy))
      BY <1>7
    <2> HIDE DEF block, policy, rules, b, c
    <2>5. LET d == DriftBlock(Compared(b, c), DriftResult(Compared(b, c), policy))
          IN  /\ d.status # "not_run" /\ DriftCoherent(d)
              /\ d.status = "unexpected_drift" <=> UnexpectedDifference(b, c, rules)
      BY <1>7, <2>1, <2>3, DriftTruth
    <2> QED BY <2>4, <2>5
  <1> HIDE DEF u, block, policy, rules, b, c, compared, comparison
  <1>14. CASE ~DriftUsable(u)
    <2>1. Step(r, ReviewFailed(u)) BY <1>2, <1>11, <1>14
    <2>2. ~Usable(u) BY <1>8, <1>14 DEF Usable
    <2> HIDE DEF q, w, s
    <2>3. u.faults \in Nat BY <1>6, <1>8
    <2> QED BY <1>3, <1>8, <1>9, <2>1, <2>2, <2>3, GoodReviewFailure
  <1>15. CASE DriftUsable(u)
    <2>1. Step(r, t) BY <1>2, <1>11, <1>15
    <2>2. /\ t.pc = "result" /\ t.drift = block /\ SameInputs(u, t) /\ t.faults = s.faults
          /\ t.artifact = s.artifact /\ t.conflicts = s.conflicts /\ t.outputs = s.outputs
      BY <1>8, IdleFacts DEF IsRun, SameInputs
    <2> HIDE DEF t
    <2>3. t.read = u.read /\ t.request = q /\ ~t.phase_a BY <1>6, <1>8, <2>2 DEF SameInputs
    <2>4. Asks(t) /\ SavedIs(t) BY <1>8, <1>9, <2>2, <2>3 DEF Asks, SavedIs
    <2>5. DriftIs(t) BY <1>12, <1>13, <1>15, <2>2, SameVerdict DEF DriftIs
    <2>6. ConflictsAre(t)
      <3>1. "conflicts" \in DOMAIN t.read <=> "conflicts" \in DOMAIN s.read BY <1>8, <2>3
      <3>2. "conflicts" \in DOMAIN s.read => t.read["conflicts"] = s.read["conflicts"]
        BY <1>8, <2>3
      <3> HIDE DEF s
      <3> QED BY <1>6, <2>2, <2>3, <3>1, <3>2, ConflictsStay DEF q
    <2>7. ComparisonIs(t)
      <3>1. ComparisonUsable(s) BY <1>6 DEF ComparisonIs
      <3>2. ComparisonUsable(t)
        BY <1>10, <2>3, <3>1 DEF ComparisonUsable, compared
      <3> QED BY <1>6, <2>2, <3>2 DEF ComparisonIs
    <2>8. DriftUsable(t) BY <1>15, <2>2, <2>3, <1>8 DEF DriftUsable
    <2>9. DOMAIN t.read = ObservationRead(t) \cup {"comparison", "drift"}
      BY <1>6, <1>8, <2>3 DEF ObservationRead
    <2>10. t.drift.status # "not_run" BY <1>13, <1>15, <2>2
    <2>11. ReviewStage(t)
      BY <1>6, <2>2, <2>3, <2>6, <2>7, <2>8, <2>9, <2>10 DEF ReviewStage
    <2>12. Stage(t) BY <2>2, <2>3, <2>11 DEF Stage, PolicySteps, ReviewSteps
    <2>13. Good(t) BY <1>6, <2>2, <2>4, <2>5, <2>12 DEF Good, Late
    <2> QED BY <1>3, <2>1, <2>13, GoodStep
  <1> QED BY <1>14, <1>15

LEMMA ResultStep ==
    ASSUME SInv, GInv, NEW r \in Runs, ReviewResult(r)
    PROVE  GInv'
  <1> DEFINE s == run[r]
             result == BuildReview(s.conflicts, s.drift)
             o == [Outcome(result.status, "", DesiredExit(result.status, s.request.failOn))
                      EXCEPT !.review = result.status]
  <1>1. s.pc = "result" BY DEF ReviewResult, At
  <1>2. IF ReviewValid(result) THEN Step(r, Ran(s, o))
        ELSE Step(r, Ran(s, [Failed("action_contract_invalid") EXCEPT !.review = "failed"]))
    BY DEF ReviewResult
  <1>3. UNCHANGED <<world, scenario>> BY DEF ReviewResult, Outside
  <1>4. Good(s) /\ IsRun(s) BY RunIs
  <1>5. Stage(s) /\ ReviewStage(s)
    BY <1>1, <1>4 DEF Good, RunStep, Stage, ReviewSteps
  <1>6. s.faults \in Nat /\ Asks(s) /\ SavedIs(s) /\ DriftIs(s) BY <1>4 DEF Good
  <1>7. /\ ~s.phase_a /\ ConflictsAre(s) /\ ComparisonIs(s)
        /\ s.request.observations \/ DriftLane(s.request)
        /\ DOMAIN s.read = ObservationRead(s) \cup
                            (IF DriftLane(s.request) THEN {"comparison", "drift"} ELSE {})
        /\ s.drift.status = "not_run" <=> ~DriftLane(s.request)
        /\ "drift" \in DOMAIN s.read => DriftUsable(s)
    BY <1>1, <1>5 DEF Stage, ReviewStage
  <1>8. ReviewValid(result)
        /\ result.status = (IF s.conflicts.status = "blocked" \/ s.drift.status = "unexpected_drift"
                            THEN "blocked" ELSE "passed")
    <2> DEFINE conflicts == s.conflicts drift == s.drift
    <2>1. /\ conflicts.status # "not_run" => ConflictsCoherent(conflicts)
          /\ drift.status # "not_run" => DriftCoherent(drift)
      BY <1>6, <1>7 DEF ConflictsAre, DriftIs
    <2>2. result = BuildReview(conflicts, drift) OBVIOUS
    <2> HIDE DEF conflicts, drift
    <2>3. /\ ReviewValid(BuildReview(conflicts, drift))
          /\ BuildReview(conflicts, drift).status
                = (IF conflicts.status = "blocked" \/ drift.status = "unexpected_drift"
                   THEN "blocked" ELSE "passed")
      BY <2>1, ReviewIsValid
    <2> QED BY <2>2, <2>3 DEF conflicts, drift
  <1>9. Usable(s)
    <2>1. DOMAIN s.read \subseteq {"conflicts", "comparison", "drift"}
          /\ DOMAIN s.read \cap {"conflicts", "comparison"} # {}
      BY <1>7 DEF ObservationRead
    <2>2. "conflicts" \in DOMAIN s.read => ConflictsLoad(s.read["conflicts"], s.request)
      BY <1>7 DEF ConflictsAre
    <2>3. "comparison" \in DOMAIN s.read => ComparisonUsable(s) BY <1>7 DEF ComparisonIs
    <2> QED BY <1>7, <2>1, <2>2, <2>3 DEF Usable
  <1>10. result.status = "blocked" <=> Objected(s)
    <2>1. s.conflicts.status = "blocked" <=> Contested(s) BY <1>7 DEF ConflictsAre
    <2>2. s.drift.status = "unexpected_drift" <=> "drift" \in DOMAIN s.read /\ Drifted(s)
      BY <1>6, <1>7 DEF DriftIs, ObservationRead
    <2>3. "check" \notin DOMAIN s.read /\ "plan" \notin DOMAIN s.read
      BY <1>7 DEF ObservationRead
    <2> HIDE DEF s, result
    <2> QED BY <1>8, <2>1, <2>2, <2>3 DEF Objected
  <1>11. o.status = result.status /\ o.plan_path = FALSE /\ Silent(o)
         /\ o.desired = DesiredExit(result.status, s.request.failOn)
    <2> DEFINE status == result.status
               desired == DesiredExit(status, s.request.failOn)
    <2> HIDE DEF status, desired
    <2> DEFINE p == Outcome(status, "", desired)
    <2>1. /\ p.status = status /\ p.plan_path = FALSE /\ p.desired = desired
          /\ p.impact = "not_run"
          /\ DOMAIN p = {"status", "failure", "desired", "plan_path", "impact", "review"}
      BY DEF Outcome, NoOutputs
    <2>2. o = [p EXCEPT !.review = status] BY DEF status, desired
    <2> HIDE DEF p, o
    <2>3. o.status = status /\ o.plan_path = FALSE /\ o.desired = desired /\ Silent(o)
      BY <2>1, <2>2 DEF Silent
    <2> QED BY <2>3 DEF status, desired
  <1>12. Step(r, Ran(s, o)) BY <1>2, <1>8
  <1> HIDE DEF o
  <1>13. CASE result.status = "blocked"
    <2>1. /\ o.status = "blocked" /\ o.desired = DesiredExit("blocked", s.request.failOn)
          /\ Objected(s) /\ o.plan_path = FALSE /\ Silent(o)
      BY <1>10, <1>11, <1>13
    <2> HIDE DEF s
    <2> QED BY <1>3, <1>4, <1>6, <1>9, <1>12, <2>1, GoodVerdict
  <1>14. CASE result.status = "passed"
    <2>1. /\ o.status = "passed" /\ o.desired = 0 /\ ~Objected(s) /\ o.plan_path = FALSE
          /\ Silent(o)
      <3>1. ~Objected(s) BY <1>10, <1>14
      <3>2. DesiredExit("passed", s.request.failOn) = 0 BY DEF DesiredExit
      <3> QED BY <1>11, <1>14, <3>1, <3>2
    <2> HIDE DEF s
    <2> QED BY <1>3, <1>4, <1>6, <1>9, <1>12, <2>1, GoodVerdict
  <1> QED BY <1>8, <1>13, <1>14

\* A step that fails by a fault of its own: an artifact that cannot be written, a crash.
LEMMA FaultStep ==
    ASSUME SInv, GInv, NEW r \in Runs, WriteFails(r) \/ CrashRun(r)
    PROVE  GInv'
  <1> DEFINE s == run[r]
             u == Faulty(s)
             o == [Failed("operational_failure") EXCEPT !.review = "failed"]
  <1>1. UNCHANGED <<world, scenario>> BY DEF WriteFails, CrashRun
  <1>2. Good(s) /\ IsRun(s) BY RunIs
  <1>3. s.faults \in Nat /\ Asks(s) /\ SavedIs(s) /\ DriftIs(s) BY <1>2 DEF Good
  <1>4. IsRun(u) /\ SameInputs(s, u) /\ u.faults = s.faults + 1 /\ u.artifact = s.artifact
        /\ u.drift = s.drift
    BY <1>2, FaultyFields
  <1>5. Step(r, Ran(u, o)) \/ Step(r, Ran(u, NoOutputs)) BY DEF WriteFails, CrashRun
  <1>6. o.status = "failed" /\ o.desired = 1 /\ o.plan_path = FALSE /\ Silent(o)
    BY ReviewFailureFields
  <1>7. NoOutputs.status = "" /\ NoOutputs.plan_path = FALSE /\ Silent(NoOutputs)
    BY DEF NoOutputs, Silent
  <1> HIDE DEF s, u, o
  <1>8. Asks(u) /\ SavedIs(u) BY <1>3, <1>4 DEF Asks, SavedIs, SameInputs
  <1>9. DriftIs(u) BY <1>3, <1>4, SameVerdict DEF DriftIs
  <1>10. u.faults \in Nat /\ u.faults # 0 BY <1>3, <1>4
  <1>11. CASE Step(r, Ran(u, o))
    BY <1>1, <1>4, <1>6, <1>8, <1>9, <1>10, <1>11, GoodFailure
  <1>12. CASE Step(r, Ran(u, NoOutputs))
    <2> DEFINE t == Ran(u, NoOutputs)
    <2>1. t.outputs = NoOutputs /\ t.faults = u.faults BY <1>4, RanFields
    <2>2. Verdicts(t)
      <3> HIDE DEF t
      <3> QED BY <1>7, <1>10, <2>1 DEF Verdicts
    <2>3. Good(t) BY <1>4, <1>8, <1>9, <1>10, <2>2, GoodEnd
    <2> QED BY <1>1, <1>12, <2>3, GoodStep
  <1> QED BY <1>5, <1>11, <1>12

\* Every step of the run step.
LEMMA RunStepsGood ==
    ASSUME SInv, GInv, NEW r \in Runs, RunSteps(r)
    PROVE  GInv'
  BY StartStep, ValidateStep, CheckStep, PlanStep, ImpactStep, ConflictsStep, ComparisonStep,
     DriftStep, ResultStep, FaultStep DEF RunSteps

-----------------------------------------------------------------------------
(* The comment, the gate and what others do.                               *)

\* What is done about the comment leaves the verdict alone.
LEMMA CommentKeeps ==
    ASSUME SInv, GInv, NEW r \in Runs, run[r].pc \in Late, NEW t, Step(r, t),
           UNCHANGED <<world, scenario>>,
           SameInputs(run[r], t), t.outputs = run[r].outputs, t.artifact = run[r].artifact,
           t.drift = run[r].drift, t.faults \in Nat, run[r].faults # 0 => t.faults # 0,
           t.pc \in Late,
           t.pc = "done" =>
             t.exit = (IF t.comment = "failed" \/ t.phase_a \/ t.outputs.status = "" THEN 1
                       ELSE t.outputs.desired)
    PROVE  GInv'
  <1> DEFINE s == run[r]
  <1>1. Good(s) BY RunIs
  <1>2. s.faults \in Nat /\ Asks(s) /\ SavedIs(s) /\ DriftIs(s) /\ Verdicts(s)
    BY <1>1 DEF Good
  <1>3. /\ SameInputs(s, t) /\ t.outputs = s.outputs /\ t.artifact = s.artifact
        /\ t.drift = s.drift /\ t.faults \in Nat
        /\ s.faults # 0 => t.faults # 0
    OBVIOUS
  <1> HIDE DEF s
  <1>4. t.faults \in Nat /\ (s.faults # 0 => t.faults # 0) BY <1>3
  <1>5. /\ Usable(t) <=> Usable(s)
        /\ Objected(t) <=> Objected(s)
        /\ PlannedAsChecked(t) <=> PlannedAsChecked(s)
        /\ Drifted(t) <=> Drifted(s)
        /\ \A impact : ImpactTold(t, impact) <=> ImpactTold(s, impact)
    BY <1>3, SameVerdict
  <1>6. t.request = s.request BY <1>3 DEF SameInputs
  <1>7. Verdicts(t) BY <1>2, <1>3, <1>4, <1>5, <1>6 DEF Verdicts
  <1>8. Asks(t) /\ SavedIs(t) BY <1>2, <1>3 DEF Asks, SavedIs, SameInputs
  <1>9. DriftIs(t) BY <1>2, <1>3, <1>5 DEF DriftIs
  <1>10. Good(t) BY <1>4, <1>7, <1>8, <1>9 DEF Good, Late, RunStep
  <1> QED BY <1>10, GoodStep

LEMMA PublishedFields ==
    ASSUME NEW s, IsRun(s), NEW status
    PROVE  LET t == Published(s, status) IN
           /\ SameInputs(s, t) /\ t.outputs = s.outputs /\ t.artifact = s.artifact
           /\ t.drift = s.drift /\ t.faults = s.faults /\ t.pc = "finalize"
  BY IdleFacts DEF IsRun, Published, SameInputs

LEMMA PublishedKeeps ==
    ASSUME SInv, GInv, NEW r \in Runs, run[r].pc \in Late, NEW u, NEW status,
           u = run[r] \/ u = Faulty(run[r]), Step(r, Published(u, status)),
           UNCHANGED <<world, scenario>>
    PROVE  GInv'
  <1> DEFINE s == run[r]
             t == Published(u, status)
  <1>1. IsRun(s) /\ Good(s) BY RunIs
  <1>2. /\ IsRun(u) /\ SameInputs(s, u) /\ u.outputs = s.outputs /\ u.artifact = s.artifact
        /\ u.drift = s.drift /\ u.faults \in Nat
        /\ s.faults # 0 => u.faults # 0
    <2>0. s.faults \in Nat BY <1>1 DEF Good
    <2>1. CASE u = s BY <1>1, <2>0, <2>1 DEF SameInputs
    <2>2. CASE u = Faulty(s)
      <3>1. /\ IsRun(u) /\ SameInputs(s, u) /\ u.outputs = s.outputs /\ u.artifact = s.artifact
            /\ u.drift = s.drift /\ u.faults = s.faults + 1
        BY <1>1, <2>2, FaultyFields
      <3>2. u.faults \in Nat /\ u.faults # 0
        <4> HIDE DEF s
        <4> QED BY <2>0, <3>1
      <3> QED BY <3>1, <3>2
    <2> QED BY <2>1, <2>2
  <1>3. /\ SameInputs(u, t) /\ t.outputs = u.outputs /\ t.artifact = u.artifact
        /\ t.drift = u.drift /\ t.faults = u.faults /\ t.pc = "finalize"
    BY <1>2, PublishedFields
  <1> HIDE DEF t
  <1>4. /\ SameInputs(s, t) /\ t.outputs = s.outputs /\ t.artifact = s.artifact
        /\ t.drift = s.drift /\ t.faults \in Nat
        /\ s.faults # 0 => t.faults # 0
    BY <1>2, <1>3 DEF SameInputs
  <1>5. t.pc \in Late /\ t.pc # "done" BY <1>3 DEF Late
  <1>6. Step(r, t) BY DEF t
  <1> QED BY <1>4, <1>5, <1>6, CommentKeeps

LEMMA CommentStepsGood ==
    ASSUME SInv, GInv, NEW r \in Runs, CommentSteps(r)
    PROVE  GInv'
  <1> DEFINE s == run[r]
  <1>1. IsRun(s) /\ Good(s) BY RunIs
  <1>0. s.faults \in Nat BY <1>1 DEF Good
  <1>2. UNCHANGED <<world, scenario>> /\ s.pc \in Late
    BY DEF CommentSteps, EmitCommentState, FindPage, RequestFails, PostComment, PatchComment,
           Finalize, At, Outside, Late
  <1>3. CASE EmitCommentState(r)
    <2> DEFINE state == CommentState(s.request, s.phase_a)
               t == [s EXCEPT !.comment = state,
                              !.pc = IF state = "" THEN "find" ELSE "finalize"]
    <2>1. Step(r, t) BY <1>3 DEF EmitCommentState
    <2> HIDE DEF state
    <2>2. /\ SameInputs(s, t) /\ t.outputs = s.outputs /\ t.artifact = s.artifact
          /\ t.drift = s.drift /\ t.faults = s.faults /\ t.pc \in Late /\ t.pc # "done"
      BY <1>1, IdleFacts DEF IsRun, SameInputs, Late
    <2> HIDE DEF t
    <2> QED BY <1>0, <1>2, <2>1, <2>2, CommentKeeps
  <1>4. CASE FindPage(r)
    <2> DEFINE items == PageItems(s.page)
               found == {n \in DOMAIN items : items[n].marker}
               visible == {comments[n].by : n \in {m \in Markers : m <= PerPage * MaxPages}}
               record == IF s.page > 1 THEN s ELSE [s EXCEPT !.visible = visible]
    <2>1. Step(r, CASE s.outputs.status = "" -> Published(s, "failed")
                    [] s.outputs.status # "" /\ found # {} ->
                         [record EXCEPT !.sticky = items[Min(found)].by, !.pc = "patch"]
                    [] s.outputs.status # "" /\ found = {} ->
                         IF Len(items) < PerPage \/ s.page = MaxPages
                         THEN [record EXCEPT !.pc = "post"]
                         ELSE [record EXCEPT !.page = s.page + 1])
      BY <1>4 DEF FindPage
    <2>2. s.pc = "find" BY <1>4 DEF FindPage, At
    <2> HIDE DEF items, found, visible
    <2>3. /\ IsRun(record) /\ SameInputs(s, record) /\ record.outputs = s.outputs
          /\ record.artifact = s.artifact /\ record.drift = s.drift
          /\ record.faults = s.faults /\ record.pc = "find"
      <3>1. CASE s.page > 1 BY <1>1, <2>2, <3>1 DEF SameInputs
      <3>2. CASE ~(s.page > 1) BY <1>1, <2>2, <3>2, IdleFacts DEF IsRun, SameInputs
      <3> QED BY <3>1, <3>2
    <2>4. PICK by : items[Min(found)].by = by OBVIOUS
    <2> HIDE DEF record
    <2>5. \/ Step(r, Published(s, "failed"))
          \/ Step(r, [record EXCEPT !.sticky = by, !.pc = "patch"])
          \/ Step(r, [record EXCEPT !.pc = "post"])
          \/ Step(r, [record EXCEPT !.page = s.page + 1])
      BY <2>1, <2>4
    <2>6. CASE Step(r, Published(s, "failed")) BY <1>2, <2>6, PublishedKeeps
    <2>7. ASSUME NEW t, Step(r, t),
                 \/ t = [record EXCEPT !.sticky = by, !.pc = "patch"]
                 \/ t = [record EXCEPT !.pc = "post"]
                 \/ t = [record EXCEPT !.page = s.page + 1]
          PROVE  GInv'
      <3>1. /\ SameInputs(record, t) /\ t.outputs = record.outputs /\ t.artifact = record.artifact
            /\ t.drift = record.drift /\ t.faults = record.faults
            /\ t.pc \in {"patch", "post", "find"}
        <4>1. {"pc", "sticky", "page"} \subseteq DOMAIN record
          BY <2>3, IdleFacts DEF IsRun
        <4>2. CASE t = [record EXCEPT !.sticky = by, !.pc = "patch"]
          BY <4>1, <4>2 DEF SameInputs
        <4>3. CASE t = [record EXCEPT !.pc = "post"]
          BY <4>1, <4>3 DEF SameInputs
        <4>4. CASE t = [record EXCEPT !.page = s.page + 1]
          BY <2>3, <4>1, <4>4 DEF SameInputs
        <4> QED BY <2>7, <4>2, <4>3, <4>4
      <3>2. /\ SameInputs(s, t) /\ t.outputs = s.outputs /\ t.artifact = s.artifact
            /\ t.drift = s.drift /\ t.faults = s.faults
        BY <2>3, <3>1 DEF SameInputs
      <3>3. t.pc \in Late /\ t.pc # "done" BY <3>1 DEF Late
      <3> QED BY <1>0, <1>2, <2>7, <3>2, <3>3, CommentKeeps
    <2> QED BY <2>5, <2>6, <2>7
  <1>5. CASE RequestFails(r)
    <2>1. Step(r, Published(Faulty(s), "failed")) BY <1>5 DEF RequestFails
    <2> QED BY <1>2, <2>1, PublishedKeeps
  <1>6. CASE PostComment(r)
    <2>1. Step(r, Published(s, "created")) \/ Step(r, Published(Faulty(s), "failed"))
      BY <1>6 DEF PostComment
    <2> QED BY <1>2, <2>1, PublishedKeeps
  <1>7. CASE PatchComment(r)
    <2>1. PICK status : Step(r, Published(s, status)) BY <1>7 DEF PatchComment
    <2> QED BY <1>2, <2>1, PublishedKeeps
  <1>8. CASE Finalize(r)
    <2> DEFINE exit == IF s.comment = "failed" \/ s.phase_a \/ s.outputs.status = "" THEN 1
                       ELSE s.outputs.desired
               t == [s EXCEPT !.pc = "done", !.exit = exit]
    <2>1. Step(r, t) BY <1>8 DEF Finalize
    <2>2. /\ SameInputs(s, t) /\ t.outputs = s.outputs /\ t.artifact = s.artifact
          /\ t.drift = s.drift /\ t.faults = s.faults /\ t.pc = "done" /\ t.exit = exit
          /\ t.comment = s.comment
      <3> HIDE DEF exit
      <3> QED BY <1>1, IdleFacts DEF IsRun, SameInputs
    <2> HIDE DEF t
    <2>3. t.exit = (IF t.comment = "failed" \/ t.phase_a \/ t.outputs.status = "" THEN 1
                    ELSE t.outputs.desired)
      BY <2>2 DEF SameInputs
    <2>4. t.pc \in Late BY <2>2 DEF Late
    <2> QED BY <1>0, <1>2, <2>1, <2>2, <2>3, <2>4, CommentKeeps
  <1> QED BY <1>3, <1>4, <1>5, <1>6, <1>7, <1>8 DEF CommentSteps

\* A search that is disturbed by a deletion: nothing else of the record changes.
LEMMA ShiftedGood ==
    ASSUME NEW s, IsRun(s), Good(s), NEW shifted, s.pc = "idle" => shifted = FALSE
    PROVE  Good([s EXCEPT !.shifted = shifted])
  <1> DEFINE t == [s EXCEPT !.shifted = shifted]
  <1>1. /\ SameInputs(s, t) /\ t.outputs = s.outputs /\ t.artifact = s.artifact
        /\ t.drift = s.drift /\ t.faults = s.faults /\ t.pc = s.pc /\ t.exit = s.exit
        /\ t.comment = s.comment /\ t.config = s.config /\ t.report = s.report
        /\ t.conflicts = s.conflicts
    BY IdleFacts DEF IsRun, SameInputs
  <1>2. t.read = s.read /\ t.request = s.request /\ t.phase_a = s.phase_a
    BY <1>1 DEF SameInputs
  <1>3. s.pc = "idle" => t = Idle
    <2> SUFFICES ASSUME s.pc = "idle" PROVE t = Idle OBVIOUS
    <2>1. s = Idle BY DEF Good
    <2>2. Idle = [Idle EXCEPT !.shifted = FALSE]
      <3>1. Idle = [field \in DOMAIN Idle |-> Idle[field]] BY DEF Idle
      <3> QED BY <3>1, IdleFacts
    <2> QED BY <2>1, <2>2
  <1> HIDE DEF t
  <1>4. /\ Usable(t) <=> Usable(s)
        /\ Objected(t) <=> Objected(s)
        /\ PlannedAsChecked(t) <=> PlannedAsChecked(s)
        /\ Drifted(t) <=> Drifted(s)
        /\ Contested(t) <=> Contested(s)
        /\ \A impact : ImpactTold(t, impact) <=> ImpactTold(s, impact)
    BY <1>1, SameVerdict
  <1>5. t.faults \in Nat /\ Asks(t) /\ SavedIs(t) BY <1>1, <1>2 DEF Good, Asks, SavedIs
  <1>6. DriftIs(t) BY <1>1, <1>4 DEF Good, DriftIs
  <1>7. s.pc \in Late => Verdicts(t) BY <1>1, <1>2, <1>4 DEF Good, Verdicts
  <1>8. PolicyStage(s) => PolicyStage(t) BY <1>1, <1>2 DEF PolicyStage
  <1>9. ReviewStage(s) => ReviewStage(t)
    <2>1. ConflictsAre(s) => ConflictsAre(t) BY <1>1, <1>2, <1>4 DEF ConflictsAre
    <2>2. ComparisonUsable(s) <=> ComparisonUsable(t) BY <1>2 DEF ComparisonUsable
    <2>3. DriftUsable(s) <=> DriftUsable(t) BY <1>2 DEF DriftUsable
    <2>4. ComparisonIs(s) => ComparisonIs(t) BY <1>1, <1>2, <2>2 DEF ComparisonIs
    <2>5. ObservationRead(s) = ObservationRead(t) BY <1>2 DEF ObservationRead
    <2> QED BY <1>1, <1>2, <2>1, <2>3, <2>4, <2>5 DEF ReviewStage
  <1>10. Stage(s) => Stage(t) BY <1>1, <1>2, <1>8, <1>9 DEF Stage
  <1>11. Good(t) BY <1>1, <1>2, <1>3, <1>5, <1>6, <1>7, <1>10 DEF Good
  <1> QED BY <1>11 DEF t

LEMMA OthersGood ==
    ASSUME SInv, GInv, ChangeWorld \/ AddComment \/ DeleteComment
    PROVE  GInv'
  <1>1. CASE ChangeWorld
    <2>1. PICK w \in scenario.versions : world' = w BY <1>1 DEF ChangeWorld
    <2>2. UNCHANGED <<scenario, run>> BY <1>1 DEF ChangeWorld
    <2>3. PICK s \in Scenarios : scenario = s.may BY DEF GInv
    <2>4. world' \in Worlds BY <2>1, <2>3 DEF Worlds
    <2> QED BY <2>2, <2>4 DEF GInv
  <1>2. CASE AddComment
    <2>1. UNCHANGED <<world, scenario, run>> BY <1>2 DEF AddComment
    <2> QED BY <2>1 DEF GInv
  <1>3. CASE DeleteComment
    <2>1. UNCHANGED <<world, scenario>> BY <1>3 DEF DeleteComment
    <2>2. run' = [r \in Runs |-> [run[r] EXCEPT !.shifted = @ \/ BetweenPages(r)]]
      BY <1>3 DEF DeleteComment
    <2>3. ASSUME NEW r \in Runs PROVE Good(run'[r])
      <3> DEFINE s == run[r]
                 shifted == s.shifted \/ BetweenPages(r)
      <3>1. Good(s) /\ IsRun(s) BY RunIs
      <3>2. s.pc = "idle" => shifted = FALSE
        <4>1. s.pc = "idle" => s = Idle BY <3>1 DEF Good
        <4> QED BY <4>1, IdleFacts DEF BetweenPages, At
      <3>3. run'[r] = [s EXCEPT !.shifted = shifted] BY <2>2
      <3> HIDE DEF s, shifted
      <3>4. Good([s EXCEPT !.shifted = shifted]) BY <3>1, <3>2, ShiftedGood
      <3> QED BY <3>3, <3>4
    <2> QED BY <2>1, <2>3 DEF GInv
  <1> QED BY <1>1, <1>2, <1>3

LEMMA InitGInv == Init => GInv
  <1> SUFFICES ASSUME Init PROVE GInv OBVIOUS
  <1>1. world \in Worlds /\ scenario \in {s.may : s \in Scenarios} BY DEF Init, Worlds
  <1>2. ASSUME NEW r \in Runs PROVE Good(run[r])
    <2>1. run[r] = Idle BY DEF Init
    <2>2. /\ Idle.faults = 0 /\ Idle.artifact = <<>> /\ Idle.drift = NotRun
          /\ Idle.request = NoRequest /\ Idle.outputs = NoOutputs
      BY DEF Idle
    <2>3. NoRequest.op # "review" /\ NotRun.status = "not_run" BY DEF NoRequest, NotRun
    <2>4. Asks(Idle) /\ SavedIs(Idle) /\ DriftIs(Idle) BY <2>2, <2>3 DEF Asks, SavedIs, DriftIs
    <2>5. Good(Idle) BY <2>2, <2>4, IdleFacts DEF Good, RunStep, Late
    <2> QED BY <2>1, <2>5
  <1> QED BY <1>1, <1>2 DEF GInv

-----------------------------------------------------------------------------
(* The impact of a run.                                                    *)

\* The graph of the sources is one that the search can be run on.
LEMMA WorldGraph ==
    ASSUME NEW w \in Worlds, NEW q, ImpactLoads(w, q)
    PROVE  LET graph == Graph(SourceNodes(w), SourceEdges(w))
           IN  Finite(graph) /\ Analysable(graph, w.changed)
  <1> DEFINE nodes == SourceNodes(w)
             edges == SourceEdges(w)
             graph == Graph(nodes, edges)
             N == Len(w.sources)
  <1>1. /\ w.sources \in Seq(Range(w.sources))
        /\ \A n \in DOMAIN w.sources :
            /\ IsFiniteSet(w.sources[n].nodes) /\ IsFiniteSet(w.sources[n].edges)
            /\ {i.identity : i \in w.sources[n].nodes} \subseteq Range(NodeOrder)
    BY WorldAssumption
  <1>2. DOMAIN w.sources = 1..N /\ N \in Nat BY <1>1, LenProperties
  <1>3. GraphBuilds(nodes, edges) /\ Analysable(graph, w.changed) BY DEF ImpactLoads
  <1>4. IsFiniteSet(nodes)
    <2> DEFINE f == [n \in 1..N |-> w.sources[n].nodes]
    <2>1. \A n \in 1..N : IsFiniteSet(f[n]) BY <1>1, <1>2
    <2>2. nodes = UNION {f[n] : n \in 1..N} BY <1>2 DEF SourceNodes
    <2> HIDE DEF f, N, nodes
    <2> QED BY <1>2, <2>1, <2>2, UnionIsFinite
  <1>5. IsFiniteSet(edges)
    <2> DEFINE f == [n \in 1..N |-> w.sources[n].edges]
    <2>1. \A n \in 1..N : IsFiniteSet(f[n]) BY <1>1, <1>2
    <2>2. edges = UNION {f[n] : n \in 1..N} BY <1>2 DEF SourceEdges
    <2> HIDE DEF f, N, edges
    <2> QED BY <1>2, <2>1, <2>2, UnionIsFinite
  <1>6. \A n \in nodes : n.identity \in Range(NodeOrder) BY <1>1 DEF SourceNodes
  <1> HIDE DEF nodes, edges
  <1>7. /\ graph.nodes = {n.identity : n \in nodes}
        /\ graph.edges = {[source |-> e.source, kind |-> e.kind, target |-> e.target] :
                            e \in edges}
    BY DEF Graph
  <1>8. IsFiniteSet(graph.nodes)
    <2> DEFINE f == [n \in nodes |-> n.identity]
    <2>1. f = [n \in nodes |-> f[n]] /\ DOMAIN f = nodes OBVIOUS
    <2>2. graph.nodes = {f[n] : n \in nodes} BY <1>7
    <2> HIDE DEF f, graph
    <2> QED BY <1>4, <2>1, <2>2, ImageIsFinite
  <1>9. IsFiniteSet(graph.edges)
    <2> DEFINE f == [e \in edges |-> [source |-> e.source, kind |-> e.kind, target |-> e.target]]
    <2>1. f = [e \in edges |-> f[e]] /\ DOMAIN f = edges OBVIOUS
    <2>2. graph.edges = {f[e] : e \in edges} BY <1>7
    <2> HIDE DEF f, graph
    <2> QED BY <1>5, <2>1, <2>2, ImageIsFinite
  <1>10. \A e \in edges : e.source \in graph.nodes /\ e.target \in graph.nodes
    BY <1>3, <1>7 DEF GraphBuilds
  <1>11. \A e \in graph.edges :
            /\ e = [source |-> e.source, kind |-> e.kind, target |-> e.target]
            /\ e.source \in graph.nodes /\ e.target \in graph.nodes
    <2> TAKE e \in graph.edges
    <2>1. PICK d \in edges : e = [source |-> d.source, kind |-> d.kind, target |-> d.target]
      BY <1>7
    <2> QED BY <1>10, <2>1
  <1>12. graph.nodes \subseteq Range(NodeOrder) BY <1>6, <1>7
  <1>13. Finite(graph) BY <1>8, <1>9, <1>11, <1>12 DEF Finite
  <1> QED BY <1>3, <1>13 DEF nodes, edges

-----------------------------------------------------------------------------
(* The theorems.                                                           *)

\* How far a run has come, what it has read and what it has made of it agree, in
\* every state: the inductive invariant of the gate (github_ci/runner.py:1183).
THEOREM GateInvariance == Spec => []GInv
  <1>1. SInv /\ GInv /\ [Next]_vars => GInv'
    <2> SUFFICES ASSUME SInv, GInv, [Next]_vars PROVE GInv' OBVIOUS
    <2>1. CASE UNCHANGED vars BY <2>1 DEF vars, GInv
    <2>2. CASE Next
      BY <2>2, RunStepsGood, CommentStepsGood, OthersGood DEF Next
    <2> QED BY <2>1, <2>2
  <1> QED BY <1>1, InitGInv, SearchInvariance, PTL DEF Spec

\* The exit code of the job is the verdict on what its steps read, whatever
\* changes between the reads and whatever fails (github_ci/runner.py:1183,
\* github_ci/finalize.py:333).
THEOREM GateTheorem == Spec => []GateTellsTheTruth
  <1>1. GInv => GateTellsTheTruth
    <2> SUFFICES ASSUME GInv, NEW r \in Runs, Done(r)
                 PROVE  LET blocking == run[r].request.failOn IN
                        /\ run[r].exit = 0 =>
                            /\ run[r].comment # "failed" /\ run[r].outputs.status # ""
                            /\ InputsFine(r) /\ (Objection(r) => ~blocking)
                        /\ run[r].exit = 3 => InputsFine(r) /\ Objection(r) /\ blocking
                        /\ run[r].faults = 0 /\ run[r].comment # "failed" /\ InputsFine(r) =>
                            run[r].exit = (IF Objection(r) /\ blocking THEN 3 ELSE 0)
                        /\ run[r].outputs.plan_path => PlanOfCheckedInputs(r)
      BY DEF GateTellsTheTruth
    <2> DEFINE s == run[r]
               o == s.outputs
    <2>1. /\ Objection(r) <=> Objected(s)
          /\ InputsFine(r) <=> Usable(s)
          /\ PlanOfCheckedInputs(r) <=> PlannedAsChecked(s)
      BY OfTheRecord
    <2>2. Verdicts(s)
          /\ s.exit = (IF s.comment = "failed" \/ s.phase_a \/ o.status = "" THEN 1
                       ELSE o.desired)
      BY DEF GInv, Good, Done, Late
    <2>3. o.status = "blocked" => o.desired = (IF s.request.failOn THEN 3 ELSE 0)
      BY <2>2 DEF Verdicts, DesiredExit
    <2>4. Usable(s) => ~s.phase_a BY DEF Usable
    <2>5. /\ o.status = "" => s.exit = 1 /\ s.faults # 0
          /\ o.status = "failed" => s.exit = 1 /\ (s.faults # 0 \/ ~Usable(s))
          /\ o.status \notin {"", "failed"} /\ s.comment = "failed" => s.exit = 1
          /\ o.status = "passed" /\ s.comment # "failed" => s.exit = 0
          /\ o.status = "passed" => Usable(s) /\ ~Objected(s)
          /\ o.status = "blocked" => Usable(s) /\ Objected(s)
          /\ o.status = "blocked" /\ s.comment # "failed" =>
                IF s.request.failOn THEN s.exit = 3 ELSE s.exit = 0
          /\ o.status \in {"", "failed", "passed", "blocked"}
          /\ o.plan_path => PlannedAsChecked(s)
      <3> HIDE DEF s, o
      <3> QED BY <2>2, <2>3, <2>4 DEF Verdicts, o
    <2>6. /\ s.exit = 0 => s.comment # "failed" /\ o.status \in {"passed", "blocked"}
          /\ s.exit = 0 /\ o.status = "blocked" => ~s.request.failOn
          /\ s.exit = 3 => o.status = "blocked" /\ s.request.failOn
      <3> HIDE DEF s, o
      <3>1. CASE o.status \in {"", "failed"}
        <4>1. s.exit = 1 BY <2>5, <3>1
        <4>2. s.exit # 0 /\ s.exit # 3 BY <4>1
        <4> QED BY <4>2
      <3>2. CASE o.status = "passed" BY <2>5, <3>2
      <3>3. CASE o.status = "blocked" BY <2>5, <3>3
      <3> QED BY <2>5, <3>1, <3>2, <3>3
    <2> QED BY <2>1, <2>5, <2>6
  <1> QED BY <1>1, GateInvariance, PTL

\* A comparison that one run has written is one that another accepts
\* (comparison/load.py:794), and the drift lane gives the verdict that the two
\* snapshots behind it deserve, by the policy that it read (drift/classify.py).
THEOREM SavedComparisonTheorem == Spec => []SavedComparisonReviewsAlike
  <1>1. GInv => SavedComparisonReviewsAlike
    <2> SUFFICES ASSUME GInv, NEW r \in Runs
                 PROVE  /\ run[r].artifact # <<>> => AcceptsComparison(run[r].artifact[1])
                        /\ run[r].request.op = "review" /\ run[r].drift.status # "not_run" =>
                            (run[r].drift.status = "unexpected_drift") <=> Drifts(r)
      BY DEF SavedComparisonReviewsAlike
    <2>1. SavedIs(run[r]) /\ DriftIs(run[r]) BY DEF GInv, Good
    <2>2. Drifts(r) <=> Drifted(run[r]) BY OfTheRecord
    <2> QED BY <2>1, <2>2 DEF SavedIs, DriftIs
  <1> QED BY <1>1, GateInvariance, PTL

\* The impact that a run publishes is what the graph it has read makes reachable
\* from the changed nodes, each node by the least of its shortest paths, however
\* large the graph is (domain/impact.py:420).
THEOREM ImpactTheorem == Spec => []ImpactIsReachability
  <1>1. GInv => ImpactIsReachability
    <2> SUFFICES ASSUME GInv, NEW r \in Runs, run[r].outputs.impact \in {"clear", "impacted"}
                 PROVE  LET impact == run[r].result.impact
                            graph == run[r].result.graph
                            core == impact.changed \cup impact.direct \cup impact.transitive
                            path(i) == IF i \in impact.changed THEN NoPath(i)
                                       ELSE impact.paths[i]
                            distance(i) == Len(path(i).steps)
                        IN  /\ impact.changed = ReadAt(r, "impact").changed
                            /\ run[r].outputs.impact
                                 = (IF core = impact.changed THEN "clear" ELSE "impacted")
                            /\ \A a \in core, b \in graph.nodes : Affects(graph, a, b) =>
                                b \in core /\ distance(b) <= distance(a) + 1
                            /\ \A i \in core \ impact.changed :
                                LET steps == path(i).steps
                                IN  /\ (i \in impact.direct) <=> Len(steps) = 1
                                    /\ steps[1].from \in impact.changed /\ Last(steps).to = i
                                    /\ \A n \in DOMAIN steps :
                                        Affects(graph, steps[n].from, steps[n].to)
                                    /\ \A n \in 1..Len(steps) - 1 :
                                        steps[n].to = steps[n + 1].from
                            /\ \A h \in Hops(graph) :
                                /\ h.from \in core /\ h.to \in core \ impact.changed
                                /\ distance(h.to) = distance(h.from) + 1
                                => LET other == ExtendPath(path(h.from), h)
                                   IN  other = path(h.to) \/ PathBefore(path(h.to), other)
      BY DEF ImpactIsReachability
    <2> DEFINE s == run[r]
               w == s.read["impact"]
               roots == w.changed
               graph == Graph(SourceNodes(w), SourceEdges(w))
               impact == Analysis(graph, roots)
    <2>1. ImpactTold(s, s.outputs.impact)
      <3>1. Good(s) BY DEF GInv
      <3>2. NoOutputs.impact = "not_run" BY DEF NoOutputs
      <3>3. s.outputs # NoOutputs BY <3>2
      <3>4. s.pc \in Late BY <3>1, <3>3 DEF Good
      <3> QED BY <3>1, <3>4 DEF Good, Verdicts, Silent
    <2>2. w \in Worlds /\ ImpactLoads(w, s.request) BY <2>1 DEF ImpactTold
    <2>3. Finite(graph) /\ Analysable(graph, roots) BY <2>2, WorldGraph
    <2>4. /\ s.result.graph = graph /\ s.result.impact = impact
          /\ s.outputs.impact = (IF impact.direct \cup impact.transitive = {} THEN "clear"
                                 ELSE "impacted")
      <3> DEFINE policies == IF s.request.configured THEN <<PoliciesOf(w.policies)>> ELSE <<>>
      <3>1. s.result = ImpactResult(graph, roots, policies) /\ s.outputs.impact = s.result.status
        BY <2>1 DEF ImpactTold
      <3> HIDE DEF s, w, roots, graph, policies
      <3>2. LET result == ImpactResult(graph, roots, policies)
            IN  /\ result.graph = graph /\ result.impact = impact
                /\ result.status = (IF impact.direct \cup impact.transitive = {} THEN "clear"
                                    ELSE "impacted")
        <4> HIDE DEF impact
        <4> QED BY DEF ImpactResult, impact
      <3> QED BY <3>1, <3>2
    <2>5. ReadAt(r, "impact").changed = roots BY DEF ReadAt
    <2>6. /\ impact.changed = roots
          /\ roots \cup impact.direct \cup impact.transitive = roots
                <=> impact.direct \cup impact.transitive = {}
      BY <2>3, ImpactTruth
    <2> HIDE DEF graph, roots, s
    <2> QED BY <2>3, <2>4, <2>5, <2>6, ImpactTruth DEF s
  <1> QED BY <1>1, GateInvariance, PTL
====
