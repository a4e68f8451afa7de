---- MODULE ReviewImpact_proof ----
(***************************************************************************)
(* Lemmas about Comparison, Drift, Evidence and Review, for every snapshot,*)
(* policy and document of observations: the conflict lane blocks exactly   *)
(* when a property stays undecided, a comparison of two snapshots is one   *)
(* the loader accepts, and the drift lane finds exactly what the policy    *)
(* does not expect.  Lemmas about Impact, for every finite graph: what the *)
(* search has found after each of its layers, and that in the end it has   *)
(* found what a change affects, by least shortest paths.                   *)
(***************************************************************************)
EXTENDS Review, Impact, SequenceTheorems, FiniteSetTheorems, WellFoundedInduction, TLAPS

-----------------------------------------------------------------------------
(* Counting.                                                               *)

LEMMA Counts ==
    ASSUME NEW S, IsFiniteSet(S)
    PROVE  /\ Cardinality(S) \in Nat
           /\ Cardinality(S) > 0 <=> S # {}
           /\ Cardinality(S) = 0 <=> S = {}
           /\ Cardinality(S) = 1 <=> \E x : S = {x}
  <1>1. Cardinality(S) \in Nat BY FS_CardinalityType
  <1>2. Cardinality(S) = 0 <=> S = {} BY FS_EmptySet
  <1>3. Cardinality(S) = 1 <=> \E x : S = {x} BY FS_Singleton
  <1> QED BY <1>1, <1>2, <1>3

\* What a function takes a finite set to is finite.
LEMMA ImageIsFinite ==
    ASSUME NEW S, NEW f, IsFiniteSet(S), DOMAIN f = S, f = [x \in S |-> f[x]]
    PROVE  IsFiniteSet({f[x] : x \in S})
  <1> DEFINE T == {f[x] : x \in S}
  <1>1. f \in Surjection(S, T) BY DEF Surjection
  <1> QED BY <1>1, FS_Surjection

-----------------------------------------------------------------------------
(* The conflict lane.                                                      *)

\* The most specific rules: those of the namespace, if there are any.
LEMMA WinnersDecide ==
    ASSUME NEW object, NEW property, NEW rules
    PROVE  LET matching == {r \in rules : SelectorMatches(r.select, object, property)}
               specific == {r \in matching : r.select.namespace # NotGiven}
           IN  WinningRules(object, property, rules)
                   = (IF specific # {} THEN specific ELSE matching)
  <1> DEFINE matching == {r \in rules : SelectorMatches(r.select, object, property)}
             specific == {r \in matching : r.select.namespace # NotGiven}
  <1>1. \A r \in matching : /\ Specificity(r.select) \in {1, 2}
                            /\ Specificity(r.select) = 2 <=> r \in specific
    BY DEF Specificity
  <1>2. WinningRules(object, property, rules)
          = {r \in matching : \A s \in matching : Specificity(s.select) <= Specificity(r.select)}
    BY DEF WinningRules
  <1>3. specific \subseteq matching OBVIOUS
  <1> SUFFICES WinningRules(object, property, rules)
                   = (IF specific # {} THEN specific ELSE matching)
    OBVIOUS
  <1> HIDE DEF matching, specific
  <1>4. CASE specific = {} BY <1>1, <1>2, <1>4
  <1>5. CASE specific # {} BY <1>1, <1>2, <1>3, <1>5
  <1> QED BY <1>4, <1>5

\* Of a finite set, whether it has one element, and which.
One(S) == \E x : S = {x}

\* The verdict on one property is safe exactly when a value is decided.
Decided(said, deciding) ==
    LET authorised == {f \in said : \E r \in deciding, record \in f.provenance :
                                        TargetMatches(r.target, record)}
    IN  IF Cardinality(said) = 1 THEN said
        ELSE IF Cardinality(deciding) = 1 THEN authorised ELSE {}

LEMMA VerdictDecides ==
    ASSUME NEW said, NEW rules, NEW object, NEW property,
           IsFiniteSet(said), said # {}, IsFiniteSet(rules),
           \A f \in said : f.object = object /\ f.property = property
    PROVE  LET verdict == Analysed(said, rules)
               decided == Decided(said, WinningRules(object, property, rules))
           IN  /\ StateOf(verdict) \in States
               /\ StateOf(verdict) \in SafeStates <=> One(decided)
               /\ \A f : decided = {f} => verdict.effective = f.value
  <1> DEFINE base == CHOOSE e \in said : TRUE
             winners == WinningRules(object, property, rules)
             winner == CHOOSE r \in winners : TRUE
             authorised == {e \in said : \E record \in e.provenance :
                                             TargetMatches(winner.target, record)}
             verdict == Analysed(said, rules)
             decided == Decided(said, winners)
  <1>1. base \in said /\ base.object = object /\ base.property = property OBVIOUS
  <1>2. winners = WinningRules(base.object, base.property, rules) BY <1>1
  <1>3. IsFiniteSet(winners) /\ IsFiniteSet(authorised)
    <2>1. winners \in SUBSET rules BY DEF WinningRules
    <2>2. authorised \in SUBSET said OBVIOUS
    <2> HIDE DEF winners, authorised
    <2> QED BY <2>1, <2>2, FS_Subset
  <1>4. verdict =
          CASE Cardinality(said) = 1 /\ Cardinality(base.provenance) = 1 ->
                Verdict("SINGLE_OBSERVATION", base.value, NoRule)
          [] Cardinality(said) = 1 /\ Cardinality(base.provenance) # 1 ->
                Verdict("AGREEMENT", base.value, NoRule)
          [] Cardinality(said) > 1 /\ winners = {} ->
                Verdict("NO_AUTHORITY_RULE", NotGiven, NoRule)
          [] Cardinality(said) > 1 /\ Cardinality(winners) > 1 ->
                Verdict("INVALID_OR_AMBIGUOUS_AUTHORITY", NotGiven, NoRule)
          [] Cardinality(said) > 1 /\ Cardinality(winners) = 1 ->
                IF Cardinality(authorised) = 1
                THEN Verdict("RESOLVED_BY_AUTHORITY",
                             (CHOOSE e \in authorised : TRUE).value, winner)
                ELSE Verdict(IF authorised = {} THEN "AUTHORITATIVE_SOURCE_NOT_OBSERVED"
                             ELSE "AUTHORITATIVE_SOURCE_CONFLICTED", NotGiven, winner)
    BY <1>2 DEF Analysed
  <1>5. Cardinality(said) \in Nat /\ Cardinality(said) # 0 /\ (Cardinality(said) = 1 <=> One(said))
    BY Counts DEF One
  <1>6. /\ Cardinality(winners) \in Nat /\ (Cardinality(winners) = 0 <=> winners = {})
        /\ Cardinality(winners) = 1 <=> One(winners)
        /\ Cardinality(authorised) = 1 <=> One(authorised)
    <2> HIDE DEF winners, authorised
    <2> QED BY <1>3, Counts DEF One
  <1> DEFINE Holds == /\ StateOf(verdict) \in States
                      /\ StateOf(verdict) \in SafeStates <=> One(decided)
                      /\ \A f : decided = {f} => verdict.effective = f.value
  <1> SUFFICES Holds OBVIOUS
  <1>7. CASE Cardinality(said) = 1
    <2>1. decided = said /\ One(said) BY <1>5, <1>7 DEF Decided
    <2>2. said = {base} BY <1>1, <2>1 DEF One
    <2>3. /\ verdict.reason \in {"SINGLE_OBSERVATION", "AGREEMENT"}
          /\ verdict.effective = base.value
      <3> HIDE DEF base, winners, winner, authorised, verdict
      <3>1. CASE Cardinality(base.provenance) = 1 BY <1>4, <1>7, <3>1 DEF Verdict
      <3>2. CASE Cardinality(base.provenance) # 1 BY <1>4, <1>7, <3>2 DEF Verdict
      <3> QED BY <3>1, <3>2
    <2>4. StateOf(verdict) \in SafeStates BY <2>3 DEF StateOf, SafeStates
    <2> HIDE DEF base, verdict, decided
    <2> QED BY <2>1, <2>2, <2>3, <2>4 DEF States
  <1>8. CASE Cardinality(said) > 1 /\ Cardinality(winners) # 1
    <2>1. decided = {} BY <1>8 DEF Decided
    <2>2. verdict.reason \in {"NO_AUTHORITY_RULE", "INVALID_OR_AMBIGUOUS_AUTHORITY"}
      <3> HIDE DEF base, winners, winner, authorised, verdict
      <3>1. CASE winners = {} BY <1>4, <1>5, <1>8, <3>1 DEF Verdict
      <3>2. CASE winners # {}
        <4>1. Cardinality(winners) > 1 /\ Cardinality(said) # 1 BY <1>5, <1>6, <1>8, <3>2
        <4> QED BY <1>4, <1>8, <3>2, <4>1 DEF Verdict
      <3> QED BY <3>1, <3>2
    <2>3. StateOf(verdict) \in States /\ StateOf(verdict) \notin SafeStates
      BY <2>2 DEF StateOf, SafeStates, States
    <2> HIDE DEF verdict, decided
    <2> QED BY <2>1, <2>3 DEF One
  <1>9. CASE Cardinality(said) > 1 /\ Cardinality(winners) = 1
    <2>1. winners = {winner} BY <1>6, <1>9 DEF One
    <2>2. decided = authorised
      <3>1. Cardinality(said) # 1 BY <1>5, <1>9
      <3>2. decided = {f \in said : \E r \in winners, record \in f.provenance :
                                        TargetMatches(r.target, record)}
        BY <1>9, <3>1 DEF Decided
      <3> HIDE DEF winners, winner
      <3> QED BY <2>1, <3>2
    <2>3. /\ Cardinality(authorised) = 1 =>
               /\ verdict.reason = "RESOLVED_BY_AUTHORITY"
               /\ verdict.effective = (CHOOSE e \in authorised : TRUE).value
          /\ Cardinality(authorised) # 1 =>
               verdict.reason \in {"AUTHORITATIVE_SOURCE_NOT_OBSERVED",
                                   "AUTHORITATIVE_SOURCE_CONFLICTED"}
      <3>1. Cardinality(said) # 1 /\ winners # {} /\ ~(Cardinality(winners) > 1)
        BY <1>5, <1>6, <1>9
      <3> HIDE DEF base, winners, winner, authorised, verdict
      <3> QED BY <1>4, <1>9, <3>1 DEF Verdict
    <2>4. CASE Cardinality(authorised) = 1
      <3>1. One(authorised) BY <1>6, <2>4
      <3>2. StateOf(verdict) \in SafeStates BY <2>3, <2>4 DEF StateOf, SafeStates
      <3> HIDE DEF authorised, verdict, decided
      <3> QED BY <2>2, <2>3, <2>4, <3>1, <3>2 DEF One, States
    <2>5. CASE Cardinality(authorised) # 1
      <3>1. ~One(authorised) BY <1>6, <2>5
      <3>2. StateOf(verdict) \in States \ SafeStates
        BY <2>3, <2>5 DEF StateOf, SafeStates, States
      <3> HIDE DEF authorised, verdict, decided
      <3> QED BY <2>2, <3>1, <3>2 DEF One
    <2> QED BY <2>4, <2>5
  <1> HIDE DEF Holds, winners
  <1> QED BY <1>5, <1>7, <1>8, <1>9

\* A property blocks when it is one the target takes, but no value for it is decided.
LEMMA AssessmentBlocks ==
    ASSUME NEW said, NEW rules, NEW object, NEW property,
           IsFiniteSet(said), said # {}, IsFiniteSet(rules),
           \A f \in said : f.object = object /\ f.property = property
    PROVE  LET a == Assessed(object, property, Analysed(said, rules))
               decided == Decided(said, WinningRules(object, property, rules))
           IN  a.applicable /\ ~a.safe <=>
                  /\ Mapped(object, property)
                  /\ ~ \E f \in decided : decided = {f} /\ Convertible(property, f.value)
  <1> DEFINE verdict == Analysed(said, rules)
             decided == Decided(said, WinningRules(object, property, rules))
             a == Assessed(object, property, verdict)
             Chosen == \E f \in decided : decided = {f} /\ Convertible(property, f.value)
  <1>1. /\ StateOf(verdict) \in SafeStates <=> One(decided)
        /\ \A f : decided = {f} => verdict.effective = f.value
    BY VerdictDecides
  <1> SUFFICES a.applicable /\ ~a.safe <=> Mapped(object, property) /\ ~Chosen OBVIOUS
  <1> HIDE DEF verdict, decided
  <1>2. CASE ~Mapped(object, property) BY <1>2 DEF Assessed, Assessment
  <1>3. CASE Mapped(object, property) /\ StateOf(verdict) \notin SafeStates
    <2>1. ~Chosen BY <1>1, <1>3 DEF One
    <2>2. a = Assessment(TRUE, FALSE, StateOf(verdict)) BY <1>3 DEF Assessed
    <2> QED BY <1>3, <2>1, <2>2 DEF Assessment
  <1>4. CASE Mapped(object, property) /\ StateOf(verdict) \in SafeStates
    <2>1. PICK f : decided = {f} BY <1>1, <1>4 DEF One
    <2>2. Chosen <=> Convertible(property, verdict.effective) BY <1>1, <2>1
    <2>3. a = IF Convertible(property, verdict.effective)
              THEN Assessment(TRUE, TRUE, "safe")
              ELSE Assessment(TRUE, FALSE, "unsupported_effective_value")
      BY <1>4 DEF Assessed
    <2> HIDE DEF a, Chosen
    <2> QED BY <1>4, <2>2, <2>3 DEF Assessment
  <1> QED BY <1>2, <1>3, <1>4

\* The conflict lane blocks exactly when a property stays undecided, and what it
\* reports satisfies the validation of a review (github_ci/review.py,
\* reconciliation/safety.py).
THEOREM ConflictsTruth ==
    ASSUME NEW observed, NEW rules, IsFiniteSet(observed), IsFiniteSet(rules)
    PROVE  LET c == ConflictsBlock(observed, rules)
           IN  /\ c.status # "not_run" /\ ConflictsCoherent(c)
               /\ c.status = "blocked" <=> Undecided(observed, rules)
  <1> DEFINE key == [e \in observed |-> <<e.object, e.property>>]
             keys == {key[e] : e \in observed}
             saidOf(k) == {e \in observed : <<e.object, e.property>> = k}
             report == Conflicts(observed, rules)
             assessments == [k \in DOMAIN report |-> Assessed(k[1], k[2], report[k])]
             summary == Counted(report, assessments)
             c == ConflictsBlock(observed, rules)
             blocked == {k \in DOMAIN assessments :
                            assessments[k].applicable /\ ~assessments[k].safe}
  <1>1. IsFiniteSet(keys) BY ImageIsFinite
  <1>2. report = [k \in keys |-> Analysed(saidOf(k), rules)] BY DEF Conflicts
  <1>3. c = [status |-> ConflictStatus(summary), summary |-> summary, report |-> report,
             assessments |-> assessments]
    BY DEF ConflictsBlock
  <1>4. DOMAIN report = keys /\ DOMAIN assessments = keys BY <1>2
  <1>5. summary.blocked = Cardinality(blocked) BY DEF Counted
  <1>6. summary.blocked > 0 <=> blocked # {}
    <2>1. blocked \in SUBSET keys BY <1>4
    <2> HIDE DEF blocked, keys, summary
    <2> QED BY <1>1, <1>5, <2>1, FS_Subset, Counts
  <1>7. /\ c.status # "not_run"
        /\ c.status = "blocked" <=> summary.blocked > 0
    <2> HIDE DEF summary
    <2> QED BY <1>3 DEF ConflictStatus
  <1>8. ConflictsCoherent(c)
    <2> HIDE DEF summary, report
    <2> QED BY <1>3 DEF ConflictsCoherent, summary
  <1>9. \A e \in observed : LET k == <<e.object, e.property>> IN
            k \in blocked <=>
                /\ Mapped(e.object, e.property)
                /\ ~ \E f \in Decided(saidOf(k), WinningRules(e.object, e.property, rules)) :
                      /\ Decided(saidOf(k), WinningRules(e.object, e.property, rules)) = {f}
                      /\ Convertible(e.property, f.value)
    <2> TAKE e \in observed
    <2> DEFINE k == <<e.object, e.property>>
               said == saidOf(k)
    <2>1. said \in SUBSET observed /\ e \in said
          /\ \A f \in said : f.object = e.object /\ f.property = e.property
      OBVIOUS
    <2>2. IsFiniteSet(said) BY <2>1, FS_Subset
    <2>3. k \in keys /\ report[k] = Analysed(said, rules) BY <1>2
    <2>4. assessments[k] = Assessed(e.object, e.property, Analysed(said, rules))
      BY <1>4, <2>3
    <2>5. k \in blocked <=> assessments[k].applicable /\ ~assessments[k].safe BY <1>4, <2>3
    <2> HIDE DEF said, assessments, blocked, keys, report, k
    <2>6. said # {} BY <2>1
    <2>7. k \in blocked <=>
            /\ Mapped(e.object, e.property)
            /\ ~ \E f \in Decided(said, WinningRules(e.object, e.property, rules)) :
                  /\ Decided(said, WinningRules(e.object, e.property, rules)) = {f}
                  /\ Convertible(e.property, f.value)
      BY <2>1, <2>2, <2>4, <2>5, <2>6, AssessmentBlocks
    <2> QED BY <2>7 DEF said, k
  <1>10. Undecided(observed, rules) <=>
           \E e \in observed : LET k == <<e.object, e.property>> IN
                /\ Mapped(e.object, e.property)
                /\ ~ \E f \in Decided(saidOf(k), WinningRules(e.object, e.property, rules)) :
                      /\ Decided(saidOf(k), WinningRules(e.object, e.property, rules)) = {f}
                      /\ Convertible(e.property, f.value)
    <2> DEFINE Open(e, said, deciding) ==
                 /\ Mapped(e.object, e.property)
                 /\ ~ \E f \in Decided(said, deciding) :
                        Decided(said, deciding) = {f} /\ Convertible(e.property, f.value)
               same(e) == {f \in observed : f.object = e.object /\ f.property = e.property}
               matching(e) == {r \in rules : SelectorMatches(r.select, e.object, e.property)}
               specific(e) == {r \in matching(e) : r.select.namespace # NotGiven}
               deciding(e) == IF specific(e) # {} THEN specific(e) ELSE matching(e)
    <2>1. Undecided(observed, rules) <=> \E e \in observed : Open(e, same(e), deciding(e))
      BY DEF Undecided, Decided
    <2>2. \A e \in observed : same(e) = saidOf(<<e.object, e.property>>) OBVIOUS
    <2>3. \A e \in observed : deciding(e) = WinningRules(e.object, e.property, rules)
      BY WinnersDecide
    <2> HIDE DEF saidOf, same, deciding
    <2>4. Undecided(observed, rules) <=>
            \E e \in observed : Open(e, saidOf(<<e.object, e.property>>),
                                     WinningRules(e.object, e.property, rules))
      <3> HIDE DEF Open
      <3> QED BY <2>1, <2>2, <2>3
    <2> QED BY <2>4
  <1>11. blocked # {} <=> \E e \in observed : <<e.object, e.property>> \in blocked
    <2>1. blocked \subseteq keys BY <1>4
    <2>2. \A k \in keys : \E e \in observed : k = <<e.object, e.property>> OBVIOUS
    <2> HIDE DEF blocked, keys
    <2> QED BY <2>1, <2>2
  <1> HIDE DEF c, blocked, summary, saidOf, keys, report, assessments
  <1>12. c.status = "blocked" <=> Undecided(observed, rules)
    BY <1>6, <1>7, <1>9, <1>10, <1>11
  <1> QED BY <1>7, <1>8, <1>12 DEF c

-----------------------------------------------------------------------------
(* Projections.                                                            *)

LEMMA Identities ==
    ASSUME NEW o
    PROVE  IdentityOf(o).kind = o.kind /\ IdentityOf(o).path = o.path
  BY DEF IdentityOf, ObjectIdentity

\* An id stands for the one object that has it.
LEMMA ByIdIs ==
    ASSUME NEW s, Loads(s), NEW o \in s.objects
    PROVE  ById(s, o.id) = o
  BY DEF Loads, IdsAreUnique, ById

LEMMA ProjectionIs ==
    ASSUME NEW s, Projects(s)
    PROVE  /\ DOMAIN Projection(s) = {IdentityOf(o) : o \in s.objects}
           /\ \A o \in s.objects : Projection(s)[IdentityOf(o)] = Properties(s, o)
           /\ Projection(s) = [i \in DOMAIN Projection(s) |-> Projection(s)[i]]
  <1> DEFINE I == {IdentityOf(o) : o \in s.objects}
             of(i) == CHOOSE o \in s.objects : IdentityOf(o) = i
  <1>1. Projection(s) = [i \in I |-> Properties(s, of(i))] BY DEF Projection
  <1>2. \A o \in s.objects : of(IdentityOf(o)) = o BY DEF Projects
  <1>3. \A o \in s.objects : IdentityOf(o) \in I OBVIOUS
  <1> HIDE DEF of, I
  <1>4. \A o \in s.objects : Projection(s)[IdentityOf(o)] = Properties(s, o)
    BY <1>1, <1>2, <1>3
  <1> QED BY <1>1, <1>4 DEF I

\* The value of a pointer that refers to objects: their identities.
Refers(s, ids) == Present([n \in DOMAIN ids |-> IdentityOf(ById(s, ids[n]))])

LEMMA PropertiesAre ==
    ASSUME NEW s, NEW o
    PROVE  LET values == Properties(s, o)
           IN  /\ DOMAIN values = DOMAIN o.props \cup DOMAIN o.refs
               /\ values = [p \in DOMAIN values |-> values[p]]
               /\ \A p \in DOMAIN o.props : values[p] = Present(o.props[p])
               /\ \A p \in DOMAIN o.refs \ DOMAIN o.props : values[p] = Refers(s, o.refs[p])
               /\ \A p \in DOMAIN values : values[p] # Missing
  <1> DEFINE values == Properties(s, o)
             refer(p) == [n \in DOMAIN o.refs[p] |-> IdentityOf(ById(s, o.refs[p][n]))]
             P == DOMAIN o.props \cup DOMAIN o.refs
  <1>1. values = [p \in P |-> Present(IF p \in DOMAIN o.props THEN o.props[p] ELSE refer(p))]
    BY DEF Properties
  <1>2. \A v : Present(v) # Missing BY DEF Present, Missing
  <1>3. \A p : Present(refer(p)) = Refers(s, o.refs[p]) BY DEF Refers
  <1> HIDE DEF values, refer
  <1> QED BY <1>1, <1>2, <1>3 DEF values

\* What a comparison of two projections holds.
LEMMA ChangesAre ==
    ASSUME NEW l, NEW r, NEW x
    PROVE  x \in ObjectChanges(l, r) <=>
             \/ \E i \in DOMAIN r \ DOMAIN l : x = ObjectChange("added", i, {})
             \/ \E i \in DOMAIN l \ DOMAIN r : x = ObjectChange("removed", i, {})
             \/ \E i \in DOMAIN l \cap DOMAIN r :
                   /\ DiffProperties(l[i], r[i]) # {}
                   /\ x = ObjectChange("changed", i, DiffProperties(l[i], r[i]))
  BY DEF ObjectChanges

LEMMA DifferencesAre ==
    ASSUME NEW b, NEW c, NEW d
    PROVE  d \in DiffProperties(b, c) <=>
             \E p \in DOMAIN b \cup DOMAIN c :
                /\ SideOf(b, p) # SideOf(c, p)
                /\ d = [property |-> p, baseline |-> SideOf(b, p), candidate |-> SideOf(c, p)]
  BY DEF DiffProperties

\* Nothing has changed exactly when the projections are the same.
LEMMA SameProjection ==
    ASSUME NEW b, NEW c, Projects(b), Projects(c)
    PROVE  ObjectChanges(Projection(b), Projection(c)) = {} <=> Projection(b) = Projection(c)
  <1> DEFINE l == Projection(b)
             r == Projection(c)
             Whole(f) == f = [p \in DOMAIN f |-> f[p]] /\ \A p \in DOMAIN f : f[p] # Missing
  <1>1. /\ \A i \in DOMAIN l : Whole(l[i])
        /\ \A i \in DOMAIN r : Whole(r[i])
    <2>1. \A o : Whole(Properties(b, o)) /\ Whole(Properties(c, o)) BY PropertiesAre
    <2>2. ASSUME NEW s, Projects(s), NEW i \in DOMAIN Projection(s)
          PROVE  \E o : Projection(s)[i] = Properties(s, o)
      <3>0. DOMAIN Projection(s) = {IdentityOf(o) : o \in s.objects} BY <2>2, ProjectionIs
      <3>1. PICK o \in s.objects : i = IdentityOf(o) BY <2>2, <3>0
      <3> QED BY <2>2, <3>1, ProjectionIs
    <2> HIDE DEF Whole
    <2> QED BY <2>1, <2>2
  <1>2. /\ l = [i \in DOMAIN l |-> l[i]] /\ r = [i \in DOMAIN r |-> r[i]] BY ProjectionIs
  <1>3. ASSUME NEW f, NEW g, Whole(f), Whole(g), DiffProperties(f, g) = {}
        PROVE  f = g
    <2>1. \A p \in DOMAIN f \cup DOMAIN g : SideOf(f, p) = SideOf(g, p)
      <3> SUFFICES ASSUME NEW p \in DOMAIN f \cup DOMAIN g, SideOf(f, p) # SideOf(g, p)
                   PROVE  FALSE
        OBVIOUS
      <3>1. [property |-> p, baseline |-> SideOf(f, p), candidate |-> SideOf(g, p)]
              \in DiffProperties(f, g)
        BY DifferencesAre
      <3> QED BY <1>3, <3>1
    <2>2. DOMAIN f = DOMAIN g BY <1>3, <2>1 DEF SideOf
    <2>3. \A p \in DOMAIN f : f[p] = g[p] BY <2>1, <2>2 DEF SideOf
    <2> QED BY <1>3, <2>2, <2>3
  <1> HIDE DEF l, r, Whole
  <1>4. ASSUME ObjectChanges(l, r) = {} PROVE l = r
    <2>1. DOMAIN l = DOMAIN r
      <3>1. \A i \in DOMAIN r \ DOMAIN l : ObjectChange("added", i, {}) \in ObjectChanges(l, r)
        BY ChangesAre
      <3>2. \A i \in DOMAIN l \ DOMAIN r : ObjectChange("removed", i, {}) \in ObjectChanges(l, r)
        BY ChangesAre
      <3> QED BY <1>4, <3>1, <3>2
    <2>2. \A i \in DOMAIN l : DiffProperties(l[i], r[i]) = {} BY <1>4, <2>1, ChangesAre
    <2>3. \A i \in DOMAIN l : l[i] = r[i] BY <1>1, <1>3, <2>1, <2>2
    <2> QED BY <1>2, <2>1, <2>3
  <1>5. ASSUME l = r PROVE ObjectChanges(l, r) = {}
    <2>1. \A f : DiffProperties(f, f) = {} BY DEF DiffProperties
    <2> QED BY <1>5, <2>1, ChangesAre
  <1> QED BY <1>4, <1>5 DEF l, r

-----------------------------------------------------------------------------
(* What a snapshot's objects refer to.                                     *)

\* What is inside a table: the table that holds it, by its path.
LEMMA TableOf ==
    ASSUME NEW s, Loads(s), NEW o \in s.objects, o.kind \in Members
    PROVE  \E h \in s.objects : h.id = o.holder /\ h.kind = "table" /\ h.path = SubSeq(o.path, 1, 2)
  <1>1. o.kind # "data_source" BY DEF Members
  <1>2. PICK h \in s.objects : h.id = o.holder /\ IdentityOf(h) = ParentOf(IdentityOf(o))
    BY <1>1 DEF Loads
  <1>3. ParentOf(IdentityOf(o)) = ObjectIdentity("table", SubSeq(o.path, 1, 2))
    BY Identities DEF ParentOf, Members
  <1> QED BY <1>2, <1>3, Identities DEF ObjectIdentity

\* The columns a key lists are those of one table.
LEMMA ColumnsAre ==
    ASSUME NEW s, Loads(s), NEW h \in s.objects, NEW ids, ids \in Seq(Range(ids)),
           ColumnsResolve(s, ids, h.id)
    PROVE  /\ Refers(s, ids).value # <<>> /\ ColumnsOf(Refers(s, ids).value, h.path)
           /\ SubSeq(Refers(s, ids).value[1].path, 1, 2) = h.path
  <1> DEFINE value == [n \in DOMAIN ids |-> IdentityOf(ById(s, ids[n]))]
  <1>1. ids # <<>> BY DEF ColumnsResolve
  <1>2. DOMAIN ids = 1..Len(ids) /\ Len(ids) \in Nat OBVIOUS
  <1>3. 1 \in DOMAIN ids BY <1>1, <1>2, EmptySeq
  <1>4. ASSUME NEW n \in DOMAIN ids
        PROVE  value[n].kind = "column" /\ SubSeq(value[n].path, 1, 2) = h.path
    <2>1. ids[n] \in Range(ids) BY DEF Range
    <2>2. PICK c \in s.objects : c.id = ids[n] /\ c.kind = "column" /\ c.holder = h.id
      BY <2>1 DEF ColumnsResolve
    <2>3. value[n] = IdentityOf(c) BY <2>2, ByIdIs
    <2>4. PICK t \in s.objects : t.id = c.holder /\ t.path = SubSeq(c.path, 1, 2)
      BY <2>2, TableOf DEF Members
    <2>5. t = h BY <2>2, <2>4 DEF Loads, IdsAreUnique
    <2> QED BY <2>2, <2>3, <2>4, <2>5, Identities
  <1>5. DOMAIN value = DOMAIN ids /\ Refers(s, ids).value = value BY DEF Refers, Present
  <1> HIDE DEF value
  <1>6. value # <<>> BY <1>3, <1>5
  <1>7. ColumnsOf(value, h.path) BY <1>4, <1>5 DEF ColumnsOf, Range
  <1> QED BY <1>3, <1>4, <1>5, <1>6, <1>7

\* Which kinds have the pointers that refer to other objects.
LEMMA Pointers ==
    ASSUME NEW kind \in Kinds, NEW p
    PROVE  /\ RefPointers[kind] \subseteq FixedPointers[kind]
           /\ \A q \in RefPointers[kind] : PointerAllowed(kind, q)
           /\ PointerAllowed(kind, p) /\ p # TechnicalAttribute => p \in FixedPointers[kind]
           /\ PointerAllowed(kind, p) /\ p = "/column_ids" =>
                kind \in {"primary_key", "foreign_key"} /\ p \in RefPointers[kind]
           /\ PointerAllowed(kind, p) /\ p \in {"/referenced_table_id", "/referenced_column_ids"} =>
                kind = "foreign_key" /\ p \in RefPointers[kind]
           /\ PointerAllowed(kind, p) /\ p \in {"/to_table_id", "/foreign_key_id"} =>
                kind = "relationship" /\ p \in RefPointers[kind]
           /\ kind \in Roots => "/name" \in FixedPointers[kind] /\ RefPointers[kind] = {}
  BY DEF FixedPointers, RefPointers, PointerAllowed, TechnicalAttribute, Kinds, Roots, Members

LEMMA ShapedObject ==
    ASSUME NEW s, Shaped(s), NEW o \in s.objects
    PROVE  /\ o.kind \in Kinds /\ (o.kind \in Roots => o.path = <<>>)
           /\ FixedPointers[o.kind] \subseteq DOMAIN o.props \cup DOMAIN o.refs
           /\ \A p \in DOMAIN o.props : PointerAllowed(o.kind, p) /\ p \notin RefPointers[o.kind]
           /\ DOMAIN o.refs = RefPointers[o.kind]
           /\ \A p \in DOMAIN o.refs : o.refs[p] \in Seq(Range(o.refs[p]))
           /\ \A p \in DOMAIN o.refs : p \in {"/referenced_table_id", "/to_table_id"} =>
                Len(o.refs[p]) = 1
           /\ "/foreign_key_id" \in DOMAIN o.refs => Len(o.refs["/foreign_key_id"]) <= 1
  BY DEF Shaped

LEMMA ReferenceIs ==
    ASSUME NEW s, Shaped(s), NEW o \in s.objects, NEW p \in RefPointers[o.kind]
    PROVE  SideOf(Properties(s, o), p) = Refers(s, o.refs[p])
  <1>1. p \in DOMAIN o.refs /\ p \notin DOMAIN o.props BY ShapedObject
  <1>2. p \in DOMAIN Properties(s, o) BY <1>1, PropertiesAre
  <1>3. \A q \in DOMAIN o.refs \ DOMAIN o.props : Properties(s, o)[q] = Refers(s, o.refs[q])
    BY PropertiesAre
  <1>4. Properties(s, o)[p] = Refers(s, o.refs[p]) BY <1>1, <1>3
  <1> QED BY <1>2, <1>4 DEF SideOf

LEMMA ReferenceTo ==
    ASSUME NEW s, Loads(s), NEW o \in s.objects, NEW ids, NEW n \in DOMAIN ids, ids[n] = o.id
    PROVE  Refers(s, ids).value[n] = IdentityOf(o) /\ DOMAIN Refers(s, ids).value = DOMAIN ids
  BY ByIdIs DEF Refers, Present

\* The columns a foreign key refers to are those of the table it refers to.
LEMMA ForeignKeyRefers ==
    ASSUME NEW s, Shaped(s), Loads(s), NEW o \in s.objects, o.kind = "foreign_key"
    PROVE  \E h \in s.objects :
            /\ h.kind = "table"
            /\ Refers(s, o.refs["/referenced_table_id"]).value[1] = IdentityOf(h)
            /\ LET columns == Refers(s, o.refs["/referenced_column_ids"]).value
               IN  /\ columns # <<>> /\ ColumnsOf(columns, h.path)
                   /\ SubSeq(columns[1].path, 1, 2) = h.path
  <1> DEFINE tables == o.refs["/referenced_table_id"]
             columns == o.refs["/referenced_column_ids"]
  <1>1. {"/referenced_table_id", "/referenced_column_ids"} \subseteq DOMAIN o.refs
    BY ShapedObject DEF RefPointers, Kinds, Members
  <1>2. tables \in Seq(Range(tables)) /\ Len(tables) = 1 /\ columns \in Seq(Range(columns))
    BY <1>1, ShapedObject
  <1>3. IsA(s, tables[1], "table") /\ ColumnsResolve(s, columns, tables[1])
    BY DEF Loads, KeysResolve
  <1> HIDE DEF tables, columns
  <1>4. PICK h \in s.objects : h.id = tables[1] /\ h.kind = "table" BY <1>3 DEF IsA
  <1>5. 1 \in DOMAIN tables BY <1>2
  <1>6. Refers(s, tables).value[1] = IdentityOf(h) BY <1>4, <1>5, ReferenceTo
  <1>7. ColumnsResolve(s, columns, h.id) BY <1>3, <1>4
  <1> QED BY <1>2, <1>4, <1>6, <1>7, ColumnsAre DEF tables, columns

\* What a property may be on one side of a saved comparison holds of every snapshot.
LEMMA SideIsAllowed ==
    ASSUME NEW s, Shaped(s), Loads(s), NEW o \in s.objects, NEW p, PointerAllowed(o.kind, p)
    PROVE  SideAllowed(IdentityOf(o), p, SideOf(Properties(s, o), p))
  <1> DEFINE side == SideOf(Properties(s, o), p)
             i == IdentityOf(o)
  <1>0. o.kind \in Kinds BY ShapedObject
  <1>1. side = Missing => p = TechnicalAttribute
    <2>1. p \in FixedPointers[o.kind] => p \in DOMAIN Properties(s, o)
      BY ShapedObject, PropertiesAre
    <2>2. p \in DOMAIN Properties(s, o) => side # Missing BY PropertiesAre DEF SideOf
    <2> QED BY <1>0, <2>1, <2>2, Pointers
  <1>2. p \in RefPointers[o.kind] => side = Refers(s, o.refs[p]) BY ReferenceIs
  <1>3. p \in RefPointers[o.kind] => o.refs[p] \in Seq(Range(o.refs[p])) BY ShapedObject
  <1>4. ASSUME p = "/column_ids"
        PROVE  side.value # <<>> /\ ColumnsOf(side.value, SubSeq(i.path, 1, 2))
    <2>1. o.kind \in {"primary_key", "foreign_key"} /\ p \in RefPointers[o.kind]
      BY <1>0, <1>4, Pointers
    <2>2. ColumnsResolve(s, o.refs[p], o.holder) BY <1>4, <2>1 DEF Loads, KeysResolve
    <2>3. PICK h \in s.objects : h.id = o.holder /\ h.path = SubSeq(o.path, 1, 2)
      BY <2>1, TableOf DEF Members
    <2>4. side = Refers(s, o.refs[p]) BY <1>2, <2>1
    <2>5. ColumnsResolve(s, o.refs[p], h.id) BY <2>2, <2>3
    <2>6. /\ Refers(s, o.refs[p]).value # <<>>
          /\ ColumnsOf(Refers(s, o.refs[p]).value, h.path)
      <3> HIDE DEF side, i
      <3> QED BY <1>3, <2>1, <2>5, ColumnsAre
    <2> QED BY <2>3, <2>4, <2>6, Identities
  <1>5. ASSUME p = "/referenced_column_ids"
        PROVE  side.value # <<>> /\ ColumnsOf(side.value, SubSeq(side.value[1].path, 1, 2))
    <2>1. o.kind = "foreign_key" /\ p \in RefPointers[o.kind] BY <1>0, <1>5, Pointers
    <2>2. side = Refers(s, o.refs[p]) BY <1>2, <2>1
    <2> DEFINE columns == Refers(s, o.refs["/referenced_column_ids"]).value
    <2>3. PICK h \in s.objects : /\ columns # <<>> /\ ColumnsOf(columns, h.path)
                                 /\ SubSeq(columns[1].path, 1, 2) = h.path
      BY <2>1, ForeignKeyRefers
    <2>4. side.value = columns BY <1>5, <2>2
    <2> HIDE DEF columns, side
    <2> QED BY <2>3, <2>4
  <1>6. ASSUME p \in {"/referenced_table_id", "/to_table_id"}
        PROVE  side.value[1].kind = "table"
    <2>1. /\ p \in RefPointers[o.kind]
          /\ p = "/referenced_table_id" => o.kind = "foreign_key"
          /\ p = "/to_table_id" => o.kind = "relationship"
      BY <1>0, <1>6, Pointers
    <2>2. 1 \in DOMAIN o.refs[p]
      <3>1. p \in DOMAIN o.refs /\ Len(o.refs[p]) = 1 BY <1>6, <2>1, ShapedObject
      <3> QED BY <1>3, <2>1, <3>1
    <2>3. IsA(s, o.refs[p][1], "table")
      BY <1>6, <2>1 DEF Loads, KeysResolve, RelationshipsResolve
    <2>4. PICK h \in s.objects : h.id = o.refs[p][1] /\ h.kind = "table" BY <2>3 DEF IsA
    <2>5. side.value[1] = IdentityOf(h) BY <1>2, <2>1, <2>2, <2>4, ReferenceTo
    <2> QED BY <2>4, <2>5, Identities
  <1>7. ASSUME p = "/foreign_key_id"
        PROVE  \A f \in Range(side.value) :
                    f.kind = "foreign_key" /\ SubSeq(f.path, 1, 2) = SubSeq(i.path, 1, 2)
    <2> DEFINE key == o.refs["/foreign_key_id"]
    <2>1. o.kind = "relationship" /\ p \in RefPointers[o.kind] BY <1>0, <1>7, Pointers
    <2>2. key \in Seq(Range(key)) /\ Len(key) <= 1
      <3>1. "/foreign_key_id" \in DOMAIN o.refs BY <1>7, <2>1, ShapedObject
      <3> QED BY <1>3, <1>7, <2>1, <3>1, ShapedObject
    <2>3. side.value = [n \in DOMAIN key |-> IdentityOf(ById(s, key[n]))]
      BY <1>2, <1>7, <2>1 DEF Refers, Present
    <2>4. key # <<>> => \E f \in s.objects :
                f.id = key[1] /\ f.kind = "foreign_key" /\ f.holder = o.holder
      BY <2>1 DEF Loads, RelationshipsResolve
    <2> HIDE DEF key
    <2>5. ASSUME NEW n \in DOMAIN key
          PROVE  /\ side.value[n].kind = "foreign_key"
                 /\ SubSeq(side.value[n].path, 1, 2) = SubSeq(i.path, 1, 2)
      <3>1. n = 1 /\ key # <<>> BY <2>2, <2>5
      <3>2. PICK f \in s.objects : f.id = key[1] /\ f.kind = "foreign_key" /\ f.holder = o.holder
        BY <2>4, <3>1
      <3>3. side.value[n] = IdentityOf(f) BY <2>3, <3>1, <3>2, ByIdIs
      <3>4. PICK h \in s.objects : h.id = o.holder /\ h.path = SubSeq(o.path, 1, 2)
        BY <2>1, TableOf DEF Members
      <3>5. PICK g \in s.objects : g.id = f.holder /\ g.path = SubSeq(f.path, 1, 2)
        BY <3>2, TableOf DEF Members
      <3>6. g = h BY <3>2, <3>4, <3>5 DEF Loads, IdsAreUnique
      <3> QED BY <3>2, <3>3, <3>4, <3>5, <3>6, Identities
    <2>6. DOMAIN side.value = DOMAIN key BY <2>3
    <2> HIDE DEF side, i
    <2> QED BY <2>5, <2>6 DEF Range
  <1> HIDE DEF side, i
  <1>8. SideAllowed(i, p, side) BY <1>1, <1>4, <1>5, <1>6, <1>7 DEF SideAllowed
  <1> QED BY <1>8 DEF side, i

-----------------------------------------------------------------------------
(* A comparison of two snapshots is one the loader accepts.                *)

LEMMA ObjectAt ==
    ASSUME NEW s, Projects(s), NEW i \in DOMAIN Projection(s)
    PROVE  \E o \in s.objects : i = IdentityOf(o) /\ Projection(s)[i] = Properties(s, o)
  <1>1. DOMAIN Projection(s) = {IdentityOf(o) : o \in s.objects} BY ProjectionIs
  <1>2. PICK o \in s.objects : i = IdentityOf(o) BY <1>1
  <1> QED BY <1>2, ProjectionIs

\* Every snapshot has its roots, with the names of its envelope.
LEMMA RootOf ==
    ASSUME NEW s, Shaped(s), Projects(s), NEW kind \in Roots
    PROVE  LET root == ObjectIdentity(kind, <<>>) IN
           /\ root \in DOMAIN Projection(s)
           /\ \A i \in DOMAIN Projection(s) : i.kind = kind => i = root
           /\ SideOf(Projection(s)[root], "/name")
                = Present(IF kind = "data_source" THEN s.source ELSE s.database)
  <1> DEFINE root == ObjectIdentity(kind, <<>>)
             some == {o \in s.objects : o.kind = kind}
  <1>1. Cardinality(some) = 1 BY DEF Projects, Loads, EnvelopeHolds
  <1>2. IsFiniteSet(some)
    <2>1. some \in SUBSET s.objects OBVIOUS
    <2> HIDE DEF some
    <2> QED BY <2>1, FS_Subset DEF Shaped
  <1>3. PICK o : some = {o}
    <2> HIDE DEF some
    <2> QED BY <1>1, <1>2, Counts
  <1>4. o \in s.objects /\ o.kind = kind BY <1>3
  <1>5. o.path = <<>> BY <1>4, ShapedObject
  <1>6. IdentityOf(o) = root BY <1>4, <1>5 DEF IdentityOf
  <1>7. root \in DOMAIN Projection(s) BY <1>4, <1>6, ProjectionIs
  <1>8. ASSUME NEW i \in DOMAIN Projection(s), i.kind = kind PROVE i = root
    <2>1. PICK q \in s.objects : i = IdentityOf(q) BY ObjectAt DEF Projects
    <2>2. q.kind = kind BY <1>8, <2>1, Identities
    <2>3. q = o BY <1>3, <2>2
    <2> QED BY <1>6, <2>1, <2>3
  <1>9. Projection(s)[root] = Properties(s, o) BY <1>4, <1>6, ProjectionIs
  <1>10. "/name" \in DOMAIN o.props
    <2>1. "/name" \in FixedPointers[kind] /\ RefPointers[kind] = {}
      BY Pointers DEF Kinds
    <2> QED BY <1>4, <2>1, ShapedObject
  <1>11. SideOf(Properties(s, o), "/name") = Present(o.props["/name"])
    <2>1. "/name" \in DOMAIN Properties(s, o) BY <1>10, PropertiesAre
    <2>2. Properties(s, o)["/name"] = Present(o.props["/name"]) BY <1>10, PropertiesAre
    <2> QED BY <2>1, <2>2 DEF SideOf
  <1>12. o.props["/name"] = (IF kind = "data_source" THEN s.source ELSE s.database)
    BY <1>4 DEF Projects, Loads, EnvelopeHolds, Roots
  <1> QED BY <1>7, <1>8, <1>9, <1>11, <1>12

\* What contains an object of a snapshot is in the snapshot.
LEMMA AncestorsAreThere ==
    ASSUME NEW s, Shaped(s), Projects(s), NEW i \in DOMAIN Projection(s)
    PROVE  Ancestors(i) \subseteq DOMAIN Projection(s)
  <1> DEFINE D == DOMAIN Projection(s)
             up(j) == IF j = NoIdentity THEN j ELSE ParentOf(j)
  <1>1. ASSUME NEW j \in D PROVE ParentOf(j) \in D \cup {NoIdentity}
    <2>1. PICK o \in s.objects : j = IdentityOf(o) BY <1>1, ObjectAt
    <2>2. CASE j.kind = "data_source"
      <3>1. ParentOf(j) = NoIdentity BY <2>2 DEF ParentOf, Members
      <3> QED BY <3>1
    <2>3. CASE j.kind # "data_source"
      <3>1. o.kind # "data_source" BY <2>1, <2>3, Identities
      <3>2. PICK h \in s.objects : IdentityOf(h) = ParentOf(IdentityOf(o))
        BY <3>1 DEF Projects, Loads
      <3>3. DOMAIN Projection(s) = {IdentityOf(q) : q \in s.objects} BY ProjectionIs
      <3> QED BY <2>1, <3>2, <3>3
    <2> QED BY <2>2, <2>3
  <1> HIDE DEF D
  <1>2. \A j \in D \cup {NoIdentity} : up(j) \in D \cup {NoIdentity} BY <1>1
  <1>3. i \in D BY DEF D
  <1> DEFINE p1 == ParentOf(i)
             p2 == up(p1)
             p3 == up(p2)
             p4 == up(p3)
  <1>4. Ancestors(i) = {p1, p2, p3, p4} \ {NoIdentity} BY DEF Ancestors
  <1>5. p1 \in D \cup {NoIdentity} BY <1>1, <1>3
  <1> HIDE DEF up, p1
  <1>6. p2 \in D \cup {NoIdentity} BY <1>2, <1>5
  <1> HIDE DEF p2
  <1>7. p3 \in D \cup {NoIdentity} BY <1>2, <1>6
  <1> HIDE DEF p3
  <1>8. p4 \in D \cup {NoIdentity} BY <1>2, <1>7
  <1> HIDE DEF p4
  <1> QED BY <1>4, <1>5, <1>6, <1>7, <1>8 DEF D

\* Which change an object has undergone.
LEMMA ChangeOf ==
    ASSUME NEW l, NEW r, NEW x \in ObjectChanges(l, r)
    PROVE  /\ x.parent = ParentOf(x.object)
           /\ x.change = "added" <=> x.object \in DOMAIN r \ DOMAIN l
           /\ x.change = "removed" <=> x.object \in DOMAIN l \ DOMAIN r
           /\ x.change = "changed" <=> x.object \in DOMAIN l \cap DOMAIN r
           /\ x.change \in {"added", "removed", "changed"}
           /\ x.change = "changed" => /\ x.properties = DiffProperties(l[x.object], r[x.object])
                                      /\ x.properties # {}
           /\ x.change # "changed" => x.properties = {}
           /\ x = ObjectChange(x.change, x.object, x.properties)
  <1>1. CASE \E i \in DOMAIN r \ DOMAIN l : x = ObjectChange("added", i, {})
    BY <1>1 DEF ObjectChange
  <1>2. CASE \E i \in DOMAIN l \ DOMAIN r : x = ObjectChange("removed", i, {})
    BY <1>2 DEF ObjectChange
  <1>3. CASE \E i \in DOMAIN l \cap DOMAIN r :
                /\ DiffProperties(l[i], r[i]) # {}
                /\ x = ObjectChange("changed", i, DiffProperties(l[i], r[i]))
    BY <1>3 DEF ObjectChange
  <1> QED BY <1>1, <1>2, <1>3, ChangesAre

LEMMA OneChangeEach ==
    ASSUME NEW l, NEW r, NEW x \in ObjectChanges(l, r), NEW y \in ObjectChanges(l, r),
           x.object = y.object
    PROVE  x = y
  <1>1. x.change = y.change BY ChangeOf
  <1>2. x.properties = y.properties
    <2>1. CASE x.change = "changed"
      <3>1. x.properties = DiffProperties(l[x.object], r[x.object]) BY <2>1, ChangeOf
      <3>2. y.properties = DiffProperties(l[y.object], r[y.object]) BY <1>1, <2>1, ChangeOf
      <3> QED BY <3>1, <3>2
    <2>2. CASE x.change # "changed"
      <3>1. x.properties = {} BY <2>2, ChangeOf
      <3>2. y.properties = {} BY <1>1, <2>2, ChangeOf
      <3> QED BY <3>1, <3>2
    <2> QED BY <2>1, <2>2
  <1>3. /\ x = ObjectChange(x.change, x.object, x.properties)
        /\ y = ObjectChange(y.change, y.object, y.properties)
    BY ChangeOf
  <1> QED BY <1>1, <1>2, <1>3

LEMMA PointersAllowed ==
    ASSUME NEW s, Shaped(s), NEW o \in s.objects, NEW p \in DOMAIN Properties(s, o)
    PROVE  PointerAllowed(o.kind, p)
  <1>1. p \in DOMAIN o.props \cup DOMAIN o.refs BY PropertiesAre
  <1>2. o.kind \in Kinds BY ShapedObject
  <1> QED BY <1>1, <1>2, ShapedObject, Pointers

\* The change of one object satisfies the loader.
LEMMA ChangesAllowed ==
    ASSUME NEW b, NEW c, Shaped(b), Shaped(c), Projects(b), Projects(c),
           NEW x \in ObjectChanges(Projection(b), Projection(c))
    PROVE  ChangeAllowed(x)
  <1> DEFINE l == Projection(b)
             r == Projection(c)
             i == x.object
  <1>1. /\ x.parent = ParentOf(i)
        /\ x.change = "added" <=> i \in DOMAIN r \ DOMAIN l
        /\ x.change = "removed" <=> i \in DOMAIN l \ DOMAIN r
        /\ x.change = "changed" <=> i \in DOMAIN l \cap DOMAIN r
        /\ x.change \in {"added", "removed", "changed"}
        /\ x.change = "changed" => x.properties = DiffProperties(l[i], r[i]) /\ x.properties # {}
        /\ x.change # "changed" => x.properties = {}
    BY ChangeOf
  <1>2. ASSUME i.kind \in Roots PROVE x.change = "changed"
    <2> DEFINE root == ObjectIdentity(i.kind, <<>>)
    <2>1. root \in DOMAIN l /\ root \in DOMAIN r BY <1>2, RootOf
    <2>2. i \in DOMAIN l => i = root BY <1>2, RootOf
    <2>3. i \in DOMAIN r => i = root BY <1>2, RootOf
    <2> HIDE DEF root, l, r, i
    <2> QED BY <1>1, <2>1, <2>2, <2>3
  <1>3. ASSUME NEW s \in {b, c}, NEW p, i \in DOMAIN Projection(s), PointerAllowed(i.kind, p)
        PROVE  SideAllowed(i, p, SideOf(Projection(s)[i], p))
    <2>1. PICK o \in s.objects : i = IdentityOf(o) /\ Projection(s)[i] = Properties(s, o)
      BY <1>3, ObjectAt
    <2>2. Loads(s) /\ Shaped(s) /\ PointerAllowed(o.kind, p)
      BY <1>3, <2>1, Identities DEF Projects
    <2>3. SideAllowed(IdentityOf(o), p, SideOf(Properties(s, o), p)) BY <2>2, SideIsAllowed
    <2> HIDE DEF i
    <2> QED BY <2>1, <2>3
  <1>4. ASSUME NEW s \in {b, c}, i \in DOMAIN Projection(s),
               NEW p \in DOMAIN Projection(s)[i]
        PROVE  PointerAllowed(i.kind, p)
    <2>1. PICK o \in s.objects : i = IdentityOf(o) /\ Projection(s)[i] = Properties(s, o)
      BY <1>4, ObjectAt
    <2>2. PointerAllowed(o.kind, p) BY <1>4, <2>1, PointersAllowed
    <2> QED BY <2>1, <2>2, Identities
  <1>5. \A d \in x.properties :
            /\ i \in DOMAIN l \cap DOMAIN r
            /\ d.property \in DOMAIN l[i] \cup DOMAIN r[i]
            /\ d.baseline = SideOf(l[i], d.property)
            /\ d.candidate = SideOf(r[i], d.property)
            /\ d.baseline # d.candidate
            /\ d = [property |-> d.property, baseline |-> d.baseline, candidate |-> d.candidate]
    <2> HIDE DEF l, r, i
    <2> QED BY <1>1, DifferencesAre
  <1> HIDE DEF l, r
  <1>6. \A d \in x.properties :
            /\ PointerAllowed(i.kind, d.property)
            /\ SideAllowed(i, d.property, d.baseline)
            /\ SideAllowed(i, d.property, d.candidate)
            /\ d.baseline # d.candidate
    <2> TAKE d \in x.properties
    <2>1. PointerAllowed(i.kind, d.property) BY <1>4, <1>5 DEF l, r
    <2>2. SideAllowed(i, d.property, SideOf(l[i], d.property)) BY <1>3, <1>5, <2>1 DEF l
    <2>3. SideAllowed(i, d.property, SideOf(r[i], d.property)) BY <1>3, <1>5, <2>1 DEF r
    <2> HIDE DEF i
    <2> QED BY <1>5, <2>1, <2>2, <2>3
  <1>7. \A d, e \in x.properties : d.property = e.property => d = e
    <2> HIDE DEF i
    <2> QED BY <1>5
  <1>8. i.kind = "foreign_key" => ForeignKeyCoherent(x.properties)
    <2> SUFFICES ASSUME i.kind = "foreign_key", NEW t \in x.properties, NEW d \in x.properties,
                        t.property = "/referenced_table_id",
                        d.property = "/referenced_column_ids"
                 PROVE  /\ ColumnsOf(d.baseline.value, t.baseline.value[1].path)
                        /\ ColumnsOf(d.candidate.value, t.candidate.value[1].path)
      BY DEF ForeignKeyCoherent
    <2>1. ASSUME NEW s \in {b, c}, i \in DOMAIN Projection(s)
          PROVE  ColumnsOf(SideOf(Projection(s)[i], "/referenced_column_ids").value,
                           SideOf(Projection(s)[i], "/referenced_table_id").value[1].path)
      <3>1. PICK o \in s.objects : i = IdentityOf(o) /\ Projection(s)[i] = Properties(s, o)
        BY <2>1, ObjectAt
      <3>2. Loads(s) /\ Shaped(s) /\ o.kind = "foreign_key" BY <3>1, Identities DEF Projects
      <3>3. {"/referenced_table_id", "/referenced_column_ids"} \subseteq RefPointers[o.kind]
        BY <3>2 DEF RefPointers, Kinds, Members
      <3> DEFINE columns == SideOf(Properties(s, o), "/referenced_column_ids")
                 table == SideOf(Properties(s, o), "/referenced_table_id")
      <3>4. /\ columns = Refers(s, o.refs["/referenced_column_ids"])
            /\ table = Refers(s, o.refs["/referenced_table_id"])
        BY <3>2, <3>3, ReferenceIs
      <3>5. PICK h \in s.objects : /\ table.value[1] = IdentityOf(h)
                                   /\ ColumnsOf(columns.value, h.path)
        BY <3>2, <3>4, ForeignKeyRefers
      <3>6. table.value[1].path = h.path BY <3>5, Identities
      <3> QED BY <3>1, <3>5, <3>6
    <2>2. i \in DOMAIN l \cap DOMAIN r BY <1>5
    <2>3. ColumnsOf(SideOf(l[i], "/referenced_column_ids").value,
                    SideOf(l[i], "/referenced_table_id").value[1].path)
      BY <2>1, <2>2 DEF l
    <2>4. ColumnsOf(SideOf(r[i], "/referenced_column_ids").value,
                    SideOf(r[i], "/referenced_table_id").value[1].path)
      BY <2>1, <2>2 DEF r
    <2> HIDE DEF i
    <2> QED BY <1>5, <2>3, <2>4
  <1>9. (x.change = "changed") <=> (x.properties # {}) BY <1>1
  <1> QED BY <1>1, <1>2, <1>6, <1>7, <1>8, <1>9 DEF ChangeAllowed, i

LEMMA HierarchyHolds ==
    ASSUME NEW b, NEW c, Shaped(b), Shaped(c), Projects(b), Projects(c)
    PROVE  HierarchyConsistent(ObjectChanges(Projection(b), Projection(c)))
  <1> DEFINE l == Projection(b)
             r == Projection(c)
  <1>1. /\ \A i \in DOMAIN l : Ancestors(i) \subseteq DOMAIN l
        /\ \A i \in DOMAIN r : Ancestors(i) \subseteq DOMAIN r
    BY AncestorsAreThere
  <1> HIDE DEF l, r
  <1>2. ASSUME NEW x \in ObjectChanges(l, r), NEW a \in ObjectChanges(l, r),
               a.object \in Ancestors(x.object), a.change # "changed"
        PROVE  x.change = a.change
    <2>1. x.object \in DOMAIN l => a.object \in DOMAIN l BY <1>1, <1>2
    <2>2. x.object \in DOMAIN r => a.object \in DOMAIN r BY <1>1, <1>2
    <2>3. x.object \in DOMAIN l \cup DOMAIN r BY ChangeOf
    <2>4. CASE a.change = "added"
      <3>1. a.object \notin DOMAIN l BY <2>4, ChangeOf
      <3>2. x.object \in DOMAIN r \ DOMAIN l BY <2>1, <2>3, <3>1
      <3> QED BY <2>4, <3>2, ChangeOf
    <2>5. CASE a.change = "removed"
      <3>1. a.object \notin DOMAIN r BY <2>5, ChangeOf
      <3>2. x.object \in DOMAIN l \ DOMAIN r BY <2>2, <2>3, <3>1
      <3> QED BY <2>5, <3>2, ChangeOf
    <2>6. a.change \in {"added", "removed"} BY <1>2, ChangeOf
    <2> QED BY <2>4, <2>5, <2>6
  <1> QED BY <1>2 DEF HierarchyConsistent, l, r

\* The name of a root is a difference exactly when it differs.
LEMMA NamesHold ==
    ASSUME NEW b, NEW c, Shaped(b), Shaped(c), Projects(b), Projects(c),
           NEW result, result.changes = ObjectChanges(Projection(b), Projection(c)),
           NEW kind \in Roots
    PROVE  NamesMatch(result, kind,
                      IF kind = "data_source" THEN b.source ELSE b.database,
                      IF kind = "data_source" THEN c.source ELSE c.database)
  <1> DEFINE l == Projection(b)
             r == Projection(c)
             root == ObjectIdentity(kind, <<>>)
             before == IF kind = "data_source" THEN b.source ELSE b.database
             after == IF kind = "data_source" THEN c.source ELSE c.database
             renamed == {d \in UNION {x.properties :
                                        x \in {y \in result.changes : y.object.kind = kind}} :
                            d.property = "/name"}
             named == [property |-> "/name", baseline |-> Present(before),
                       candidate |-> Present(after)]
  <1>1. /\ root \in DOMAIN l /\ root \in DOMAIN r
        /\ \A i \in DOMAIN l : i.kind = kind => i = root
        /\ \A i \in DOMAIN r : i.kind = kind => i = root
        /\ SideOf(l[root], "/name") = Present(before)
        /\ SideOf(r[root], "/name") = Present(after)
    BY RootOf
  <1>2. root.kind = kind BY DEF ObjectIdentity
  <1>3. result.changes = ObjectChanges(l, r) OBVIOUS
  <1>4. (before = after) <=> (Present(before) = Present(after)) BY DEF Present
  <1> HIDE DEF l, r, root, before, after
  <1>5. ASSUME NEW d \in renamed PROVE d = named /\ before # after
    <2>1. PICK x \in result.changes : x.object.kind = kind /\ d \in x.properties OBVIOUS
    <2>2. x.change = "changed" /\ x.object = root /\ d \in DiffProperties(l[root], r[root])
      <3>1. x.properties # {} BY <2>1
      <3>2. x.change = "changed" /\ x.object \in DOMAIN l BY <1>3, <3>1, ChangeOf
      <3>3. x.object = root BY <1>1, <2>1, <3>2
      <3>4. x.properties = DiffProperties(l[x.object], r[x.object]) BY <1>3, <3>2, ChangeOf
      <3> QED BY <2>1, <3>2, <3>3, <3>4
    <2>3. d.property = "/name" OBVIOUS
    <2>4. PICK p : /\ SideOf(l[root], p) # SideOf(r[root], p)
                   /\ d = [property |-> p, baseline |-> SideOf(l[root], p),
                           candidate |-> SideOf(r[root], p)]
      BY <2>2, DifferencesAre
    <2>5. p = "/name" BY <2>3, <2>4
    <2> QED BY <1>1, <1>4, <2>4, <2>5
  <1>6. ASSUME before # after PROVE named \in renamed
    <2> DEFINE x == ObjectChange("changed", root, DiffProperties(l[root], r[root]))
    <2>1. "/name" \in DOMAIN l[root] \cup DOMAIN r[root]
      <3>1. Present(before) # Missing BY DEF Present, Missing
      <3> QED BY <1>1, <3>1 DEF SideOf
    <2>2. named \in DiffProperties(l[root], r[root])
      BY <1>1, <1>4, <1>6, <2>1, DifferencesAre
    <2>3. x \in ObjectChanges(l, r) BY <1>1, <2>2, ChangesAre
    <2>4. x.object = root /\ x.properties = DiffProperties(l[root], r[root])
      BY DEF ObjectChange
    <2> HIDE DEF x
    <2>5. named.property = "/name" OBVIOUS
    <2> HIDE DEF named
    <2> QED BY <1>2, <1>3, <2>2, <2>3, <2>4, <2>5
  <1> HIDE DEF renamed, named
  <1>7. renamed = IF before = after THEN {} ELSE {named} BY <1>5, <1>6
  <1> QED BY <1>7 DEF NamesMatch, renamed, named, before, after

LEMMA ComparedIs ==
    ASSUME NEW b, NEW c
    PROVE  LET r == Compared(b, c)
               changes == ObjectChanges(Projection(b), Projection(c))
           IN  /\ r.baseline = Metadata(b) /\ r.candidate = Metadata(c)
               /\ r.changes = changes /\ r.alignment = Alignment(b, c)
               /\ r.status = (IF changes = {} THEN "identical" ELSE "different")
               /\ r.summary.added = Count(changes, "added")
               /\ r.summary.removed = Count(changes, "removed")
               /\ r.summary.changed = Count(changes, "changed")
               /\ r.summary.property_changes = PropertyCount(changes)
  <1> DEFINE left == Projection(b)
             right == Projection(c)
             changes == ObjectChanges(left, right)
             r == Compared(b, c)
             summary == [added |-> Count(changes, "added"), removed |-> Count(changes, "removed"),
                         changed |-> Count(changes, "changed"),
                         property_changes |-> PropertyCount(changes),
                         unchanged |-> Cardinality(DOMAIN left \cap DOMAIN right)
                                           - Count(changes, "changed")]
  <1>1. r = [baseline |-> Metadata(b), candidate |-> Metadata(c),
             changes |-> changes, alignment |-> Alignment(b, c),
             status |-> IF changes = {} THEN "identical" ELSE "different",
             summary |-> summary]
    BY DEF Compared
  <1> HIDE DEF r, left, right, changes
  <1> QED BY <1>1 DEF r, left, right, changes

\* A comparison that the program has written is one that its loader accepts
\* (comparison/compare.py, comparison/load.py:794): what one run saves, the
\* review of another run can use.
THEOREM CompareAccepts ==
    ASSUME NEW b, NEW c, NEW ack, Shaped(b), Shaped(c), Comparable(b, c, ack)
    PROVE  AcceptsComparison(Compared(b, c))
  <1> DEFINE r == Compared(b, c)
             changes == ObjectChanges(Projection(b), Projection(c))
  <1>1. /\ r.baseline = Metadata(b) /\ r.candidate = Metadata(c)
        /\ r.changes = changes /\ r.alignment = Alignment(b, c)
        /\ r.status = (IF changes = {} THEN "identical" ELSE "different")
        /\ r.summary.added = Count(changes, "added")
        /\ r.summary.removed = Count(changes, "removed")
        /\ r.summary.changed = Count(changes, "changed")
        /\ r.summary.property_changes = PropertyCount(changes)
    BY ComparedIs
  <1>2. Projects(b) /\ Projects(c) /\ b.system = c.system /\ b.scanner = c.scanner
    BY DEF Comparable
  <1>3. b.contract = "supported" /\ c.contract = "supported"
    BY <1>2 DEF Projects, Loads, EnvelopeHolds
  <1> HIDE DEF r
  <1>4. /\ r.baseline.system = r.candidate.system /\ r.baseline.scanner = r.candidate.scanner
        /\ r.baseline.contract = "supported" /\ r.candidate.contract = "supported"
        /\ r.alignment = Alignment(r.baseline, r.candidate)
    <2>1. /\ Metadata(b).source = b.source /\ Metadata(b).database = b.database
          /\ Metadata(c).source = c.source /\ Metadata(c).database = c.database
      BY DEF Metadata
    <2>2. Alignment(Metadata(b), Metadata(c)) = Alignment(b, c) BY <2>1 DEF Alignment
    <2> QED BY <1>1, <1>2, <1>3, <2>2 DEF Metadata
  <1>5. \A x \in r.changes : ChangeAllowed(x) BY <1>1, <1>2, ChangesAllowed
  <1>6. \A x, y \in r.changes : x.object = y.object => x = y BY <1>1, OneChangeEach
  <1>7. /\ NamesMatch(r, "data_source", r.baseline.source, r.candidate.source)
        /\ NamesMatch(r, "database", r.baseline.database, r.candidate.database)
    <2>1. /\ r.baseline.source = b.source /\ r.baseline.database = b.database
          /\ r.candidate.source = c.source /\ r.candidate.database = c.database
      BY <1>1 DEF Metadata
    <2>2. NamesMatch(r, "data_source", b.source, c.source)
      <3>1. "data_source" \in Roots BY DEF Roots
      <3> QED BY <1>1, <1>2, <3>1, NamesHold
    <2>3. NamesMatch(r, "database", b.database, c.database)
      <3>1. "database" \in Roots BY DEF Roots
      <3> QED BY <1>1, <1>2, <3>1, NamesHold
    <2> QED BY <2>1, <2>2, <2>3
  <1>8. HierarchyConsistent(r.changes) BY <1>1, <1>2, HierarchyHolds
  <1>9. \A change \in {"added", "removed", "changed"} :
            r.summary[change] = Count(r.changes, change)
    <2> TAKE change \in {"added", "removed", "changed"}
    <2>1. CASE change = "added" BY <1>1, <2>1
    <2>2. CASE change = "removed" BY <1>1, <2>2
    <2>3. CASE change = "changed" BY <1>1, <2>3
    <2> QED BY <2>1, <2>2, <2>3
  <1>10. /\ r.summary.property_changes = PropertyCount(r.changes)
         /\ r.status = (IF r.changes = {} THEN "identical" ELSE "different")
    BY <1>1
  <1>11. AcceptsComparison(r)
    BY <1>4, <1>5, <1>6, <1>7, <1>8, <1>9, <1>10 DEF AcceptsComparison
  <1> QED BY <1>11 DEF r

-----------------------------------------------------------------------------
(* The drift lane.                                                         *)

\* A rule says at most one value for a side.
Sided(rules) ==
    \A r \in rules : \A side \in {"baseline", "candidate"} :
        r.expected[side] \in Seq(Range(r.expected[side])) /\ Len(r.expected[side]) <= 1

LEMMA SideMeans ==
    ASSUME NEW expected, expected \in Seq(Range(expected)), Len(expected) <= 1, NEW actual
    PROVE  SideExpected(expected, actual) <=> expected \in {<<>>, <<actual>>}
  <1>0. Len(expected) <= 1 OBVIOUS
  <1>1. CASE expected = <<>> BY <1>1 DEF SideExpected
  <1>2. CASE expected # <<>>
    <2>1. Len(expected) = 1
      <3> DEFINE S == Range(expected)
      <3>1. expected \in Seq(S) OBVIOUS
      <3> HIDE DEF S
      <3>2. Len(expected) \in Nat \ {0} BY <1>2, <3>1, EmptySeq
      <3>3. \A n \in Nat \ {0} : n <= 1 => n = 1 OBVIOUS
      <3> QED BY <1>0, <3>2, <3>3, Zenon
    <2>2. expected = <<expected[1]>>
      <3>1. DOMAIN expected = {1} BY <2>1
      <3>2. expected = [n \in 1..1 |-> expected[n]] BY <2>1
      <3> QED BY <2>1, <3>2
    <2> QED BY <1>2, <2>2 DEF SideExpected
  <1> QED BY <1>1, <1>2

\* A difference is expected when some rule names and allows it: rules that name the same
\* difference allow the same.
LEMMA Classifies ==
    ASSUME NEW rules, PolicyUnambiguous(rules), Sided(rules),
           NEW change, NEW i, NEW p, NEW before, NEW after
    PROVE  LET x == Classified(Difference(change, i, p, before, after), rules) IN
           x.classification = (IF Expected(rules, change, i, p, before, after)
                               THEN "expected_difference" ELSE "unexpected_drift")
  <1> DEFINE d == Difference(change, i, p, before, after)
             matching == {r \in rules : Selector(r) = Selector(d)}
             met == \A r \in matching : ExpectationsSatisfied(r.expected, d)
  <1>1. \A r \in rules : Selector(r) = Selector(d)
                            <=> r.change = change /\ r.object = i /\ r.property = p
    BY DEF Selector, Difference
  <1>2. ASSUME NEW r \in rules
        PROVE  ExpectationsSatisfied(r.expected, d)
                 <=> /\ r.expected.baseline \in {<<>>, <<before>>}
                     /\ r.expected.candidate \in {<<>>, <<after>>}
    <2>1. d.baseline = before /\ d.candidate = after BY DEF Difference
    <2>2. /\ r.expected.baseline \in Seq(Range(r.expected.baseline))
          /\ Len(r.expected.baseline) <= 1
      BY DEF Sided
    <2>3. /\ r.expected.candidate \in Seq(Range(r.expected.candidate))
          /\ Len(r.expected.candidate) <= 1
      BY DEF Sided
    <2>4. SideExpected(r.expected.baseline, before) <=> r.expected.baseline \in {<<>>, <<before>>}
      BY <2>2, SideMeans
    <2>5. SideExpected(r.expected.candidate, after)
            <=> r.expected.candidate \in {<<>>, <<after>>}
      BY <2>3, SideMeans
    <2> HIDE DEF d
    <2> QED BY <2>1, <2>4, <2>5 DEF ExpectationsSatisfied
  <1>3. \A r, q \in matching : r.expected = q.expected BY DEF PolicyUnambiguous
  <1> HIDE DEF d
  <1>4. Classified(d, rules).classification
          = IF matching # {} /\ met THEN "expected_difference" ELSE "unexpected_drift"
    BY DEF Classified
  <1>5. matching # {} /\ met <=> \E r \in matching : ExpectationsSatisfied(r.expected, d)
    BY <1>3
  <1>6. Expected(rules, change, i, p, before, after)
          <=> \E r \in matching : ExpectationsSatisfied(r.expected, d)
    BY <1>1, <1>2 DEF Expected
  <1> HIDE DEF matching, met
  <1> QED BY <1>4, <1>5, <1>6 DEF d

\* The differences of a comparison: added and removed objects, and changed properties.
LEMMA DifferenceIs ==
    ASSUME NEW b, NEW c, NEW d
    PROVE  LET l == Projection(b) r == Projection(c) IN
           d \in Differences(Compared(b, c)) <=>
             \/ \E i \in DOMAIN l \ DOMAIN r :
                    d = Difference("removed", i, WholeObject, Missing, Missing)
             \/ \E i \in DOMAIN r \ DOMAIN l :
                    d = Difference("added", i, WholeObject, Missing, Missing)
             \/ \E i \in DOMAIN l \cap DOMAIN r : \E p \in DOMAIN l[i] \cup DOMAIN r[i] :
                    /\ SideOf(l[i], p) # SideOf(r[i], p)
                    /\ d = Difference("changed", i, p, SideOf(l[i], p), SideOf(r[i], p))
  <1> DEFINE l == Projection(b)
             r == Projection(c)
             changes == ObjectChanges(l, r)
             of(x) == IF x.change = "changed"
                      THEN {Difference("changed", x.object, e.property, e.baseline, e.candidate) :
                                e \in x.properties}
                      ELSE {Difference(x.change, x.object, WholeObject, Missing, Missing)}
  <1>1. Differences(Compared(b, c)) = UNION {of(x) : x \in changes}
    BY ComparedIs DEF Differences
  <1> HIDE DEF l, r
  <1>2. ASSUME NEW i \in DOMAIN l \ DOMAIN r
        PROVE  /\ ObjectChange("removed", i, {}) \in changes
               /\ of(ObjectChange("removed", i, {}))
                    = {Difference("removed", i, WholeObject, Missing, Missing)}
    BY ChangesAre DEF ObjectChange
  <1>3. ASSUME NEW i \in DOMAIN r \ DOMAIN l
        PROVE  /\ ObjectChange("added", i, {}) \in changes
               /\ of(ObjectChange("added", i, {}))
                    = {Difference("added", i, WholeObject, Missing, Missing)}
    BY ChangesAre DEF ObjectChange
  <1>4. ASSUME NEW i \in DOMAIN l \cap DOMAIN r
        PROVE  LET diff == DiffProperties(l[i], r[i])
                   x == ObjectChange("changed", i, diff)
               IN  /\ diff # {} => x \in changes
                   /\ of(x) = {Difference("changed", i, e.property, e.baseline, e.candidate) :
                                    e \in diff}
    BY ChangesAre DEF ObjectChange
  <1>5. ASSUME NEW i \in DOMAIN l \cap DOMAIN r, NEW e
        PROVE  /\ e \in DiffProperties(l[i], r[i]) =>
                    /\ e.property \in DOMAIN l[i] \cup DOMAIN r[i]
                    /\ SideOf(l[i], e.property) # SideOf(r[i], e.property)
                    /\ e.baseline = SideOf(l[i], e.property)
                    /\ e.candidate = SideOf(r[i], e.property)
    BY DifferencesAre
  <1>6. ASSUME NEW i \in DOMAIN l \cap DOMAIN r, NEW p \in DOMAIN l[i] \cup DOMAIN r[i],
               SideOf(l[i], p) # SideOf(r[i], p)
        PROVE  \E e \in DiffProperties(l[i], r[i]) :
                    /\ e.property = p /\ e.baseline = SideOf(l[i], p)
                    /\ e.candidate = SideOf(r[i], p)
    <2> DEFINE e == [property |-> p, baseline |-> SideOf(l[i], p), candidate |-> SideOf(r[i], p)]
    <2>1. e \in DiffProperties(l[i], r[i]) BY <1>6, DifferencesAre
    <2> QED BY <2>1
  <1> DEFINE Removed == \E i \in DOMAIN l \ DOMAIN r :
                            d = Difference("removed", i, WholeObject, Missing, Missing)
             Added == \E i \in DOMAIN r \ DOMAIN l :
                            d = Difference("added", i, WholeObject, Missing, Missing)
             Changed == \E i \in DOMAIN l \cap DOMAIN r :
                            \E p \in DOMAIN l[i] \cup DOMAIN r[i] :
                                /\ SideOf(l[i], p) # SideOf(r[i], p)
                                /\ d = Difference("changed", i, p, SideOf(l[i], p),
                                                  SideOf(r[i], p))
  <1>7. ASSUME NEW x \in changes, d \in of(x) PROVE Removed \/ Added \/ Changed
    <2> HIDE DEF of
    <2>1. CASE \E i \in DOMAIN r \ DOMAIN l : x = ObjectChange("added", i, {})
      BY <1>3, <1>7, <2>1
    <2>2. CASE \E i \in DOMAIN l \ DOMAIN r : x = ObjectChange("removed", i, {})
      BY <1>2, <1>7, <2>2
    <2>3. CASE \E i \in DOMAIN l \cap DOMAIN r :
                x = ObjectChange("changed", i, DiffProperties(l[i], r[i]))
      <3>1. PICK i \in DOMAIN l \cap DOMAIN r :
                x = ObjectChange("changed", i, DiffProperties(l[i], r[i]))
        BY <2>3
      <3>2. PICK e \in DiffProperties(l[i], r[i]) :
                d = Difference("changed", i, e.property, e.baseline, e.candidate)
        BY <1>4, <1>7, <3>1
      <3>3. Changed BY <1>5, <3>2
      <3> QED BY <3>3
    <2> HIDE DEF Removed, Added, Changed
    <2> QED BY <2>1, <2>2, <2>3, ChangesAre
  <1> HIDE DEF of, changes
  <1>8. ASSUME Removed PROVE \E x \in changes : d \in of(x) BY <1>2, <1>8
  <1>9. ASSUME Added PROVE \E x \in changes : d \in of(x) BY <1>3, <1>9
  <1>10. ASSUME Changed PROVE \E x \in changes : d \in of(x)
    <2>0. PICK i \in DOMAIN l \cap DOMAIN r : \E p \in DOMAIN l[i] \cup DOMAIN r[i] :
                /\ SideOf(l[i], p) # SideOf(r[i], p)
                /\ d = Difference("changed", i, p, SideOf(l[i], p), SideOf(r[i], p))
      BY <1>10
    <2>1. PICK p \in DOMAIN l[i] \cup DOMAIN r[i] :
                /\ SideOf(l[i], p) # SideOf(r[i], p)
                /\ d = Difference("changed", i, p, SideOf(l[i], p), SideOf(r[i], p))
      BY <2>0
    <2>2. PICK e \in DiffProperties(l[i], r[i]) :
                d = Difference("changed", i, e.property, e.baseline, e.candidate)
      BY <1>6, <2>1
    <2>3. DiffProperties(l[i], r[i]) # {} BY <2>2
    <2> QED BY <1>4, <2>2, <2>3
  <1>11. d \in Differences(Compared(b, c)) <=> Removed \/ Added \/ Changed
    <2> HIDE DEF Removed, Added, Changed
    <2> QED BY <1>1, <1>7, <1>8, <1>9, <1>10
  <1> QED BY <1>11 DEF l, r

\* Differences, and what a classification makes of them, are finite.
AllPointers == {"/column_ids", "/referenced_table_id", "/referenced_column_ids", "/to_table_id",
                "/foreign_key_id", "/description", "/data_type", "/ordinal_position",
                "/nullable", "/name", "/ownership", TechnicalAttribute}

LEMMA PointersAreFinite ==
    /\ IsFiniteSet(AllPointers)
    /\ \A kind \in Kinds : \A p : PointerAllowed(kind, p) => p \in AllPointers
  <1>1. ASSUME NEW a, NEW b, NEW c, NEW d PROVE IsFiniteSet({a, b, c, d})
    <2>1. IsFiniteSet({a} \cup {b}) BY FS_Singleton, FS_AddElement
    <2>2. IsFiniteSet(({a} \cup {b}) \cup {c}) BY <2>1, FS_AddElement
    <2>3. IsFiniteSet((({a} \cup {b}) \cup {c}) \cup {d}) BY <2>2, FS_AddElement
    <2>4. (({a} \cup {b}) \cup {c}) \cup {d} = {a, b, c, d} OBVIOUS
    <2> QED BY <2>3, <2>4
  <1> DEFINE S == {"/column_ids", "/referenced_table_id", "/referenced_column_ids", "/to_table_id"}
             T == {"/foreign_key_id", "/description", "/data_type", "/ordinal_position"}
             U == {"/nullable", "/name", "/ownership", TechnicalAttribute}
  <1>2. IsFiniteSet(S) /\ IsFiniteSet(T) /\ IsFiniteSet(U) BY <1>1
  <1>3. AllPointers = (S \cup T) \cup U BY DEF AllPointers
  <1> HIDE DEF S, T, U
  <1>4. IsFiniteSet(AllPointers)
    <2>1. IsFiniteSet(S \cup T) BY <1>2, FS_Union
    <2>2. IsFiniteSet((S \cup T) \cup U) BY <1>2, <2>1, FS_Union
    <2> QED BY <1>3, <2>2
  <1>5. \A kind \in Kinds : \A p : PointerAllowed(kind, p) => p \in AllPointers
    BY DEF AllPointers, PointerAllowed, FixedPointers, Kinds, Roots, Members
  <1> QED BY <1>4, <1>5

LEMMA IdentitiesAreFinite ==
    ASSUME NEW s, Shaped(s), Projects(s)
    PROVE  IsFiniteSet(DOMAIN Projection(s))
  <1> DEFINE f == [o \in s.objects |-> IdentityOf(o)]
  <1>1. IsFiniteSet(s.objects) BY DEF Shaped
  <1>2. IsFiniteSet({f[o] : o \in s.objects}) BY <1>1, ImageIsFinite
  <1>3. {f[o] : o \in s.objects} = {IdentityOf(o) : o \in s.objects} OBVIOUS
  <1> QED BY <1>2, <1>3, ProjectionIs

LEMMA DifferencesAreFinite ==
    ASSUME NEW b, NEW c, Shaped(b), Shaped(c), Projects(b), Projects(c)
    PROVE  IsFiniteSet(Differences(Compared(b, c)))
  <1> DEFINE l == Projection(b)
             r == Projection(c)
             I == DOMAIN l \cup DOMAIN r
             K == I \X AllPointers
             removed == [i \in I |-> Difference("removed", i, WholeObject, Missing, Missing)]
             added == [i \in I |-> Difference("added", i, WholeObject, Missing, Missing)]
             changed == [k \in K |-> Difference("changed", k[1], k[2], SideOf(l[k[1]], k[2]),
                                                 SideOf(r[k[1]], k[2]))]
             D == Differences(Compared(b, c))
  <1>1. IsFiniteSet(I)
    <2>1. IsFiniteSet(DOMAIN l) /\ IsFiniteSet(DOMAIN r) BY IdentitiesAreFinite
    <2> HIDE DEF l, r
    <2> QED BY <2>1, FS_Union
  <1>2. IsFiniteSet(K)
    <2> HIDE DEF I
    <2> QED BY <1>1, PointersAreFinite, FS_Product
  <1> DEFINE R == {removed[i] : i \in I}
             A == {added[i] : i \in I}
             C == {changed[k] : k \in K}
  <1>3. IsFiniteSet(R) /\ IsFiniteSet(A) /\ IsFiniteSet(C)
    <2> HIDE DEF I, K
    <2>1. IsFiniteSet(R) BY <1>1, ImageIsFinite
    <2>2. IsFiniteSet(A) BY <1>1, ImageIsFinite
    <2>3. IsFiniteSet(C) BY <1>2, ImageIsFinite
    <2> QED BY <2>1, <2>2, <2>3
  <1>4. ASSUME NEW s \in {b, c}, NEW i \in DOMAIN Projection(s),
               NEW p \in DOMAIN Projection(s)[i]
        PROVE  p \in AllPointers
    <2>1. PICK o \in s.objects : Projection(s)[i] = Properties(s, o) BY ObjectAt
    <2>2. o.kind \in Kinds /\ PointerAllowed(o.kind, p) BY <2>1, ShapedObject, PointersAllowed
    <2> QED BY <2>2, PointersAreFinite
  <1>5. ASSUME NEW d \in D PROVE d \in (R \cup A) \cup C
    <2>1. CASE \E i \in DOMAIN l \ DOMAIN r :
                d = Difference("removed", i, WholeObject, Missing, Missing)
      <3> HIDE DEF l, r
      <3>1. d \in R BY <2>1
      <3> HIDE DEF R, A, C
      <3> QED BY <3>1
    <2>2. CASE \E i \in DOMAIN r \ DOMAIN l :
                d = Difference("added", i, WholeObject, Missing, Missing)
      <3> HIDE DEF l, r
      <3>1. d \in A BY <2>2
      <3> HIDE DEF R, A, C
      <3> QED BY <3>1
    <2>3. CASE \E i \in DOMAIN l \cap DOMAIN r : \E p \in DOMAIN l[i] \cup DOMAIN r[i] :
                d = Difference("changed", i, p, SideOf(l[i], p), SideOf(r[i], p))
      <3>1. PICK i \in DOMAIN l \cap DOMAIN r : \E p \in DOMAIN l[i] \cup DOMAIN r[i] :
                d = Difference("changed", i, p, SideOf(l[i], p), SideOf(r[i], p))
        BY <2>3
      <3>2. PICK p \in DOMAIN l[i] \cup DOMAIN r[i] :
                d = Difference("changed", i, p, SideOf(l[i], p), SideOf(r[i], p))
        BY <3>1
      <3>3. p \in AllPointers BY <1>4
      <3>4. <<i, p>> \in K BY <3>3
      <3> HIDE DEF l, r, K
      <3>5. d = changed[<<i, p>>] BY <3>2, <3>4
      <3>6. d \in C BY <3>4, <3>5
      <3> HIDE DEF R, A, C
      <3> QED BY <3>6
    <2> HIDE DEF R, A, C
    <2> QED BY <2>1, <2>2, <2>3, DifferenceIs
  <1> HIDE DEF D, R, A, C
  <1>6. IsFiniteSet((R \cup A) \cup C)
    <2>1. IsFiniteSet(R \cup A) BY <1>3, FS_Union
    <2> QED BY <1>3, <2>1, FS_Union
  <1>7. D \in SUBSET ((R \cup A) \cup C) BY <1>5
  <1>8. IsFiniteSet(D) BY <1>6, <1>7, FS_Subset
  <1> QED BY <1>8 DEF D

\* What a result of classified differences says.
LEMMA ResultSays ==
    ASSUME NEW comparison, NEW rules, IsFiniteSet(Differences(comparison))
    PROVE  LET result == DriftResult(comparison, <<rules>>)
               d == DriftBlock(comparison, result)
           IN  /\ d.status # "not_run" /\ DriftCoherent(d)
               /\ d.status = "unexpected_drift" <=>
                    \E x \in Differences(comparison) :
                        Classified(x, rules).classification = "unexpected_drift"
  <1> DEFINE D == Differences(comparison)
             f == [x \in D |-> Classified(x, rules)]
             classified == {f[x] : x \in D}
             unexpected == {x \in classified : x.classification = "unexpected_drift"}
             result == DriftResult(comparison, <<rules>>)
             d == DriftBlock(comparison, result)
             summary == [affected_objects |-> Cardinality({x.difference.object : x \in classified}),
                         expected_differences |-> Cardinality(classified \ unexpected),
                         property_drift |-> Cardinality({x \in unexpected :
                                                            x.difference.change = "changed"}),
                         unexpected_drift |-> Cardinality(unexpected)]
  <1>1. classified = {Classified(x, rules) : x \in D} OBVIOUS
  <1>2. /\ result.status = DeriveStatus(classified) /\ result.policy = <<rules>>
        /\ result.summary = summary
    <2>1. <<rules>> # <<>> /\ <<rules>>[1] = rules OBVIOUS
    <2> QED BY <1>1, <2>1 DEF DriftResult
  <1>3. IsFiniteSet(classified) BY ImageIsFinite
  <1>4. classified = {} <=> D = {} OBVIOUS
  <1>5. unexpected # {} <=> \E x \in D : Classified(x, rules).classification = "unexpected_drift"
    OBVIOUS
  <1> HIDE DEF D, classified, f
  <1>6. IsFiniteSet(unexpected) /\ IsFiniteSet(classified \ unexpected)
    <2>1. unexpected \in SUBSET classified /\ classified \ unexpected \in SUBSET classified
      OBVIOUS
    <2> HIDE DEF unexpected
    <2> QED BY <1>3, <2>1, FS_Subset
  <1>7. d.status = result.status /\ d.policy = <<rules>> /\ d.summary = summary
    <2> HIDE DEF result, summary
    <2> QED BY <1>2 DEF DriftBlock
  <1>8. d.status = (IF classified = {} THEN "no_difference"
                    ELSE IF unexpected # {} THEN "unexpected_drift" ELSE "expected_difference")
    <2> HIDE DEF result, d
    <2> QED BY <1>2, <1>7 DEF DeriveStatus
  <1> HIDE DEF result, d, unexpected
  <1>9. <<rules>> # <<>> OBVIOUS
  <1>10. DriftCoherent(d)
    <2>1. CASE classified = {}
      <3>1. unexpected = {} BY <2>1 DEF unexpected
      <3>2. {x.difference.object : x \in classified} = {} /\ classified \ unexpected = {}
            /\ {x \in unexpected : x.difference.change = "changed"} = {}
        BY <2>1, <3>1
      <3>3. summary = [affected_objects |-> 0, expected_differences |-> 0,
                       property_drift |-> 0, unexpected_drift |-> 0]
        BY <3>1, <3>2, FS_EmptySet
      <3>4. \A key \in DOMAIN summary : summary[key] = 0 BY <3>3
      <3> HIDE DEF summary
      <3> QED BY <1>7, <1>8, <2>1, <3>4 DEF DriftCoherent
    <2>2. CASE classified # {} /\ unexpected = {}
      <3>1. Cardinality(classified \ unexpected) > 0 /\ Cardinality(unexpected) = 0
        BY <1>6, <2>2, Counts, FS_EmptySet
      <3>2. summary.expected_differences > 0 /\ summary.unexpected_drift = 0 BY <3>1
      <3> HIDE DEF summary
      <3> QED BY <1>7, <1>8, <1>9, <2>2, <3>2 DEF DriftCoherent
    <2>3. CASE unexpected # {}
      <3>1. Cardinality(unexpected) > 0 BY <1>6, <2>3, Counts
      <3>2. summary.unexpected_drift > 0 BY <3>1
      <3>3. classified # {} BY <2>3 DEF unexpected
      <3> HIDE DEF summary
      <3> QED BY <1>7, <1>8, <1>9, <2>3, <3>2, <3>3 DEF DriftCoherent
    <2> QED BY <2>1, <2>2, <2>3
  <1>11. unexpected # {} => classified # {} BY DEF unexpected
  <1>12. /\ d.status # "not_run"
         /\ d.status = "unexpected_drift" <=> unexpected # {}
    BY <1>8, <1>11
  <1> QED BY <1>5, <1>10, <1>12 DEF d, D, result

LEMMA UnexpectedIs ==
    ASSUME NEW b, NEW c, NEW rules, PolicyUnambiguous(rules), Sided(rules)
    PROVE  UnexpectedDifference(b, c, rules) <=>
             \E d \in Differences(Compared(b, c)) :
                 Classified(d, rules).classification = "unexpected_drift"
  <1> DEFINE l == Projection(b)
             r == Projection(c)
             D == Differences(Compared(b, c))
             Drifted(d) == Classified(d, rules).classification = "unexpected_drift"
  <1>1. \A change, i, p, before, after :
            Drifted(Difference(change, i, p, before, after))
                <=> ~Expected(rules, change, i, p, before, after)
    BY Classifies
  <1>2. UnexpectedDifference(b, c, rules) <=>
          \/ \E i \in DOMAIN l \ DOMAIN r :
                ~Expected(rules, "removed", i, WholeObject, Missing, Missing)
          \/ \E i \in DOMAIN r \ DOMAIN l :
                ~Expected(rules, "added", i, WholeObject, Missing, Missing)
          \/ \E i \in DOMAIN l \cap DOMAIN r : \E p \in DOMAIN l[i] \cup DOMAIN r[i] :
                /\ SideOf(l[i], p) # SideOf(r[i], p)
                /\ ~Expected(rules, "changed", i, p, SideOf(l[i], p), SideOf(r[i], p))
    BY DEF UnexpectedDifference
  <1>3. \A d : d \in D <=>
          \/ \E i \in DOMAIN l \ DOMAIN r :
                d = Difference("removed", i, WholeObject, Missing, Missing)
          \/ \E i \in DOMAIN r \ DOMAIN l :
                d = Difference("added", i, WholeObject, Missing, Missing)
          \/ \E i \in DOMAIN l \cap DOMAIN r : \E p \in DOMAIN l[i] \cup DOMAIN r[i] :
                /\ SideOf(l[i], p) # SideOf(r[i], p)
                /\ d = Difference("changed", i, p, SideOf(l[i], p), SideOf(r[i], p))
    BY DifferenceIs
  <1> HIDE DEF l, r, D, Drifted
  <1>4. ASSUME UnexpectedDifference(b, c, rules) PROVE \E d \in D : Drifted(d)
    <2>1. CASE \E i \in DOMAIN l \ DOMAIN r :
                ~Expected(rules, "removed", i, WholeObject, Missing, Missing)
      BY <1>1, <1>3, <2>1
    <2>2. CASE \E i \in DOMAIN r \ DOMAIN l :
                ~Expected(rules, "added", i, WholeObject, Missing, Missing)
      BY <1>1, <1>3, <2>2
    <2>3. CASE \E i \in DOMAIN l \cap DOMAIN r : \E p \in DOMAIN l[i] \cup DOMAIN r[i] :
                /\ SideOf(l[i], p) # SideOf(r[i], p)
                /\ ~Expected(rules, "changed", i, p, SideOf(l[i], p), SideOf(r[i], p))
      BY <1>1, <1>3, <2>3
    <2> QED BY <1>2, <1>4, <2>1, <2>2, <2>3
  <1>5. ASSUME NEW d \in D, Drifted(d) PROVE UnexpectedDifference(b, c, rules)
    <2>1. CASE \E i \in DOMAIN l \ DOMAIN r :
                d = Difference("removed", i, WholeObject, Missing, Missing)
      BY <1>1, <1>2, <1>5, <2>1
    <2>2. CASE \E i \in DOMAIN r \ DOMAIN l :
                d = Difference("added", i, WholeObject, Missing, Missing)
      BY <1>1, <1>2, <1>5, <2>2
    <2>3. CASE \E i \in DOMAIN l \cap DOMAIN r : \E p \in DOMAIN l[i] \cup DOMAIN r[i] :
                /\ SideOf(l[i], p) # SideOf(r[i], p)
                /\ d = Difference("changed", i, p, SideOf(l[i], p), SideOf(r[i], p))
      BY <1>1, <1>2, <1>5, <2>3
    <2> QED BY <1>3, <2>1, <2>2, <2>3
  <1> QED BY <1>4, <1>5 DEF D, Drifted

\* Two snapshots with one projection have no difference.
LEMMA NoDifference ==
    ASSUME NEW b, NEW c, NEW rules, Projection(b) = Projection(c)
    PROVE  ~UnexpectedDifference(b, c, rules)
  BY DEF UnexpectedDifference

\* Without a policy there is a result only when there is no difference.
LEMMA Identical ==
    ASSUME NEW b, NEW c, Projects(b), Projects(c)
    PROVE  Compared(b, c).status = "identical" <=> Projection(b) = Projection(c)
  BY ComparedIs, SameProjection

\* The drift lane finds drift exactly when the snapshots differ in a way that the
\* policy does not expect (drift/classify.py), and what it reports satisfies the
\* validation of a review.
THEOREM DriftTruth ==
    ASSUME NEW b, NEW c, Shaped(b), Shaped(c), Projects(b), Projects(c),
           NEW policy, NEW rules,
           \/ policy = <<>> /\ rules = {} /\ Projection(b) = Projection(c)
           \/ policy = <<rules>> /\ PolicyUnambiguous(rules) /\ Sided(rules)
    PROVE  LET d == DriftBlock(Compared(b, c), DriftResult(Compared(b, c), policy))
           IN  /\ d.status # "not_run" /\ DriftCoherent(d)
               /\ d.status = "unexpected_drift" <=> UnexpectedDifference(b, c, rules)
  <1> DEFINE result == DriftResult(Compared(b, c), policy)
             d == DriftBlock(Compared(b, c), result)
  <1>1. CASE policy = <<>> /\ Projection(b) = Projection(c)
    <2>1. result.status = "no_difference"
      BY <1>1 DEF DriftResult, DeriveStatus
    <2>2. result.summary = [affected_objects |-> 0, expected_differences |-> 0,
                            property_drift |-> 0, unexpected_drift |-> 0]
      BY <1>1, FS_EmptySet DEF DriftResult
    <2> HIDE DEF result
    <2>3. /\ d.status = "no_difference"
          /\ d.summary = [affected_objects |-> 0, expected_differences |-> 0,
                          property_drift |-> 0, unexpected_drift |-> 0]
      BY <2>1, <2>2 DEF DriftBlock
    <2> HIDE DEF d
    <2>4. DriftCoherent(d)
      <3>1. \A key \in DOMAIN d.summary : d.summary[key] = 0 BY <2>3
      <3> QED BY <2>3, <3>1 DEF DriftCoherent
    <2> QED BY <1>1, <2>3, <2>4, NoDifference DEF d, result
  <1>2. CASE policy = <<rules>> /\ PolicyUnambiguous(rules) /\ Sided(rules)
    <2>1. IsFiniteSet(Differences(Compared(b, c))) BY DifferencesAreFinite
    <2> QED BY <1>2, <2>1, ResultSays, UnexpectedIs
  <1> QED BY <1>1, <1>2

\* What the lanes report is always a result that passes validation.
LEMMA ReviewIsValid ==
    ASSUME NEW conflicts, NEW drift,
           conflicts.status # "not_run" => ConflictsCoherent(conflicts),
           drift.status # "not_run" => DriftCoherent(drift)
    PROVE  /\ ReviewValid(BuildReview(conflicts, drift))
           /\ BuildReview(conflicts, drift).status
                = (IF conflicts.status = "blocked" \/ drift.status = "unexpected_drift"
                   THEN "blocked" ELSE "passed")
  BY DEF ReviewValid, BuildReview, ReviewStatus

-----------------------------------------------------------------------------
(* The impact of a change: the search, layer by layer.                     *)

\* A set of natural numbers that is not empty has a least element.
LEMMA LeastNumber ==
    ASSUME NEW S, S \subseteq Nat, S # {}
    PROVE  \E n \in S : \A m \in S : n <= m
  <1>1. PICK n \in S : \A m \in S : ~(<<m, n>> \in OpToRel(<, Nat))
    BY NatLessThanWellFounded, WFMin
  <1>2. \A m \in S : ~(m < n) BY <1>1 DEF OpToRel
  <1> QED BY <1>2

\* Finitely many finite sets together are finite.
LEMMA UnionIsFinite ==
    ASSUME NEW N \in Nat, NEW f, \A n \in 1..N : IsFiniteSet(f[n])
    PROVE  IsFiniteSet(UNION {f[n] : n \in 1..N})
  <1> DEFINE U == [n \in 0..N |-> UNION {f[m] : m \in 1..n}]
             S == {n \in 0..N : ~IsFiniteSet(U[n])}
  <1>1. U[0] = {} OBVIOUS
  <1>2. \A n \in 1..N : U[n] = U[n - 1] \cup f[n]
    <2> TAKE n \in 1..N
    <2>1. 1..n = 1..n - 1 \cup {n} OBVIOUS
    <2>2. n \in 0..N /\ n - 1 \in 0..N OBVIOUS
    <2> QED BY <2>1, <2>2
  <1> HIDE DEF U
  <1>3. SUFFICES ASSUME ~IsFiniteSet(U[N]) PROVE FALSE BY DEF U
  <1>4. N \in S BY <1>3
  <1>5. PICK n \in S : \A m \in S : n <= m
    <2>1. S \subseteq Nat /\ S # {} BY <1>4
    <2> HIDE DEF S
    <2> QED BY <2>1, LeastNumber
  <1>6. n # 0 BY <1>1, <1>5, FS_EmptySet
  <1>7. n \in 1..N /\ n - 1 \in 0..N /\ n - 1 \notin S BY <1>5, <1>6
  <1>8. IsFiniteSet(U[n - 1]) /\ IsFiniteSet(f[n]) BY <1>7
  <1>9. IsFiniteSet(U[n - 1] \cup f[n]) BY <1>8, FS_Union
  <1> QED BY <1>2, <1>5, <1>7, <1>9

First(graph, roots) == [frontier |-> roots, paths |-> [r \in roots |-> NoPath(r)]]

\* What the search has found after each of k layers.
IsSearch(f, graph, roots, k) ==
    f = [n \in 0..k |-> IF n = 0 THEN First(graph, roots) ELSE Deeper(graph, f[n - 1])]

LEMMA LayersIs ==
    ASSUME NEW graph, NEW roots
    PROVE  Layers(graph, roots) = CHOOSE f : IsSearch(f, graph, roots, Cardinality(graph.nodes))
  BY DEF Layers, First, IsSearch

LEMMA LayersExist ==
    ASSUME NEW graph, NEW roots, NEW N \in Nat
    PROVE  \E f : IsSearch(f, graph, roots, N)
  <1> DEFINE Bad == {k \in Nat : ~\E f : IsSearch(f, graph, roots, k)}
  <1>1. SUFFICES ASSUME Bad # {} PROVE FALSE OBVIOUS
  <1>2. PICK k \in Bad : \A m \in Bad : k <= m BY <1>1, LeastNumber
  <1>3. CASE k = 0
    <2> DEFINE f == [n \in 0..0 |-> First(graph, roots)]
    <2>1. IsSearch(f, graph, roots, 0) BY DEF IsSearch
    <2> QED BY <1>2, <1>3, <2>1
  <1>4. CASE k # 0
    <2>1. k - 1 \in Nat /\ k - 1 \notin Bad
      <3>1. k \in Nat OBVIOUS
      <3> HIDE DEF Bad
      <3> QED BY <1>2, <1>4, <3>1
    <2>2. PICK f : IsSearch(f, graph, roots, k - 1) BY <2>1
    <2> DEFINE D == Deeper(graph, f[k - 1])
               g == [n \in 0..k |-> IF n = k THEN D ELSE f[n]]
    <2>3. \A n \in 0..k : g[n] = IF n = 0 THEN First(graph, roots) ELSE Deeper(graph, g[n - 1])
      <3> TAKE n \in 0..k
      <3>1. CASE n = 0
        <4>1. f[0] = First(graph, roots) BY <2>1, <2>2 DEF IsSearch
        <4> QED BY <3>1, <4>1, <1>4
      <3>2. CASE n = k
        <4>1. g[n] = D /\ g[n - 1] = f[k - 1] BY <3>2, <1>4, <2>1
        <4> QED BY <3>2, <4>1, <1>4
      <3>3. CASE n # 0 /\ n # k
        <4>1. n \in 0..k - 1 /\ n - 1 \in 0..k /\ n - 1 # k BY <3>3, <2>1
        <4>2. g[n] = f[n] /\ g[n - 1] = f[n - 1] BY <3>3, <4>1
        <4>3. f[n] = Deeper(graph, f[n - 1]) BY <2>2, <4>1, <3>3 DEF IsSearch
        <4> QED BY <3>3, <4>2, <4>3
      <3> QED BY <3>1, <3>2, <3>3
    <2>4. IsSearch(g, graph, roots, k) BY <2>3 DEF IsSearch
    <2> QED BY <1>2, <2>4
  <1> QED BY <1>3, <1>4

LEMMA LayersAre ==
    ASSUME NEW graph, NEW roots, Cardinality(graph.nodes) \in Nat
    PROVE  LET f == Layers(graph, roots) IN
           /\ f[0] = First(graph, roots)
           /\ \A n \in 1..Cardinality(graph.nodes) : f[n] = Deeper(graph, f[n - 1])
  <1> DEFINE N == Cardinality(graph.nodes)
             f == Layers(graph, roots)
  <1>1. IsSearch(f, graph, roots, N)
    <2>1. f = CHOOSE g : IsSearch(g, graph, roots, N) BY LayersIs
    <2>2. \E g : IsSearch(g, graph, roots, N) BY LayersExist
    <2> HIDE DEF f, N
    <2> QED BY <2>1, <2>2
  <1>3. N \in Nat OBVIOUS
  <1> HIDE DEF f, N
  <1>2. \A n \in 0..N : f[n] = IF n = 0 THEN First(graph, roots) ELSE Deeper(graph, f[n - 1])
    BY <1>1 DEF IsSearch
  <1>4. f[0] = First(graph, roots) /\ \A n \in 1..N : f[n] = Deeper(graph, f[n - 1])
    BY <1>2, <1>3
  <1> QED BY <1>4 DEF f, N

-----------------------------------------------------------------------------
(* The canonical order.                                                    *)

\* A finite graph whose edges join nodes of it.
Finite(graph) ==
    /\ IsFiniteSet(graph.nodes) /\ graph.nodes \subseteq Range(NodeOrder)
    /\ IsFiniteSet(graph.edges)
    /\ \A e \in graph.edges :
        /\ e = [source |-> e.source, kind |-> e.kind, target |-> e.target]
        /\ e.source \in graph.nodes /\ e.target \in graph.nodes

LEMMA Ranks ==
    ASSUME NEW i \in Range(NodeOrder)
    PROVE  Rank(i) \in Nat /\ NodeOrder[Rank(i)] = i
  <1>1. \E n \in DOMAIN NodeOrder : NodeOrder[n] = i BY DEF Range
  <1>2. Rank(i) \in DOMAIN NodeOrder /\ NodeOrder[Rank(i)] = i BY <1>1 DEF Rank
  <1>3. DOMAIN NodeOrder \subseteq Nat BY NodeOrderAssumption
  <1> QED BY <1>2, <1>3

LEMMA HopFacts ==
    ASSUME NEW graph, Finite(graph), NEW h \in Hops(graph)
    PROVE  /\ h = Hop(h.edge) /\ h.edge \in graph.edges
           /\ h.edge.kind \in {"contains", "depends_on", "governs"}
           /\ h.from \in graph.nodes /\ h.to \in graph.nodes /\ h.edge.source \in graph.nodes
           /\ h.from = IF h.edge.kind = "depends_on" THEN h.edge.target ELSE h.edge.source
           /\ h.to = IF h.edge.kind = "depends_on" THEN h.edge.source ELSE h.edge.target
  <1>1. DOMAIN KindRank = {"contains", "depends_on", "governs"} BY DEF KindRank
  <1>2. PICK e \in graph.edges : e.kind \in DOMAIN KindRank /\ h = Hop(e) BY DEF Hops
  <1>3. /\ h.edge = e
        /\ h.from = IF e.kind = "depends_on" THEN e.target ELSE e.source
        /\ h.to = IF e.kind = "depends_on" THEN e.source ELSE e.target
    BY <1>2 DEF Hop, AlongTheEdge
  <1>4. e.source \in graph.nodes /\ e.target \in graph.nodes BY DEF Finite
  <1> QED BY <1>1, <1>2, <1>3, <1>4

LEMMA StepKeys ==
    ASSUME NEW graph, Finite(graph), NEW h \in Hops(graph)
    PROVE  /\ StepKey(h) = <<StepKey(h)[1], StepKey(h)[2], StepKey(h)[3], StepKey(h)[4]>>
           /\ \A n \in 1..4 : StepKey(h)[n] \in Nat
           /\ \A g \in Hops(graph) : StepKey(g) = StepKey(h) => g = h
  <1>1. \A i \in graph.nodes : Rank(i) \in Nat /\ NodeOrder[Rank(i)] = i BY Ranks DEF Finite
  <1>2. \A k \in {"contains", "depends_on", "governs"} : KindRank[k] \in Nat
    BY DEF KindRank
  <1>3. \A k, l \in {"contains", "depends_on", "governs"} : KindRank[k] = KindRank[l] => k = l
    BY DEF KindRank
  <1>4. /\ StepKey(h)[1] = Rank(h.from) /\ StepKey(h)[2] = Rank(h.to)
        /\ StepKey(h)[3] = Rank(h.edge.source) /\ StepKey(h)[4] = KindRank[h.edge.kind]
    BY DEF StepKey
  <1>5. ASSUME NEW g \in Hops(graph), StepKey(g) = StepKey(h) PROVE g = h
    <2>1. /\ Rank(g.from) = Rank(h.from) /\ Rank(g.to) = Rank(h.to)
          /\ Rank(g.edge.source) = Rank(h.edge.source)
          /\ KindRank[g.edge.kind] = KindRank[h.edge.kind]
      BY <1>5, <1>4 DEF StepKey
    <2>2. g.from = h.from /\ g.to = h.to /\ g.edge.source = h.edge.source
      BY <2>1, <1>1, HopFacts
    <2>3. g.edge.kind = h.edge.kind BY <2>1, <1>3, HopFacts
    <2>4. g.edge.target = h.edge.target BY <2>2, <2>3, HopFacts
    <2>5. g.edge = h.edge
      <3>1. /\ g.edge = [source |-> g.edge.source, kind |-> g.edge.kind, target |-> g.edge.target]
            /\ h.edge = [source |-> h.edge.source, kind |-> h.edge.kind, target |-> h.edge.target]
        BY HopFacts DEF Finite
      <3> QED BY <3>1, <2>2, <2>3, <2>4
    <2> QED BY <2>5, HopFacts
  <1>6. \A n \in 1..4 : StepKey(h)[n] \in Nat
    BY <1>1, <1>2, <1>4, HopFacts
  <1>7. StepKey(h) = <<StepKey(h)[1], StepKey(h)[2], StepKey(h)[3], StepKey(h)[4]>>
    BY DEF StepKey
  <1> QED BY <1>5, <1>6, <1>7

LEMMA KeysOfFour ==
    ASSUME NEW k, NEW l, k = <<k[1], k[2], k[3], k[4]>>
    PROVE  KeyBefore(k, l) <=>
             \/ k[1] < l[1]
             \/ k[1] = l[1] /\ k[2] < l[2]
             \/ k[1] = l[1] /\ k[2] = l[2] /\ k[3] < l[3]
             \/ k[1] = l[1] /\ k[2] = l[2] /\ k[3] = l[3] /\ k[4] < l[4]
  <1>1. DOMAIN k = 1..4 OBVIOUS
  <1>2. 1..4 = {1, 2, 3, 4} OBVIOUS
  <1>3. /\ 1..1 - 1 = {} /\ 1..2 - 1 = {1} /\ 1..3 - 1 = {1, 2} /\ 1..4 - 1 = {1, 2, 3}
    OBVIOUS
  <1> DEFINE At4(n) == k[n] < l[n] /\ \A m \in 1..n - 1 : k[m] = l[m]
  <1>4. KeyBefore(k, l) <=> \E n \in {1, 2, 3, 4} : At4(n) BY <1>1, <1>2 DEF KeyBefore
  <1>5. KeyBefore(k, l) <=> At4(1) \/ At4(2) \/ At4(3) \/ At4(4)
    <2> HIDE DEF At4
    <2> QED BY <1>4
  <1> QED BY <1>5, <1>3

\* The steps of a graph are in a total order.
LEMMA StepOrder ==
    ASSUME NEW graph, Finite(graph), NEW f \in Hops(graph), NEW g \in Hops(graph),
           NEW h \in Hops(graph)
    PROVE  /\ f # g => KeyBefore(StepKey(f), StepKey(g)) \/ KeyBefore(StepKey(g), StepKey(f))
           /\ KeyBefore(StepKey(f), StepKey(g)) /\ KeyBefore(StepKey(g), StepKey(h)) =>
                KeyBefore(StepKey(f), StepKey(h))
  <1> DEFINE a == StepKey(f)
             b == StepKey(g)
             c == StepKey(h)
  <1>1. /\ a = <<a[1], a[2], a[3], a[4]>> /\ b = <<b[1], b[2], b[3], b[4]>>
        /\ c = <<c[1], c[2], c[3], c[4]>>
        /\ \A n \in 1..4 : a[n] \in Nat /\ b[n] \in Nat /\ c[n] \in Nat
        /\ f # g => a # b
    BY StepKeys
  <1> HIDE DEF a, b, c
  <1>2. /\ a[1] \in Nat /\ a[2] \in Nat /\ a[3] \in Nat /\ a[4] \in Nat
        /\ b[1] \in Nat /\ b[2] \in Nat /\ b[3] \in Nat /\ b[4] \in Nat
        /\ c[1] \in Nat /\ c[2] \in Nat /\ c[3] \in Nat /\ c[4] \in Nat
    BY <1>1
  <1>3. a # b => a[1] # b[1] \/ a[2] # b[2] \/ a[3] # b[3] \/ a[4] # b[4] BY <1>1
  <1>4. f # g => KeyBefore(a, b) \/ KeyBefore(b, a)
    <2>1. f # g => a[1] # b[1] \/ a[2] # b[2] \/ a[3] # b[3] \/ a[4] # b[4] BY <1>1, <1>3
    <2>2. KeyBefore(a, b) <=> \/ a[1] < b[1]
                              \/ a[1] = b[1] /\ a[2] < b[2]
                              \/ a[1] = b[1] /\ a[2] = b[2] /\ a[3] < b[3]
                              \/ a[1] = b[1] /\ a[2] = b[2] /\ a[3] = b[3] /\ a[4] < b[4]
      BY <1>1, KeysOfFour
    <2>3. KeyBefore(b, a) <=> \/ b[1] < a[1]
                              \/ b[1] = a[1] /\ b[2] < a[2]
                              \/ b[1] = a[1] /\ b[2] = a[2] /\ b[3] < a[3]
                              \/ b[1] = a[1] /\ b[2] = a[2] /\ b[3] = a[3] /\ b[4] < a[4]
      BY <1>1, KeysOfFour
    <2> QED BY <1>2, <2>1, <2>2, <2>3
  <1>5. KeyBefore(a, b) /\ KeyBefore(b, c) => KeyBefore(a, c)
    <2>1. KeyBefore(a, b) <=> \/ a[1] < b[1]
                              \/ a[1] = b[1] /\ a[2] < b[2]
                              \/ a[1] = b[1] /\ a[2] = b[2] /\ a[3] < b[3]
                              \/ a[1] = b[1] /\ a[2] = b[2] /\ a[3] = b[3] /\ a[4] < b[4]
      BY <1>1, KeysOfFour
    <2>2. KeyBefore(b, c) <=> \/ b[1] < c[1]
                              \/ b[1] = c[1] /\ b[2] < c[2]
                              \/ b[1] = c[1] /\ b[2] = c[2] /\ b[3] < c[3]
                              \/ b[1] = c[1] /\ b[2] = c[2] /\ b[3] = c[3] /\ b[4] < c[4]
      BY <1>1, KeysOfFour
    <2>3. KeyBefore(a, c) <=> \/ a[1] < c[1]
                              \/ a[1] = c[1] /\ a[2] < c[2]
                              \/ a[1] = c[1] /\ a[2] = c[2] /\ a[3] < c[3]
                              \/ a[1] = c[1] /\ a[2] = c[2] /\ a[3] = c[3] /\ a[4] < c[4]
      BY <1>1, KeysOfFour
    <2> QED BY <1>2, <2>1, <2>2, <2>3
  <1> QED BY <1>4, <1>5 DEF a, b, c

\* The paths of one length to one node.
PathsTo(graph, t, k) ==
    {p \in [root : graph.nodes, target : {t}, steps : Seq(Hops(graph))] : Len(p.steps) = k}

LEMMA PathOrder ==
    ASSUME NEW graph, Finite(graph), NEW t, NEW k \in Nat,
           NEW p \in PathsTo(graph, t, k), NEW q \in PathsTo(graph, t, k),
           NEW r \in PathsTo(graph, t, k)
    PROVE  /\ p # q => PathBefore(p, q) \/ PathBefore(q, p)
           /\ PathBefore(p, q) /\ PathBefore(q, r) => PathBefore(p, r)
  <1> DEFINE Less(f, g) == KeyBefore(StepKey(f), StepKey(g))
  <1>1. \A x \in {p, q, r} :
           /\ x.root \in graph.nodes /\ Rank(x.root) \in Nat /\ NodeOrder[Rank(x.root)] = x.root
           /\ x.steps \in Seq(Hops(graph)) /\ DOMAIN x.steps = 1..k
           /\ \A n \in 1..k : x.steps[n] \in Hops(graph)
           /\ x = [root |-> x.root, target |-> t, steps |-> x.steps]
    BY Ranks DEF PathsTo, Finite
  <1>2. \A x, y \in {p, q, r} :
           PathBefore(x, y) <=>
             \/ Rank(x.root) < Rank(y.root)
             \/ /\ x.root = y.root
                /\ \E n \in 1..k : Less(x.steps[n], y.steps[n])
                                   /\ \A m \in 1..n - 1 : x.steps[m] = y.steps[m]
    BY <1>1 DEF PathBefore
  <1>3. \A f, g, h \in Hops(graph) : /\ f # g => Less(f, g) \/ Less(g, f)
                                     /\ Less(f, g) /\ Less(g, h) => Less(f, h)
    BY StepOrder
  <1> HIDE DEF Less
  <1>4. ASSUME p # q PROVE PathBefore(p, q) \/ PathBefore(q, p)
    <2>1. CASE p.root # q.root BY <1>1, <1>2, <2>1
    <2>2. CASE p.root = q.root
      <3> DEFINE Differ == {n \in 1..k : p.steps[n] # q.steps[n]}
      <3>1. p.steps # q.steps BY <1>1, <1>4, <2>2
      <3>2. Differ # {} BY <1>1, <3>1
      <3>3. PICK n \in Differ : \A m \in Differ : n <= m
        <4>1. Differ \subseteq Nat OBVIOUS
        <4> HIDE DEF Differ
        <4> QED BY <3>2, <4>1, LeastNumber
      <3>4. n \in 1..k /\ p.steps[n] # q.steps[n] OBVIOUS
      <3>5. \A m \in 1..n - 1 : p.steps[m] = q.steps[m]
        <4> TAKE m \in 1..n - 1
        <4>1. m \in 1..k /\ ~(n <= m) BY <3>4
        <4>2. m \notin Differ BY <3>3, <4>1
        <4> QED BY <4>1, <4>2
      <3>6. Less(p.steps[n], q.steps[n]) \/ Less(q.steps[n], p.steps[n]) BY <1>1, <1>3, <3>4
      <3> QED BY <1>2, <2>2, <3>4, <3>5, <3>6
    <2> QED BY <2>1, <2>2
  <1>5. ASSUME PathBefore(p, q), PathBefore(q, r) PROVE PathBefore(p, r)
    <2>1. CASE Rank(p.root) < Rank(q.root) \/ Rank(q.root) < Rank(r.root)
      BY <1>1, <1>2, <1>5, <2>1
    <2>2. CASE p.root = q.root /\ q.root = r.root
      <3>1. PICK n \in 1..k : Less(p.steps[n], q.steps[n])
                              /\ \A m \in 1..n - 1 : p.steps[m] = q.steps[m]
        BY <1>1, <1>2, <1>5, <2>2
      <3>2. PICK l \in 1..k : Less(q.steps[l], r.steps[l])
                              /\ \A m \in 1..l - 1 : q.steps[m] = r.steps[m]
        BY <1>1, <1>2, <1>5, <2>2
      <3>3. CASE n < l
        <4>1. Less(p.steps[n], r.steps[n]) BY <3>1, <3>2, <3>3
        <4>2. \A m \in 1..n - 1 : p.steps[m] = r.steps[m] BY <3>1, <3>2, <3>3
        <4> QED BY <1>2, <2>2, <4>1, <4>2
      <3>4. CASE l < n
        <4>1. Less(p.steps[l], r.steps[l]) BY <3>1, <3>2, <3>4
        <4>2. \A m \in 1..l - 1 : p.steps[m] = r.steps[m] BY <3>1, <3>2, <3>4
        <4> QED BY <1>2, <2>2, <4>1, <4>2
      <3>5. CASE n = l
        <4>1. Less(p.steps[n], r.steps[n]) BY <1>1, <1>3, <3>1, <3>2, <3>5
        <4>2. \A m \in 1..n - 1 : p.steps[m] = r.steps[m] BY <3>1, <3>2, <3>5
        <4> QED BY <1>2, <2>2, <4>1, <4>2
      <3> QED BY <3>3, <3>4, <3>5
    <2> QED BY <1>1, <1>2, <1>5, <2>1, <2>2
  <1> QED BY <1>4, <1>5

\* Of a finite set of them there is a least.
LEMMA LeastPath ==
    ASSUME NEW graph, Finite(graph), NEW t, NEW k \in Nat,
           NEW C, C \subseteq PathsTo(graph, t, k), IsFiniteSet(C), C # {}
    PROVE  Least(C) \in C /\ \A q \in C \ {Least(C)} : PathBefore(Least(C), q)
  <1> DEFINE IsLeast(p, T) == p \in T /\ \A q \in T \ {p} : PathBefore(p, q)
             Sized(n) == {T \in SUBSET C : T # {} /\ Cardinality(T) = n}
             Bad == {n \in Nat : \E T \in Sized(n) : ~\E p : IsLeast(p, T)}
  <1>1. Bad = {}
    <2> SUFFICES ASSUME Bad # {} PROVE FALSE OBVIOUS
    <2>1. PICK n \in Bad : \A m \in Bad : n <= m
      <3>1. Bad \subseteq Nat OBVIOUS
      <3> HIDE DEF Bad
      <3> QED BY <3>1, LeastNumber
    <2>2. PICK T \in Sized(n) : ~\E p : IsLeast(p, T) OBVIOUS
    <2>3. T \subseteq C /\ IsFiniteSet(T) /\ T # {} /\ Cardinality(T) = n BY FS_Subset
    <2>4. PICK x : x \in T BY <2>3
    <2> DEFINE U == T \ {x}
    <2>5. IsFiniteSet(U) /\ Cardinality(U) = n - 1 /\ Cardinality(U) \in Nat
      BY <2>3, <2>4, FS_RemoveElement, FS_CardinalityType
    <2>6. CASE U = {}
      <3>1. T = {x} BY <2>4, <2>6
      <3> QED BY <2>2, <3>1
    <2>7. CASE U # {}
      <3>1. n - 1 \notin Bad
        <4>1. n \in Nat OBVIOUS
        <4> HIDE DEF Bad
        <4> QED BY <2>1, <4>1
      <3>2. U \in Sized(n - 1) BY <2>3, <2>5, <2>7
      <3>3. PICK p : IsLeast(p, U) BY <3>1, <3>2, <2>5
      <3>4. CASE PathBefore(p, x)
        <4>1. IsLeast(p, T) BY <3>3, <3>4
        <4> QED BY <2>2, <4>1
      <3>5. CASE ~PathBefore(p, x)
        <4>1. \A y \in T : y \in PathsTo(graph, t, k) BY <2>3
        <4>2. p \in T /\ p # x BY <3>3
        <4>3. PathBefore(x, p) BY <3>5, <4>1, <4>2, <2>4, PathOrder
        <4>4. ASSUME NEW q \in T \ {x} PROVE PathBefore(x, q)
          <5>1. CASE q = p BY <4>3, <5>1
          <5>2. CASE q # p
            <6>1. PathBefore(p, q) BY <3>3, <5>2
            <6> QED BY <6>1, <4>1, <4>2, <4>3, <2>4, PathOrder
          <5> QED BY <5>1, <5>2
        <4>5. IsLeast(x, T) BY <2>4, <4>4
        <4> QED BY <2>2, <4>5
      <3> QED BY <3>4, <3>5
    <2> QED BY <2>6, <2>7
  <1>2. C \in Sized(Cardinality(C)) /\ Cardinality(C) \in Nat BY FS_CardinalityType
  <1>3. \E p : IsLeast(p, C) BY <1>1, <1>2
  <1> QED BY <1>3 DEF Least

-----------------------------------------------------------------------------
(* The layers of the search.                                               *)

\* A path to i from a changed node, each of its steps beginning where the one before ends.
PathTo(graph, roots, i, p) ==
    /\ p \in [root : graph.nodes, target : {i}, steps : Seq(Hops(graph))]
    /\ p.root \in roots
    /\ i \in roots => p = NoPath(i)
    /\ i \notin roots => /\ Len(p.steps) > 0 /\ p.steps[1].from = p.root
                        /\ p.steps[Len(p.steps)].to = i
    /\ \A n \in 1..Len(p.steps) - 1 : p.steps[n].to = p.steps[n + 1].from

\* What the search has found after n layers: the nodes at a distance of at most n, each
\* with a path that no other of its length is before.
Explored(graph, roots, found, n) ==
    LET paths == found.paths
        known == DOMAIN found.paths
        distance(i) == Len(paths[i].steps)
    IN  /\ roots \subseteq known /\ known \subseteq graph.nodes
        /\ \A i \in known : PathTo(graph, roots, i, paths[i]) /\ distance(i) <= n
        /\ found.frontier = {i \in known : distance(i) = n}
        /\ \A h \in Hops(graph) : h.from \in known \ found.frontier =>
            h.to \in known /\ distance(h.to) <= distance(h.from) + 1
        /\ \A h \in Hops(graph) :
            /\ h.from \in known /\ h.to \in known \ roots
            /\ distance(h.to) = distance(h.from) + 1
            => LET other == ExtendPath(paths[h.from], h)
               IN  other = paths[h.to] \/ PathBefore(paths[h.to], other)
        /\ found.frontier # {} => Cardinality(known) > n

LEMMA Extended ==
    ASSUME NEW graph, NEW roots, Finite(graph), roots \subseteq graph.nodes, NEW p,
           NEW h \in Hops(graph), PathTo(graph, roots, h.from, p), h.to \notin roots
    PROVE  LET q == ExtendPath(p, h) IN
           PathTo(graph, roots, h.to, q) /\ Len(q.steps) = Len(p.steps) + 1
  <1> DEFINE q == ExtendPath(p, h)
             k == Len(p.steps)
             H == Hops(graph)
  <1>1. /\ p = [root |-> p.root, target |-> h.from, steps |-> p.steps]
        /\ p.root \in graph.nodes /\ p.root \in roots /\ p.steps \in Seq(H)
    BY DEF PathTo
  <1>2. q = [root |-> p.root, target |-> h.to, steps |-> Append(p.steps, h)]
    BY DEF ExtendPath
  <1>3. /\ q.steps \in Seq(H) /\ Len(q.steps) = k + 1 /\ q.steps[k + 1] = h /\ k \in Nat
        /\ \A n \in 1..k : q.steps[n] = p.steps[n]
    <2>1. q.steps = Append(p.steps, h) /\ h \in H BY <1>2
    <2> HIDE DEF H, q
    <2> QED BY <1>1, <2>1, AppendProperties
  <1>4. q.steps[1].from = q.root
    <2>1. CASE h.from \in roots
      <3>1. p = NoPath(h.from) BY <2>1 DEF PathTo
      <3>2. k = 0 /\ p.root = h.from BY <3>1 DEF NoPath
      <3> QED BY <1>2, <1>3, <3>2
    <2>2. CASE h.from \notin roots
      <3>1. k > 0 /\ p.steps[1].from = p.root BY <2>2 DEF PathTo
      <3>2. q.steps[1] = p.steps[1] /\ q.root = p.root BY <1>2, <1>3, <3>1
      <3> QED BY <3>1, <3>2
    <2> QED BY <2>1, <2>2
  <1>5. ASSUME NEW n \in 1..k PROVE q.steps[n].to = q.steps[n + 1].from
    <2>1. CASE n < k
      <3>1. n \in 1..k - 1 /\ n + 1 \in 1..k BY <1>3, <2>1
      <3>2. p.steps[n].to = p.steps[n + 1].from BY <3>1 DEF PathTo
      <3> QED BY <1>3, <3>1, <3>2
    <2>2. CASE n = k
      <3>1. h.from \notin roots
        <4> SUFFICES ASSUME h.from \in roots PROVE FALSE OBVIOUS
        <4>1. p = NoPath(h.from) BY DEF PathTo
        <4>2. k = 0 BY <4>1 DEF NoPath
        <4> QED BY <1>3, <2>2, <4>2
      <3>2. p.steps[k].to = h.from BY <3>1 DEF PathTo
      <3>3. q.steps[n] = p.steps[k] /\ q.steps[n + 1] = h BY <1>3, <2>2
      <3> QED BY <3>2, <3>3
    <2> QED BY <1>3, <2>1, <2>2
  <1>6. h.to \in graph.nodes BY HopFacts
  <1>7. q \in [root : graph.nodes, target : {h.to}, steps : Seq(H)] BY <1>1, <1>2, <1>3
  <1>8. q.root \in roots /\ q.steps[Len(q.steps)].to = h.to /\ Len(q.steps) > 0
    BY <1>1, <1>2, <1>3
  <1>9. \A n \in 1..Len(q.steps) - 1 : q.steps[n].to = q.steps[n + 1].from BY <1>3, <1>5
  <1> HIDE DEF q, k
  <1> QED BY <1>3, <1>4, <1>7, <1>8, <1>9 DEF PathTo, q, k

LEMMA HopsFinite == ASSUME NEW graph, Finite(graph) PROVE IsFiniteSet(Hops(graph))
  <1> DEFINE E == {f \in graph.edges : f.kind \in DOMAIN KindRank}
             f == [e \in E |-> Hop(e)]
  <1>1. IsFiniteSet(E) BY FS_Subset DEF Finite
  <1>2. {f[e] : e \in E} = Hops(graph) BY DEF Hops
  <1>3. IsFiniteSet({f[e] : e \in E})
    <2>1. f = [e \in E |-> f[e]] /\ DOMAIN f = E OBVIOUS
    <2> HIDE DEF E, f
    <2> QED BY <1>1, <2>1, ImageIsFinite
  <1> QED BY <1>2, <1>3

LEMMA SearchBegins ==
    ASSUME NEW graph, NEW roots, Finite(graph), Analysable(graph, roots)
    PROVE  Explored(graph, roots, First(graph, roots), 0)
  <1> DEFINE found == First(graph, roots)
  <1>1. found = [frontier |-> roots, paths |-> [r \in roots |-> NoPath(r)]] BY DEF First
  <1>2. roots \subseteq graph.nodes /\ roots # {} BY DEF Analysable
  <1>3. \A i \in roots : found.paths[i] = NoPath(i) BY <1>1
  <1>4. \A i \in roots : Len(NoPath(i).steps) = 0 /\ PathTo(graph, roots, i, NoPath(i))
    BY <1>2 DEF NoPath, PathTo
  <1>5. IsFiniteSet(roots) BY <1>2, FS_Subset DEF Finite
  <1>6. Cardinality(roots) > 0 BY <1>2, <1>5, FS_EmptySet, FS_CardinalityType
  <1>7. DOMAIN found.paths = roots /\ found.frontier = roots BY <1>1
  <1> HIDE DEF found
  <1> QED BY <1>2, <1>3, <1>4, <1>6, <1>7 DEF Explored, found

LEMMA SearchDeepens ==
    ASSUME NEW graph, NEW roots, Finite(graph), NEW found, NEW n \in Nat,
           Explored(graph, roots, found, n)
    PROVE  Explored(graph, roots, Deeper(graph, found), n + 1)
  <1> DEFINE H == Hops(graph)
             P == found.paths
             D == DOMAIN P
             F == found.frontier
             hops == {h \in H : h.from \in F /\ h.to \notin D}
             T == {h.to : h \in hops}
             C(t) == {ExtendPath(P[h.from], h) : h \in {g \in hops : g.to = t}}
             layer == NextLayer(P, hops)
             next == Deeper(graph, found)
             Q == next.paths
  <1>1. /\ roots \subseteq D /\ D \subseteq graph.nodes
        /\ \A i \in D : PathTo(graph, roots, i, P[i]) /\ Len(P[i].steps) <= n
        /\ \A i \in D : Len(P[i].steps) \in Nat
        /\ F = {i \in D : Len(P[i].steps) = n}
        /\ \A h \in H : h.from \in D \ F =>
            h.to \in D /\ Len(P[h.to].steps) <= Len(P[h.from].steps) + 1
        /\ \A h \in H : /\ h.from \in D /\ h.to \in D \ roots
                       /\ Len(P[h.to].steps) = Len(P[h.from].steps) + 1
                       => LET other == ExtendPath(P[h.from], h)
                          IN  other = P[h.to] \/ PathBefore(P[h.to], other)
        /\ F # {} => Cardinality(D) > n
    BY DEF Explored, PathTo
  <1>2. \A h \in hops :
           LET q == ExtendPath(P[h.from], h) IN
           /\ PathTo(graph, roots, h.to, q) /\ Len(q.steps) = n + 1
           /\ q \in PathsTo(graph, h.to, n + 1)
    <2> TAKE h \in hops
    <2> DEFINE q == ExtendPath(P[h.from], h)
    <2>1. /\ h \in Hops(graph) /\ h.to \notin roots /\ PathTo(graph, roots, h.from, P[h.from])
          /\ Len(P[h.from].steps) = n
      BY <1>1
    <2>2. roots \subseteq graph.nodes BY <1>1
    <2>3. PathTo(graph, roots, h.to, q) /\ Len(q.steps) = n + 1 BY <2>1, <2>2, Extended
    <2>4. q \in PathsTo(graph, h.to, n + 1)
      <3> HIDE DEF q
      <3> QED BY <2>3 DEF PathTo, PathsTo
    <2> QED BY <2>3, <2>4
  <1>3. /\ DOMAIN layer = T
        /\ \A t \in T : layer[t] = Least(C(t))
    BY DEF NextLayer
  <1>4. ASSUME NEW t \in T
        PROVE  layer[t] \in C(t) /\ \A q \in C(t) \ {layer[t]} : PathBefore(layer[t], q)
    <2> DEFINE G == {g \in hops : g.to = t}
               f == [h \in G |-> ExtendPath(P[h.from], h)]
    <2>1. G # {} OBVIOUS
    <2>2. IsFiniteSet(G) BY HopsFinite, FS_Subset
    <2>3. C(t) = {f[h] : h \in G} OBVIOUS
    <2>4. IsFiniteSet(C(t))
      <3>1. f = [h \in G |-> f[h]] /\ DOMAIN f = G OBVIOUS
      <3> HIDE DEF f, G
      <3>2. IsFiniteSet({f[h] : h \in G}) BY <2>2, <3>1, ImageIsFinite
      <3> QED BY <3>2, <2>3
    <2>5. C(t) # {} BY <2>1
    <2>6. C(t) \subseteq PathsTo(graph, t, n + 1) BY <1>2
    <2>7. n + 1 \in Nat OBVIOUS
    <2> HIDE DEF C, G, f, T, layer
    <2>8. Least(C(t)) \in C(t) /\ \A q \in C(t) \ {Least(C(t))} : PathBefore(Least(C(t)), q)
      BY <2>4, <2>5, <2>6, <2>7, LeastPath
    <2> QED BY <2>8, <1>3
  <1>5. \A t \in T : /\ PathTo(graph, roots, t, layer[t]) /\ Len(layer[t].steps) = n + 1
                     /\ t \in graph.nodes /\ t \notin D
    <2> TAKE t \in T
    <2>1. PICK h \in hops : h.to = t /\ layer[t] = ExtendPath(P[h.from], h) BY <1>4
    <2>2. h.to \in graph.nodes BY HopFacts
    <2> QED BY <2>1, <2>2, <1>2
  <1>6. /\ next.frontier = T /\ DOMAIN Q = D \cup T
        /\ \A i \in D : Q[i] = P[i]
        /\ \A t \in T : Q[t] = layer[t]
    <2>1. next = [frontier |-> DOMAIN layer,
                  paths |-> [i \in D \cup DOMAIN layer |-> IF i \in D THEN P[i] ELSE layer[i]]]
      BY DEF Deeper, Reached
    <2>2. T \cap D = {} OBVIOUS
    <2> HIDE DEF layer, T
    <2> QED BY <2>1, <2>2, <1>3
  <1>7. \A h \in H : h.from \in F /\ h.to \notin D => h \in hops /\ h.to \in T OBVIOUS
  <1>8. \A h \in hops : h.to \in T /\ h \in H /\ ExtendPath(P[h.from], h) \in C(h.to) OBVIOUS
  <1>9. T # {} => F # {} OBVIOUS
  <1> HIDE DEF H, P, D, F, hops, T, C, layer, next, Q
  <1>10. /\ \A i \in D : Len(Q[i].steps) = Len(P[i].steps) /\ Len(Q[i].steps) <= n
         /\ \A t \in T : Len(Q[t].steps) = n + 1
         /\ T \cap D = {}
    BY <1>1, <1>5, <1>6
  <1>11. roots \subseteq D \cup T /\ D \cup T \subseteq graph.nodes BY <1>1, <1>5
  <1>12. \A i \in D \cup T : PathTo(graph, roots, i, Q[i]) /\ Len(Q[i].steps) <= n + 1
    <2>1. \A i \in D : PathTo(graph, roots, i, Q[i]) /\ Len(Q[i].steps) <= n + 1
      BY <1>1, <1>6, <1>10
    <2>2. \A t \in T : PathTo(graph, roots, t, Q[t]) /\ Len(Q[t].steps) <= n + 1
      BY <1>5, <1>6, <1>10
    <2> QED BY <2>1, <2>2
  <1>13. T = {i \in D \cup T : Len(Q[i].steps) = n + 1}
    <2>1. \A i \in D : Len(Q[i].steps) # n + 1 BY <1>1, <1>10
    <2> QED BY <1>10, <2>1
  <1>14. ASSUME NEW h \in H, h.from \in (D \cup T) \ T
         PROVE  h.to \in D \cup T /\ Len(Q[h.to].steps) <= Len(Q[h.from].steps) + 1
    <2>1. h.from \in D BY <1>14
    <2>2. CASE h.from \notin F
      <3>1. h.to \in D /\ Len(P[h.to].steps) <= Len(P[h.from].steps) + 1 BY <1>1, <2>1, <2>2
      <3> QED BY <3>1, <2>1, <1>10
    <2>3. CASE h.from \in F /\ h.to \in D
      <3>1. Len(P[h.from].steps) = n /\ Len(P[h.to].steps) <= n BY <1>1, <2>3
      <3>2. Len(Q[h.from].steps) = n /\ Len(Q[h.to].steps) <= n BY <3>1, <2>1, <2>3, <1>10
      <3>3. Len(Q[h.to].steps) \in Nat BY <2>3, <1>1, <1>10
      <3> QED BY <3>2, <3>3, <2>3
    <2>4. CASE h.from \in F /\ h.to \notin D
      <3>1. Len(P[h.from].steps) = n BY <1>1, <2>4
      <3>2. h.to \in T BY <2>4, <1>7
      <3>3. Len(Q[h.from].steps) = n /\ Len(Q[h.to].steps) = n + 1 BY <3>1, <3>2, <2>1, <1>10
      <3> QED BY <3>2, <3>3
    <2> QED BY <2>2, <2>3, <2>4
  <1>15. ASSUME NEW h \in H, h.from \in D \cup T, h.to \in (D \cup T) \ roots,
                Len(Q[h.to].steps) = Len(Q[h.from].steps) + 1
         PROVE  LET other == ExtendPath(Q[h.from], h)
                IN  other = Q[h.to] \/ PathBefore(Q[h.to], other)
    <2>1. h.from \in D
      <3> SUFFICES ASSUME h.from \in T PROVE FALSE BY <1>15
      <3>1. Len(Q[h.to].steps) = n + 2 BY <1>10, <1>15
      <3> QED BY <3>1, <1>12, <1>15
    <2>2. Q[h.from] = P[h.from] BY <2>1, <1>6
    <2>3. CASE h.to \in D
      <3>1. Q[h.to] = P[h.to] BY <2>3, <1>6
      <3>2. Len(P[h.to].steps) = Len(P[h.from].steps) + 1 BY <1>10, <1>15, <2>1, <2>3
      <3> QED BY <3>1, <3>2, <2>1, <2>2, <2>3, <1>1, <1>15
    <2>4. CASE h.to \in T
      <3>1. Len(P[h.from].steps) = n BY <1>1, <1>10, <1>15, <2>1, <2>4
      <3>2. h.from \in F BY <1>1, <2>1, <3>1
      <3>3. h \in hops BY <3>2, <2>4, <1>7, <1>10
      <3>4. ExtendPath(P[h.from], h) \in C(h.to) BY <3>3, <1>8
      <3> QED BY <3>4, <1>4, <1>6, <2>2, <2>4
    <2> QED BY <1>15, <2>3, <2>4
  <1>16. T # {} => Cardinality(D \cup T) > n + 1
    <2> SUFFICES ASSUME T # {} PROVE Cardinality(D \cup T) > n + 1 OBVIOUS
    <2>1. Cardinality(D) > n BY <1>1, <1>9
    <2>2. PICK x : x \in T BY <1>9
    <2> DEFINE S == D \cup T
    <2>3. IsFiniteSet(S) BY <1>11, FS_Subset DEF Finite
    <2>4. IsFiniteSet(S \ {x}) /\ Cardinality(S \ {x}) = Cardinality(S) - 1
      BY <2>2, <2>3, FS_RemoveElement
    <2>5. D \subseteq S \ {x} BY <2>2, <1>10
    <2>6. Cardinality(D) <= Cardinality(S \ {x}) BY <2>4, <2>5, FS_Subset
    <2>7. Cardinality(D) \in Nat /\ Cardinality(S) \in Nat
      BY <2>3, <2>4, <2>5, FS_Subset, FS_CardinalityType
    <2> HIDE DEF S
    <2>8. Cardinality(S) > n + 1 BY <2>1, <2>4, <2>6, <2>7
    <2> QED BY <2>8 DEF S
  <1>17. next.frontier = T /\ DOMAIN next.paths = D \cup T BY <1>6 DEF Q
  <1> QED
    BY <1>11, <1>12, <1>13, <1>14, <1>15, <1>16, <1>17 DEF Explored, Q, next, H

LEMMA SearchedThroughout ==
    ASSUME NEW graph, NEW roots, Finite(graph), Analysable(graph, roots)
    PROVE  LET N == Cardinality(graph.nodes) IN
           N \in Nat /\ Explored(graph, roots, Layers(graph, roots)[N], N)
  <1> DEFINE N == Cardinality(graph.nodes)
             f == Layers(graph, roots)
             Bad == {n \in 0..N : ~Explored(graph, roots, f[n], n)}
  <1>1. N \in Nat BY FS_CardinalityType DEF Finite
  <1>2. /\ f[0] = First(graph, roots)
        /\ \A n \in 1..N : f[n] = Deeper(graph, f[n - 1])
    BY <1>1, LayersAre
  <1>3. Bad = {}
    <2> SUFFICES ASSUME Bad # {} PROVE FALSE OBVIOUS
    <2>1. PICK n \in Bad : \A m \in Bad : n <= m
      <3>1. Bad \subseteq Nat OBVIOUS
      <3> HIDE DEF Bad
      <3> QED BY <3>1, LeastNumber
    <2>2. n \in 0..N /\ ~Explored(graph, roots, f[n], n) OBVIOUS
    <2> HIDE DEF N, f
    <2>3. n # 0 BY <1>2, <2>2, SearchBegins
    <2>4. n - 1 \in Nat /\ n - 1 \in 0..N /\ n \in 1..N BY <1>1, <2>2, <2>3
    <2>5. Explored(graph, roots, f[n - 1], n - 1)
      <3>1. ~(n <= n - 1) BY <2>2
      <3>2. n - 1 \notin Bad
        <4> HIDE DEF Bad
        <4> QED BY <2>1, <3>1
      <3> QED BY <2>4, <3>2
    <2>6. Explored(graph, roots, Deeper(graph, f[n - 1]), n - 1 + 1)
      <3> DEFINE m == n - 1
      <3>1. m \in Nat /\ Explored(graph, roots, f[m], m) BY <2>4, <2>5
      <3> HIDE DEF m
      <3>2. Explored(graph, roots, Deeper(graph, f[m]), m + 1) BY <3>1, SearchDeepens
      <3> QED BY <3>2 DEF m
    <2>7. n - 1 + 1 = n BY <2>2
    <2> QED BY <1>2, <2>2, <2>4, <2>6, <2>7
  <1> HIDE DEF f, N
  <1>4. N \in 0..N BY <1>1
  <1>5. Explored(graph, roots, f[N], N) BY <1>3, <1>4
  <1> QED BY <1>1, <1>5 DEF f, N

\* The search ends before its layers do: nothing that a change affects is left out, and
\* every node has a path that no other of its length is before (domain/impact.py:420).
LEMMA PathsAreShortest ==
    ASSUME NEW graph, NEW roots, Finite(graph), Analysable(graph, roots)
    PROVE  LET paths == ShortestPaths(graph, roots)
               core == DOMAIN paths
               distance(i) == Len(paths[i].steps)
           IN  /\ roots \subseteq core /\ core \subseteq graph.nodes
               /\ \A i \in core : PathTo(graph, roots, i, paths[i])
               /\ \A h \in Hops(graph) : h.from \in core =>
                    h.to \in core /\ distance(h.to) <= distance(h.from) + 1
               /\ \A h \in Hops(graph) :
                    /\ h.from \in core /\ h.to \in core \ roots
                    /\ distance(h.to) = distance(h.from) + 1
                    => LET other == ExtendPath(paths[h.from], h)
                       IN  other = paths[h.to] \/ PathBefore(paths[h.to], other)
  <1> DEFINE N == Cardinality(graph.nodes)
             found == Layers(graph, roots)[N]
             P == found.paths
  <1>1. N \in Nat /\ Explored(graph, roots, found, N) BY SearchedThroughout
  <1>2. DOMAIN P \subseteq graph.nodes BY <1>1 DEF Explored
  <1>3. found.frontier = {}
    <2>1. IsFiniteSet(graph.nodes) BY DEF Finite
    <2>2. Cardinality(DOMAIN P) <= N /\ Cardinality(DOMAIN P) \in Nat
      BY <1>2, <2>1, FS_Subset, FS_CardinalityType
    <2>3. found.frontier # {} => Cardinality(DOMAIN P) > N BY <1>1 DEF Explored
    <2> HIDE DEF N, found, P
    <2> QED BY <1>1, <2>2, <2>3
  <1>4. ShortestPaths(graph, roots) = P BY DEF ShortestPaths
  <1> HIDE DEF N, found
  <1> QED BY <1>1, <1>3, <1>4 DEF Explored

LEMMA AffectedByHops ==
    ASSUME NEW graph, Finite(graph), NEW a, NEW b
    PROVE  Affects(graph, a, b) <=> \E h \in Hops(graph) : h.from = a /\ h.to = b
  <1>1. DOMAIN KindRank = {"contains", "depends_on", "governs"} BY DEF KindRank
  <1>2. ASSUME NEW h \in Hops(graph), h.from = a, h.to = b PROVE Affects(graph, a, b)
    BY <1>2, HopFacts DEF Affects
  <1>3. ASSUME Affects(graph, a, b) PROVE \E h \in Hops(graph) : h.from = a /\ h.to = b
    <2>1. PICK e \in graph.edges :
            \/ e.kind = "depends_on" /\ e.source = b /\ e.target = a
            \/ e.kind \in {"contains", "governs"} /\ e.source = a /\ e.target = b
      BY <1>3 DEF Affects
    <2>2. Hop(e) \in Hops(graph) BY <1>1, <2>1 DEF Hops
    <2>3. Hop(e).from = a /\ Hop(e).to = b BY <2>1 DEF Hop, AlongTheEdge
    <2> QED BY <2>2, <2>3
  <1> QED BY <1>2, <1>3

\* The analysis of a change reports what is reachable from the changed nodes: nothing
\* affected is left out, and every node that is reported has a path from a changed node,
\* of steps of the graph, with no shorter one and none of its length before it in the
\* canonical order (domain/impact.py:420).
THEOREM ImpactTruth ==
    ASSUME NEW graph, NEW roots, Finite(graph), Analysable(graph, roots)
    PROVE  LET impact == Analysis(graph, roots)
               core == roots \cup impact.direct \cup impact.transitive
               path(i) == IF i \in roots THEN NoPath(i) ELSE impact.paths[i]
               distance(i) == Len(path(i).steps)
           IN  /\ impact.changed = roots
               /\ core = roots <=> impact.direct \cup impact.transitive = {}
               /\ \A a \in core, b \in graph.nodes : Affects(graph, a, b) =>
                    b \in core /\ distance(b) <= distance(a) + 1
               /\ \A i \in core \ roots :
                    LET steps == path(i).steps
                    IN  /\ (i \in impact.direct) <=> Len(steps) = 1
                        /\ steps[1].from \in roots /\ Last(steps).to = i
                        /\ \A n \in DOMAIN steps : Affects(graph, steps[n].from, steps[n].to)
                        /\ \A n \in 1..Len(steps) - 1 : steps[n].to = steps[n + 1].from
               /\ \A h \in Hops(graph) :
                    /\ h.from \in core /\ h.to \in core \ roots
                    /\ distance(h.to) = distance(h.from) + 1
                    => LET other == ExtendPath(path(h.from), h)
                       IN  other = path(h.to) \/ PathBefore(path(h.to), other)
  <1> DEFINE P == ShortestPaths(graph, roots)
             D == DOMAIN P
             impact == Analysis(graph, roots)
             core == roots \cup impact.direct \cup impact.transitive
             path(i) == IF i \in roots THEN NoPath(i) ELSE impact.paths[i]
  <1>1. /\ roots \subseteq D /\ D \subseteq graph.nodes
        /\ \A i \in D : PathTo(graph, roots, i, P[i])
        /\ \A h \in Hops(graph) : h.from \in D =>
            h.to \in D /\ Len(P[h.to].steps) <= Len(P[h.from].steps) + 1
        /\ \A h \in Hops(graph) :
            /\ h.from \in D /\ h.to \in D \ roots
            /\ Len(P[h.to].steps) = Len(P[h.from].steps) + 1
            => LET other == ExtendPath(P[h.from], h)
               IN  other = P[h.to] \/ PathBefore(P[h.to], other)
    BY PathsAreShortest
  <1>2. /\ impact.changed = roots
        /\ impact.direct = {i \in D : Len(P[i].steps) = 1}
        /\ impact.transitive = {i \in D : Len(P[i].steps) > 1}
        /\ impact.paths = [i \in D \ roots |-> P[i]]
    BY DEF Analysis, BlastRadius
  <1> HIDE DEF P, impact
  <1>3. ASSUME NEW i \in D
        PROVE  /\ i \in roots => P[i] = NoPath(i)
               /\ i \notin roots =>
                    /\ Len(P[i].steps) > 0 /\ P[i].steps[1].from \in roots
                    /\ P[i].steps[Len(P[i].steps)].to = i
               /\ P[i].steps \in Seq(Hops(graph))
               /\ \A n \in 1..Len(P[i].steps) - 1 : P[i].steps[n].to = P[i].steps[n + 1].from
    BY <1>1 DEF PathTo
  <1>4. \A i \in D : path(i) = P[i] BY <1>2, <1>3
  <1>5. core = D
    <2>1. \A i \in D \ roots : Len(P[i].steps) = 1 \/ Len(P[i].steps) > 1
      <3> TAKE i \in D \ roots
      <3>1. Len(P[i].steps) > 0 /\ P[i].steps \in Seq(Hops(graph)) BY <1>3
      <3>2. Len(P[i].steps) \in Nat BY <3>1, LenProperties
      <3>3. \A l \in Nat : l > 0 => l = 1 \/ l > 1 OBVIOUS
      <3> QED BY <3>1, <3>2, <3>3
    <2> QED BY <1>1, <1>2, <2>1
  <1> HIDE DEF core, path
  <1>6. ASSUME NEW a \in core, NEW b \in graph.nodes, Affects(graph, a, b)
        PROVE  b \in core /\ Len(path(b).steps) <= Len(path(a).steps) + 1
    <2>1. PICK h \in Hops(graph) : h.from = a /\ h.to = b BY <1>6, AffectedByHops
    <2> QED BY <2>1, <1>1, <1>4, <1>5
  <1>7. ASSUME NEW i \in core \ roots
        PROVE  LET steps == path(i).steps
               IN  /\ (i \in impact.direct) <=> Len(steps) = 1
                   /\ steps[1].from \in roots /\ Last(steps).to = i
                   /\ \A n \in DOMAIN steps : Affects(graph, steps[n].from, steps[n].to)
                   /\ \A n \in 1..Len(steps) - 1 : steps[n].to = steps[n + 1].from
    <2> DEFINE steps == path(i).steps
    <2>1. i \in D /\ i \notin roots /\ path(i) = P[i] BY <1>4, <1>5
    <2>2. \A n \in DOMAIN steps : Affects(graph, steps[n].from, steps[n].to)
      <3> TAKE n \in DOMAIN steps
      <3>1. steps[n] \in Hops(graph)
        <4>1. steps \in Seq(Hops(graph)) BY <1>3, <2>1
        <4> HIDE DEF steps
        <4> QED BY <4>1, ElementOfSeq, LenProperties
      <3> QED BY <3>1, AffectedByHops
    <2>3. Last(steps) = steps[Len(steps)] BY DEF Last
    <2>4. (i \in impact.direct) <=> Len(steps) = 1 BY <1>2, <2>1
    <2>5. /\ steps[1].from \in roots /\ steps[Len(steps)].to = i
          /\ \A n \in 1..Len(steps) - 1 : steps[n].to = steps[n + 1].from
      BY <1>3, <2>1
    <2> QED BY <2>2, <2>3, <2>4, <2>5
  <1>8. ASSUME NEW h \in Hops(graph), h.from \in core, h.to \in core \ roots,
               Len(path(h.to).steps) = Len(path(h.from).steps) + 1
        PROVE  LET other == ExtendPath(path(h.from), h)
               IN  other = path(h.to) \/ PathBefore(path(h.to), other)
    <2>1. h.from \in D /\ h.to \in D \ roots BY <1>5, <1>8
    <2>2. path(h.from) = P[h.from] /\ path(h.to) = P[h.to] BY <1>4, <2>1
    <2> QED BY <1>1, <1>8, <2>1, <2>2
  <1>9. impact.changed = roots BY <1>2
  <1>10. core = roots <=> impact.direct \cup impact.transitive = {}
    <2>1. \A i \in roots : i \notin impact.direct /\ i \notin impact.transitive
      <3> TAKE i \in roots
      <3>1. P[i].steps = <<>> BY <1>1, <1>3 DEF NoPath
      <3>2. Len(P[i].steps) = 0 BY <3>1
      <3> QED BY <1>2, <3>2
    <2> QED BY <2>1 DEF core
  <1> QED BY <1>6, <1>7, <1>8, <1>9, <1>10 DEF path, core, impact
====
