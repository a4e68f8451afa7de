---- MODULE CoreRestSync_proof ----
(***************************************************************************)
(* Proofs about CoreRestSync, for any model, tenant, page size and any     *)
(* number of runs and of changes by other clients: what a run counts, what *)
(* its success means, what it may duplicate and what it leaves alone.      *)
(***************************************************************************)
EXTENDS CoreRestSync, FiniteSetTheorems, WellFoundedInduction, TLAPS

\* An asset of this client: only it changes one, and nobody deletes one.
Own(r) == r \in Remotes /\ Exists(r) /\ r \notin foreign

\* Neither a doubtful write nor a disturbed listing can have duplicated it.
Clean(a) == a \notin doubted /\ TypeOf[a] \notin shifted

Headers == [id : {Nobody}, as : Assets, name : {"old", "new"}, desc : {"none"}]

Typed ==
    /\ desired \in [Assets -> {"out", "none", "new"}]
    /\ remote \in [Remotes -> Objects \cup {Absent, Gone}]
    /\ foreign \subseteq Remotes
    /\ pc \in {"list", "attributes", "execute", "calling", "done"}
    /\ kind \in Nat /\ offset \in Nat /\ (pc = "list" => kind \in 1..Types)
    /\ listed \in [Remotes -> Headers \cup {Absent}]
    /\ seen \in [Remotes -> Objects \cup {Absent}]
    /\ ids \in [Assets -> Remotes \cup {Nobody}]

\* A write changes an asset of this client, and gives it its own local id.
OwnWrite(w) ==
    /\ w.op \in {"create", "name", "id", "desc", "link"}
    /\ w.op = "create" => w.of \in Assets
    /\ w.op \in {"name", "id", "desc"} => Own(w.at)
    /\ w.op = "id" => w.of \in Assets /\ remote[w.at].as = w.of
    /\ w.op = "link" => Own(w.at[1]) /\ Own(w.at[2])

Tenant ==
    /\ \A r \in foreign : remote[r] \in {Unmanaged(a) : a \in Assets}
    /\ \A l \in links : Own(l[1]) /\ Own(l[2])
    /\ \A w \in late : OwnWrite(w) /\ (w.op = "id" => w.of \in doubted)
    /\ \A a \in Assets : Clean(a) => \A r, s \in Managed(a) : r = s

\* What has been read is still true.
Seen ==
    \A r \in Remotes :
        /\ listed[r].name = "new" => Own(r) /\ remote[r].name = "new"
        /\ seen[r].id # Nobody =>
            /\ remote[r].id = seen[r].id
            /\ seen[r].name = "new" => remote[r].name = "new"
            /\ seen[r].desc = "new" => remote[r].desc = "new"

\* What the reading has passed is not missed.
Passed(r, t) == t < kind \/ (t = kind /\ Place(r, t) < offset)
Reading ==
    \A a \in Assets : Clean(a) =>
        \A r \in Managed(a) :
            /\ pc = "list" /\ Passed(r, TypeOf[a]) => listed[r] # Absent
            /\ pc = "attributes" => listed[r] # Absent \/ seen[r].id = a

Full(r, a) == remote[r].name = "new" /\ (desired[a] = "new" => remote[r].desc = "new")

\* What is left of the action being executed, and what is done of it.
Creating(a) ==
    \/ /\ calls = <<Call("create", Nobody, a)>>
       /\ Clean(a) => Managed(a) = {}
    \/ LET r == ids[a]
       IN  /\ Own(r) /\ remote[r].as = a /\ remote[r].name = "new"
           /\ \/ /\ calls \in {<<Call("id", r, a), Call("desc", r, a)>>,
                               <<Call("desc", r, a), Call("id", r, a)>>}
                 /\ Clean(a) => Managed(a) = {}
              \/ /\ calls = <<Call("id", r, a)>> /\ Full(r, a)
                 /\ Clean(a) => Managed(a) = {}
              \/ calls = <<Call("desc", r, a)>> /\ remote[r].id = a
              \/ calls = <<>> /\ remote[r].id = a /\ Full(r, a)

Updating(a) ==
    LET r == ids[a]
    IN  \/ calls = <<Call("name", r, a), Call("list", r, a)>>
        \/ calls = <<Call("list", r, a)>> /\ remote[r].name = "new"
        \/ calls = <<Call("desc", r, a)>> /\ remote[r].name = "new"
        \/ calls = <<>> /\ Full(r, a)

Linking(e) ==
    \/ /\ calls = <<Call("link", <<ids[e[1]], ids[e[2]]>>, e)>>
       /\ ids[e[1]] \in Managed(e[1]) /\ ids[e[2]] \in Managed(e[2])
    \/ calls = <<>> /\ EdgeDone(e)

Executing ==
    pc = "calling" =>
        /\ action \in todo
        /\ \A a \in Assets : action = <<"create", a>> => Creating(a)
        /\ \A a \in Assets : action = <<"update", a>> => Updating(a)
        /\ \A e \in Edges : action = <<"link", e>> => Linking(e)

\* The plan is what is still missing.
Planned ==
    pc \in {"execute", "calling"} =>
        /\ \A x \in todo : \/ \E a \in Assets : InModel(a) /\ x \in {<<"create", a>>, <<"update", a>>}
                           \/ \E e \in Wanted : x = <<"link", e>>
        /\ \A a \in Assets : InModel(a) =>
            /\ <<"create", a>> \in todo \/ ids[a] \in Managed(a)
            /\ AssetDone(a) \/ <<"create", a>> \in todo \/ <<"update", a>> \in todo
        /\ \A e \in Wanted : EdgeDone(e) \/ <<"link", e>> \in todo
        /\ \A a \in Assets : <<"update", a>> \in todo =>
            /\ ids[a] \in Managed(a) /\ seen[ids[a]].id = a
            /\ <<"create", a>> \notin todo
        /\ \A a \in Assets : <<"create", a>> \in todo /\ action # <<"create", a>> /\ Clean(a) =>
            Managed(a) = {}

\* Where the run is decides what it has counted.
Counted ==
    /\ pc \in {"list", "attributes"} => applied = {}
    /\ pc \in {"list", "attributes", "execute"} => action = NoAction
    /\ outcome = "success" => pc = "done"
    /\ AppliedIsDone
    /\ SuccessMeansConverged
    /\ applied \subseteq Actions

IInv == Typed /\ Tenant /\ Seen /\ Reading /\ Executing /\ Planned /\ Counted

-----------------------------------------------------------------------------
(* Numbers and places.                                                     *)

\* Every set of naturals has a least element.
LEMMA Least ==
    ASSUME NEW T, T \subseteq Nat, T # {}
    PROVE  \E x \in T : \A y \in T : x <= y
  <1>1. IsWellFoundedOn({ss \in Nat \X Nat : ss[1] < ss[2]}, Nat)
    BY NatLessThanWellFounded DEF OpToRel
  <1>2. PICK x \in T : \A y \in T : ~(<<y, x>> \in {ss \in Nat \X Nat : ss[1] < ss[2]})
    BY <1>1, WFMin
  <1>3. \A y \in T : ~(y < x) BY <1>2
  <1> QED BY <1>3

\* The number of elements below r in a finite set of naturals.
Below(S, r) == {s \in S : s < r}
Rank(S, r) == Cardinality(Below(S, r))

\* A rank is a number.
LEMMA RankType ==
    ASSUME NEW S, IsFiniteSet(S)
    PROVE  \A r : IsFiniteSet(Below(S, r)) /\ Rank(S, r) \in Nat
  BY FS_Subset, FS_CardinalityType DEF Below, Rank

\* A larger element has a larger rank.
LEMMA RankGrows ==
    ASSUME NEW S, IsFiniteSet(S), S \subseteq Nat, NEW r \in S, NEW s \in S, s < r
    PROVE  Rank(S, s) < Rank(S, r)
  <1>0. r \in Nat /\ s \in Nat /\ ~(s < s) /\ \A x \in S : x < s => x < r OBVIOUS
  <1>1. Below(S, s) \subseteq Below(S, r) /\ s \in Below(S, r) /\ s \notin Below(S, s)
    BY <1>0, Zenon DEF Below
  <1>2. IsFiniteSet(Below(S, r)) BY RankType
  <1>3. Below(S, s) # Below(S, r) BY <1>1
  <1>4. /\ Cardinality(Below(S, s)) <= Cardinality(Below(S, r))
        /\ Cardinality(Below(S, s)) # Cardinality(Below(S, r))
    BY <1>1, <1>2, <1>3, FS_Subset
  <1> QED BY <1>4, RankType DEF Rank

\* No two elements have the same rank.
LEMMA RankDistinguishes ==
    ASSUME NEW S, IsFiniteSet(S), S \subseteq Nat, NEW r \in S, NEW s \in S,
           Rank(S, s) = Rank(S, r)
    PROVE  s = r
  <1>1. Rank(S, r) \in Nat /\ r \in Nat /\ s \in Nat BY RankType
  <1>2. ASSUME s < r PROVE FALSE
    <2>1. Rank(S, s) < Rank(S, r) BY <1>2, RankGrows
    <2> QED BY <1>1, <2>1
  <1>3. ASSUME r < s PROVE FALSE
    <2>1. Rank(S, r) < Rank(S, s) BY <1>3, RankGrows
    <2> QED BY <1>1, <2>1
  <1> QED BY <1>1, <1>2, <1>3

\* Every finite, non-empty set of naturals has a last element.
LEMMA Last ==
    ASSUME NEW S, IsFiniteSet(S), S \subseteq Nat, S # {}
    PROVE  \E r \in S : \A s \in S : s <= r
  <1> DEFINE Above(r) == {s \in S : s > r}
             C == {Cardinality(Above(r)) : r \in S}
  <1>1. \A r \in S : IsFiniteSet(Above(r)) /\ Cardinality(Above(r)) \in Nat
    BY FS_Subset, FS_CardinalityType
  <1>2. C \subseteq Nat /\ C # {} BY <1>1
  <1>3. PICK c \in C : \A d \in C : c <= d
    <2> HIDE DEF C
    <2> QED BY <1>2, Least
  <1>4. PICK r \in S : c = Cardinality(Above(r)) BY <1>3
  <1>5. ASSUME NEW s \in S, s > r PROVE FALSE
    <2>0. r \in Nat /\ s \in Nat /\ ~(s > s) /\ \A x \in S : x > s => x > r BY <1>5
    <2>1. Above(s) \subseteq Above(r) BY <2>0, Zenon
    <2>2. s \in Above(r) /\ s \notin Above(s) BY <1>5, <2>0, Zenon
    <2>3. Cardinality(Above(s)) \in C BY <1>5
    <2> HIDE DEF Above, C
    <2>4. Above(s) # Above(r) BY <2>2
    <2>5. /\ Cardinality(Above(s)) <= Cardinality(Above(r))
          /\ Cardinality(Above(s)) # Cardinality(Above(r))
      BY <1>1, <2>1, <2>4, FS_Subset
    <2>6. Cardinality(Above(r)) <= Cardinality(Above(s)) BY <1>3, <1>4, <2>3
    <2> QED BY <1>1, <2>5, <2>6
  <1> QED BY <1>5

\* Every rank below that of an element is the rank of one.
LEMMA RankReached ==
    ASSUME NEW S, IsFiniteSet(S), S \subseteq Nat, NEW r \in S,
           NEW k \in Nat, k <= Rank(S, r)
    PROVE  \E x \in S : Rank(S, x) = k
  <1> DEFINE X == {s \in S : Rank(S, s) >= k}
  <1>1. X \subseteq Nat /\ X # {} BY RankType
  <1>2. PICK x \in X : \A y \in X : x <= y BY <1>1, Least
  <1>3. x \in S /\ Rank(S, x) >= k BY <1>2
  <1>4. \A s \in Below(S, x) : s \in S /\ s < x BY DEF Below
  <1>5. \A s \in Below(S, x) : Rank(S, s) \in 0..(k - 1)
    <2> SUFFICES ASSUME NEW s \in Below(S, x) PROVE Rank(S, s) \in 0..(k - 1) OBVIOUS
    <2>1. s \in S /\ s < x /\ s \in Nat /\ x \in Nat BY <1>3, <1>4
    <2>2. ~(Rank(S, s) >= k) BY <1>2, <2>1
    <2> QED BY <2>2, RankType
  <1>6. Rank(S, x) <= k
    <2> DEFINE f == [s \in Below(S, x) |-> Rank(S, s)]
    <2>1. f \in [Below(S, x) -> 0..(k - 1)] BY <1>5
    <2>2. \A s, t \in Below(S, x) : f[s] = f[t] => s = t
      <3> SUFFICES ASSUME NEW s \in Below(S, x), NEW t \in Below(S, x), f[s] = f[t]
                   PROVE  s = t
        OBVIOUS
      <3>1. s \in S /\ t \in S BY <1>4
      <3>2. Rank(S, s) = Rank(S, t) BY DEF f
      <3> QED BY <3>1, <3>2, RankDistinguishes
    <2>3. f \in Injection(Below(S, x), 0..(k - 1)) BY <2>1, <2>2 DEF Injection, IsInjective
    <2>4. IsFiniteSet(0..(k - 1)) /\ Cardinality(0..(k - 1)) = k
      <3>1. IsFiniteSet(0..(k - 1)) /\ Cardinality(0..(k - 1)) =
               IF 0 > k - 1 THEN 0 ELSE (k - 1) - 0 + 1
        BY FS_Interval
      <3> QED BY <3>1
    <2>5. Cardinality(Below(S, x)) <= Cardinality(0..(k - 1)) BY <2>3, <2>4, FS_Injection
    <2> QED BY <2>4, <2>5 DEF Rank
  <1>7. Rank(S, x) = k BY <1>3, <1>6, RankType
  <1> QED BY <1>3, <1>7

\* A page is full if an element comes after it.
LEMMA FullPage ==
    ASSUME NEW S, IsFiniteSet(S), S \subseteq Nat, NEW o \in Nat, NEW n \in Nat,
           NEW r \in S, Rank(S, r) >= o + n
    PROVE  Cardinality({s \in S : Rank(S, s) \in o..o + n - 1}) = n
  <1> DEFINE P == {s \in S : Rank(S, s) \in o..o + n - 1}
             f == [s \in P |-> Rank(S, s)]
  <1>1. f \in [P -> o..o + n - 1] OBVIOUS
  <1>2. \A s, t \in P : f[s] = f[t] => s = t
    <2> SUFFICES ASSUME NEW s \in P, NEW t \in P, f[s] = f[t] PROVE s = t OBVIOUS
    <2>1. s \in S /\ t \in S /\ Rank(S, s) = Rank(S, t) OBVIOUS
    <2> QED BY <2>1, RankDistinguishes
  <1>3. \A k \in o..o + n - 1 : \E s \in P : f[s] = k
    <2> SUFFICES ASSUME NEW k \in o..o + n - 1 PROVE \E s \in P : f[s] = k OBVIOUS
    <2>1. k \in Nat /\ k <= Rank(S, r) BY RankType
    <2>2. PICK s \in S : Rank(S, s) = k BY <2>1, RankReached
    <2> QED BY <2>2
  <1>4. ExistsBijection(P, o..o + n - 1)
    <2>1. f \in Bijection(P, o..o + n - 1)
      BY <1>1, <1>2, <1>3 DEF Bijection, Injection, Surjection, IsInjective
    <2> QED BY <2>1 DEF ExistsBijection
  <1>5. IsFiniteSet(P) BY FS_Subset
  <1>6. Cardinality(P) = Cardinality(o..o + n - 1) BY <1>4, <1>5, FS_Bijection
  <1>7. Cardinality(o..o + n - 1) = IF o > o + n - 1 THEN 0 ELSE (o + n - 1) - o + 1
    <2>1. o \in Int /\ o + n - 1 \in Int OBVIOUS
    <2> QED BY <2>1, FS_Interval
  <1> QED BY <1>6, <1>7

-----------------------------------------------------------------------------
(* Assets.                                                                 *)

\* An asset has the local id whose name it bears, or none.
LEMMA ObjectFacts ==
    ASSUME NEW o \in Objects
    PROVE  /\ o.id \in Assets \cup {Nobody} /\ o.as \in Assets /\ o.id \in {Nobody, o.as}
           /\ o.name \in {"old", "new"} /\ o.desc \in {"none", "old", "new"}
           /\ o = [id |-> o.id, as |-> o.as, name |-> o.name, desc |-> o.desc]
           /\ o.as # Nobody
  BY RankAssumption DEF Objects, Nobody

\* Where there is no asset there is no local id.
LEMMA NoObject ==
    /\ Absent.id = Nobody /\ Gone.id = Nobody /\ Absent.name = "none" /\ Gone.name = "gone"
    /\ Absent \notin Objects /\ Gone \notin Objects /\ Absent # Gone
    /\ Absent.as = Nobody
  <1>1. Absent.as = Nobody /\ Gone.as = Nobody BY DEF Absent, Gone
  <1>2. Absent.name = "none" /\ Gone.name = "gone" BY DEF Absent, Gone
  <1>3. Absent.id = Nobody /\ Gone.id = Nobody BY DEF Absent, Gone
  <1> QED BY <1>1, <1>2, <1>3, ObjectFacts

\* The assets of the tenant by what they are.
LEMMA RemoteFacts ==
    ASSUME Typed, NEW r \in Remotes
    PROVE  /\ Exists(r) <=> remote[r] \in Objects
           /\ remote[r].id # Nobody => Exists(r) /\ remote[r].id = remote[r].as
           /\ Exists(r) \/ remote[r] \in {Absent, Gone}
  <1>1. remote[r] \in Objects \cup {Absent, Gone} BY DEF Typed
  <1>2. Exists(r) <=> remote[r] \in Objects BY <1>1, NoObject DEF Exists
  <1>3. remote[r].id # Nobody => remote[r] \in Objects BY <1>1, NoObject
  <1> QED BY <1>1, <1>2, <1>3, ObjectFacts

\* An asset with a local id is this client's.
LEMMA ManagedIsOwn ==
    ASSUME Typed, Tenant, NEW r \in Remotes, remote[r].id # Nobody
    PROVE  Own(r)
  <1>1. r \notin foreign BY DEF Tenant, Unmanaged
  <1> QED BY <1>1, RemoteFacts DEF Own

\* The asset a local id is matched with has that local id.
LEMMA MatchFacts ==
    ASSUME NEW state, NEW a \in Assets
    PROVE  /\ Match(state, a) \in Remotes \cup {Nobody}
           /\ Match(state, a) # Nobody => state[Match(state, a)].id = a
           /\ Match(state, a) = Nobody => \A r \in Remotes : state[r].id # a
  <1> DEFINE managed == {r \in Remotes : state[r].id = a}
  <1>1. CASE managed = {}
    <2>1. Match(state, a) = Nobody BY <1>1 DEF Match
    <2> QED BY <1>1, <2>1
  <1>2. CASE managed # {}
    <2>1. IsFiniteSet(managed) /\ managed \subseteq Nat
      BY InitialAssumption, FS_Subset
    <2>2. \E r \in managed : \A s \in managed : s <= r
      <3> HIDE DEF managed
      <3> QED BY <1>2, <2>1, Last
    <2>3. Match(state, a) = CHOOSE r \in managed : \A s \in managed : s <= r
      BY <1>2 DEF Match
    <2>4. Match(state, a) \in managed
      <3> HIDE DEF managed
      <3> QED BY <2>2, <2>3
    <2>5. Match(state, a) # Nobody BY <2>4, InitialAssumption DEF Nobody
    <2> QED BY <2>4, <2>5
  <1> QED BY <1>1, <1>2

-----------------------------------------------------------------------------
(* What every step keeps.                                                  *)

\* Nothing this client has brought about is undone.
Grows ==
    /\ desired' = desired /\ links \subseteq links'
    /\ \A r \in Remotes : Own(r) =>
        /\ Own(r)' /\ remote'[r].as = remote[r].as
        /\ remote[r].id # Nobody => remote'[r].id = remote[r].id
        /\ remote[r].name = "new" => remote'[r].name = "new"
        /\ remote[r].desc = "new" => remote'[r].desc = "new"

\* A step that changes nothing of it.
LEMMA NothingGrows ==
    ASSUME UNCHANGED <<desired, remote, links, foreign>>
    PROVE  Grows
  BY DEF Grows, Own, Exists

\* A write, when it takes effect, changes one asset of this client, creates one, or
\* relates two (create_asset, update_asset, create_relationship).
LEMMA EffectFacts ==
    ASSUME Typed, Tenant, NEW w, OwnWrite(w), NEW r, Effect(w, r),
           desired' = desired, foreign' = foreign
    PROVE  /\ Grows
           /\ remote' \in [Remotes -> Objects \cup {Absent, Gone}]
           /\ \A s \in foreign : remote'[s] = remote[s]
           /\ \A s \in Remotes : remote'[s].id # remote[s].id =>
                w.op = "id" /\ s = w.at /\ remote'[s].id = w.of
           /\ \A s \in Remotes : Exists(s) => Exists(s)' /\ remote'[s].as = remote[s].as
           /\ links' = IF w.op = "link" THEN links \cup {w.at} ELSE links
  <1> USE DEF Own
  <1>1. links' = IF w.op = "link" THEN links \cup {w.at} ELSE links BY DEF Effect
  <1>2. foreign \subseteq Remotes /\ \A s \in foreign : Exists(s)
    BY NoObject DEF Typed, Tenant, Unmanaged, Exists, Absent, Gone
  <1>3. CASE w.op = "link"
    <2>1. remote' = remote BY <1>3 DEF Effect
    <2> QED BY <1>1, <2>1 DEF Grows, Exists, Typed
  <1>4. ASSUME NEW q \in Remotes, NEW o \in Objects,
               remote' = [remote EXCEPT ![q] = o], links' = links,
               q \notin foreign,
               Exists(q) => /\ o.as = remote[q].as
                            /\ remote[q].id # Nobody => o.id = remote[q].id
                            /\ remote[q].name = "new" => o.name = "new"
                            /\ remote[q].desc = "new" => o.desc = "new",
               o.id # remote[q].id => w.op = "id" /\ q = w.at /\ o.id = w.of
        PROVE  /\ Grows
               /\ remote' \in [Remotes -> Objects \cup {Absent, Gone}]
               /\ \A s \in foreign : remote'[s] = remote[s]
               /\ \A s \in Remotes : remote'[s].id # remote[s].id =>
                    w.op = "id" /\ s = w.at /\ remote'[s].id = w.of
               /\ \A s \in Remotes : Exists(s) => Exists(s)' /\ remote'[s].as = remote[s].as
    <2>1. DOMAIN remote = Remotes BY DEF Typed
    <2>2. remote'[q] = o BY <1>4, <2>1
    <2>3. \A s \in Remotes : s # q => remote'[s] = remote[s] BY <1>4, <2>1
    <2>4. Exists(q)' BY <2>2, NoObject DEF Exists
    <2>5. \A s \in Remotes : s # q /\ Exists(s) => Exists(s)' BY <2>3 DEF Exists
    <2>6. remote' \in [Remotes -> Objects \cup {Absent, Gone}] BY <1>4 DEF Typed
    <2>7. Grows BY <1>4, <2>2, <2>3, <2>4, <2>5 DEF Grows
    <2>8. \A s \in Remotes : Exists(s) => Exists(s)' /\ remote'[s].as = remote[s].as
      BY <1>4, <2>2, <2>3, <2>4, <2>5
    <2>9. \A s \in foreign : remote'[s] = remote[s] BY <1>2, <1>4, <2>3
    <2>10. \A s \in Remotes : remote'[s].id # remote[s].id =>
             w.op = "id" /\ s = w.at /\ remote'[s].id = w.of
      BY <1>4, <2>2, <2>3
    <2> QED BY <2>6, <2>7, <2>8, <2>9, <2>10
  <1>5. CASE w.op = "create"
    <2> DEFINE o == [id |-> Nobody, as |-> w.of, name |-> "new", desc |-> "none"]
    <2>1. r \in Remotes /\ remote[r] = Absent /\ remote' = [remote EXCEPT ![r] = o]
      BY <1>5 DEF Effect
    <2>2. o \in Objects BY <1>5 DEF OwnWrite, Objects
    <2>3. ~Exists(r) /\ r \notin foreign BY <1>2, <2>1 DEF Exists
    <2>4. o.id = remote[r].id BY <2>1, NoObject
    <2> HIDE DEF o
    <2> QED BY <1>1, <1>4, <1>5, <2>1, <2>2, <2>3, <2>4
  <1>6. CASE w.op \in {"name", "id", "desc"}
    <2>1. /\ w.at \in Remotes /\ remote[w.at] \in Objects /\ w.at \notin foreign
      BY <1>6, RemoteFacts DEF OwnWrite
    <2>2. PICK old : old = remote[w.at] /\ old \in Objects BY <2>1
    <2>3. CASE w.op = "name"
      <3> DEFINE o == [id |-> old.id, as |-> old.as, name |-> "new", desc |-> old.desc]
      <3>1. o \in Objects BY <2>2, ObjectFacts DEF Objects
      <3>2. o = [old EXCEPT !.name = "new"] BY <2>2, ObjectFacts
      <3>3. remote' = [remote EXCEPT ![w.at] = o]
        <4>1. remote' = [remote EXCEPT ![w.at].name = "new"] BY <2>3 DEF Effect
        <4> QED BY <2>2, <3>2, <4>1
      <3>4. o.id = old.id /\ o.as = old.as /\ o.name = "new" /\ o.desc = old.desc OBVIOUS
      <3> HIDE DEF o
      <3> QED BY <1>1, <1>4, <2>1, <2>2, <2>3, <3>1, <3>3, <3>4
    <2>4. CASE w.op = "desc"
      <3> DEFINE o == [id |-> old.id, as |-> old.as, name |-> old.name, desc |-> "new"]
      <3>1. o \in Objects BY <2>2, ObjectFacts DEF Objects
      <3>2. o = [old EXCEPT !.desc = "new"] BY <2>2, ObjectFacts
      <3>3. remote' = [remote EXCEPT ![w.at] = o]
        <4>1. remote' = [remote EXCEPT ![w.at].desc = "new"] BY <2>4 DEF Effect
        <4> QED BY <2>2, <3>2, <4>1
      <3>4. o.id = old.id /\ o.as = old.as /\ o.name = old.name /\ o.desc = "new" OBVIOUS
      <3> HIDE DEF o
      <3> QED BY <1>1, <1>4, <2>1, <2>2, <2>4, <3>1, <3>3, <3>4
    <2>5. CASE w.op = "id"
      <3> DEFINE o == [id |-> w.of, as |-> old.as, name |-> old.name, desc |-> old.desc]
      <3>0. w.of \in Assets /\ old.as = w.of BY <2>2, <2>5 DEF OwnWrite
      <3>1. o \in Objects BY <2>2, <3>0, ObjectFacts DEF Objects
      <3>2. o = [old EXCEPT !.id = w.of] BY <2>2, ObjectFacts
      <3>3. remote' = [remote EXCEPT ![w.at] = o]
        <4>1. remote' = [remote EXCEPT ![w.at].id = w.of] BY <2>5 DEF Effect
        <4> QED BY <2>2, <3>2, <4>1
      <3>4. o.id = w.of /\ o.as = old.as /\ o.name = old.name /\ o.desc = old.desc OBVIOUS
      <3>5. old.id # Nobody => old.id = w.of BY <2>2, <3>0, ObjectFacts
      <3> HIDE DEF o
      <3> QED BY <1>1, <1>4, <2>1, <2>2, <2>5, <3>1, <3>3, <3>4, <3>5
    <2> QED BY <1>6, <2>3, <2>4, <2>5
  <1> QED BY <1>1, <1>3, <1>5, <1>6 DEF OwnWrite

\* What is managed, done or about to be written stays so.
LEMMA Kept ==
    ASSUME Typed, Tenant, Grows
    PROVE  /\ \A a \in Assets : Managed(a) \subseteq Managed(a)'
           /\ \A a \in Assets : AssetDone(a) => AssetDone(a)'
           /\ \A e \in Edges : EdgeDone(e) => EdgeDone(e)'
           /\ \A a : InModel(a)' <=> InModel(a)
           /\ Wanted' = Wanted
           /\ \A w : OwnWrite(w) => OwnWrite(w)'
           /\ \A r, a : Own(r) /\ Full(r, a) => Full(r, a)'
  <1>1. \A a \in Assets : a # Nobody BY RankAssumption DEF Nobody
  <1>2. \A a \in Assets : \A r \in Managed(a) : Own(r) /\ r \in Managed(a)'
    BY <1>1, ManagedIsOwn DEF Managed, Grows
  <1>3. \A a \in Assets : AssetDone(a) => AssetDone(a)'
    BY <1>2 DEF AssetDone, Grows, Own
  <1>4. \A e \in Edges : e[1] \in Assets /\ e[2] \in Assets BY RankAssumption
  <1>5. \A e \in Edges : EdgeDone(e) => EdgeDone(e)'
    BY <1>2, <1>4 DEF EdgeDone, Grows
  <1>6. \A a : InModel(a)' <=> InModel(a) BY DEF InModel, Grows
  <1>7. Wanted' = Wanted BY <1>6 DEF Wanted
  <1>8. ASSUME NEW w, OwnWrite(w) PROVE OwnWrite(w)'
    <2>1. \A r : Own(r) => Own(r)' /\ remote'[r].as = remote[r].as BY DEF Grows, Own
    <2> QED BY <1>8, <2>1 DEF OwnWrite
  <1>9. \A r, a : Own(r) /\ Full(r, a) => Full(r, a)' BY DEF Full, Grows, Own
  <1> QED BY <1>2, <1>3, <1>5, <1>6, <1>7, <1>8, <1>9

\* An action that is done, and a success, stay so.
LEMMA DoneStays ==
    ASSUME Typed, Tenant, Grows, applied \subseteq Actions
    PROVE  /\ \A x \in applied : Done(x) => Done(x)'
           /\ SuccessMeansConverged /\ outcome' = outcome => SuccessMeansConverged'
  <1>1. ASSUME NEW x \in applied, Done(x) PROVE Done(x)'
    <2>1. CASE x[1] = "link"
      <3>1. x[2] \in Edges BY <2>1 DEF Actions
      <3> QED BY <1>1, <2>1, <3>1, Kept DEF Done
    <2>2. CASE x[1] # "link"
      <3>1. x[2] \in Assets BY <2>2 DEF Actions
      <3> QED BY <1>1, <2>2, <3>1, Kept DEF Done
    <2> QED BY <2>1, <2>2
  <1>2. ASSUME SuccessMeansConverged, outcome' = outcome PROVE SuccessMeansConverged'
    <2>1. Wanted \subseteq Edges BY DEF Wanted
    <2> QED BY <1>2, <2>1, Kept DEF SuccessMeansConverged
  <1> QED BY <1>1, <1>2

\* What has been read stays true.
LEMMA SeenStays ==
    ASSUME Typed, Tenant, Seen, Grows, UNCHANGED <<listed, seen>>
    PROVE  Seen'
  <1> SUFFICES ASSUME NEW r \in Remotes
               PROVE  /\ listed'[r].name = "new" => Own(r)' /\ remote'[r].name = "new"
                      /\ seen'[r].id # Nobody =>
                          /\ remote'[r].id = seen'[r].id
                          /\ seen'[r].name = "new" => remote'[r].name = "new"
                          /\ seen'[r].desc = "new" => remote'[r].desc = "new"
    BY DEF Seen
  <1>1. seen[r].id # Nobody => remote[r].id # Nobody BY DEF Seen
  <1>2. seen[r].id # Nobody => Own(r) BY <1>1, ManagedIsOwn
  <1> QED BY <1>1, <1>2 DEF Seen, Grows

\* A step outside the run, and a call of a run that leaves its plan alone, keeps
\* what the run relies on.
LEMMA OutsideStep ==
    ASSUME IInv, Grows, Typed', Tenant', Reading',
           UNCHANGED <<pc, listing, seen, todo, action, calls, ids, applied, outcome>>,
           \A a \in Assets : Clean(a)' => Clean(a) /\ Managed(a)' \subseteq Managed(a)
    PROVE  IInv'
  <1> USE DEF IInv, listing
  <1>1. Seen' BY SeenStays
  <1>2. Executing'
    <2> SUFFICES ASSUME pc = "calling" PROVE Executing' BY DEF Executing
    <2>1. ASSUME NEW a \in Assets, action = <<"create", a>> PROVE Creating(a)'
      <3>1. Creating(a) BY <2>1 DEF Executing
      <3>2. Own(ids[a]) => ids[a] \in Remotes BY DEF Own
      <3>3. (Clean(a) /\ Managed(a) = {}) \/ ~Clean(a) => (Clean(a)' => Managed(a)' = {})
        OBVIOUS
      <3>4. Own(ids[a]) => /\ Own(ids[a])' /\ remote'[ids[a]].as = remote[ids[a]].as
                           /\ remote[ids[a]].name = "new" => remote'[ids[a]].name = "new"
                           /\ remote[ids[a]].id = a => remote'[ids[a]].id = a
                           /\ Full(ids[a], a) => Full(ids[a], a)'
        <4>1. a # Nobody BY RankAssumption DEF Nobody
        <4> QED BY <3>2, <4>1, Kept DEF Grows
      <3> QED BY <3>1, <3>3, <3>4 DEF Creating, Grows
    <2>2. ASSUME NEW a \in Assets, action = <<"update", a>> PROVE Updating(a)'
      <3>1. Updating(a) BY <2>2 DEF Executing
      <3>2. ids[a] \in Managed(a) BY <2>2 DEF Executing, Planned
      <3>3. Own(ids[a]) /\ ids[a] \in Remotes
        BY <3>2, ManagedIsOwn, RankAssumption DEF Managed, Nobody
      <3>4. /\ remote[ids[a]].name = "new" => remote'[ids[a]].name = "new"
            /\ Full(ids[a], a) => Full(ids[a], a)'
        BY <3>3, Kept DEF Grows
      <3> QED BY <3>1, <3>4 DEF Updating
    <2>3. ASSUME NEW e \in Edges, action = <<"link", e>> PROVE Linking(e)'
      <3>1. Linking(e) BY <2>3 DEF Executing
      <3>2. e[1] \in Assets /\ e[2] \in Assets BY RankAssumption
      <3> QED BY <3>1, <3>2, Kept DEF Linking
    <2> QED BY <2>1, <2>2, <2>3 DEF Executing
  <1>3. Planned'
    <2> SUFFICES ASSUME pc \in {"execute", "calling"} PROVE Planned' BY DEF Planned
    <2>1. Wanted \subseteq Edges BY DEF Wanted
    <2>2. Planned BY DEF IInv
    <2>3. \A x \in todo : \/ \E a \in Assets : InModel(a)' /\ x \in {<<"create", a>>, <<"update", a>>}
                          \/ \E e \in Wanted' : x = <<"link", e>>
      BY <2>2, Kept DEF Planned
    <2>4. \A a \in Assets : InModel(a)' =>
            /\ <<"create", a>> \in todo \/ ids[a] \in Managed(a)'
            /\ AssetDone(a)' \/ <<"create", a>> \in todo \/ <<"update", a>> \in todo
      BY <2>2, Kept DEF Planned
    <2>5. \A e \in Wanted' : EdgeDone(e)' \/ <<"link", e>> \in todo
      BY <2>1, <2>2, Kept DEF Planned
    <2>6. \A a \in Assets : <<"update", a>> \in todo =>
            /\ ids[a] \in Managed(a)' /\ seen[ids[a]].id = a
            /\ <<"create", a>> \notin todo
      BY <2>2, Kept DEF Planned
    <2>7. \A a \in Assets : <<"create", a>> \in todo /\ action # <<"create", a>> /\ Clean(a)' =>
            Managed(a)' = {}
      BY <2>2 DEF Planned
    <2> QED BY <2>3, <2>4, <2>5, <2>6, <2>7 DEF Planned
  <1>4. Counted' 
    BY DoneStays DEF Counted, AppliedIsDone
  <1> QED BY <1>1, <1>2, <1>3, <1>4

-----------------------------------------------------------------------------
(* Steps outside the run.                                                  *)

\* A further asset does not move one to the front.
LEMMA PlacesGrow ==
    ASSUME NEW r, OfType(kind) \subseteq OfType(kind)', kind' = kind
    PROVE  /\ Place(r, kind) \in Nat /\ Place(r, kind)' \in Nat
           /\ Place(r, kind) <= Place(r, kind)'
  <1> DEFINE S == {s \in OfType(kind) : s < r}
             T == {s \in OfType(kind)' : s < r}
  <1>1. IsFiniteSet(T) BY InitialAssumption, FS_Subset DEF OfType
  <1>2. S \subseteq T OBVIOUS
  <1>3. Place(r, kind) = Cardinality(S) /\ Place(r, kind)' = Cardinality(T) BY DEF Place
  <1> HIDE DEF S, T
  <1>4. IsFiniteSet(S) /\ Cardinality(S) <= Cardinality(T) BY <1>1, <1>2, FS_Subset
  <1> QED BY <1>1, <1>3, <1>4, FS_CardinalityType

\* A place in a listing is a number.
LEMMA PlaceType ==
    ASSUME NEW r, NEW t
    PROVE  Place(r, t) \in Nat
  <1>1. IsFiniteSet({s \in OfType(t) : s < r}) BY InitialAssumption, FS_Subset DEF OfType
  <1> QED BY <1>1, FS_CardinalityType DEF Place

\* What the reading has passed, it has passed after the step too.
LEMMA ReadingStays ==
    ASSUME Typed, Reading, UNCHANGED <<pc, listing, seen>>,
           \A a \in Assets : Clean(a)' => Clean(a) /\ Managed(a)' \subseteq Managed(a),
           \A r \in Remotes : pc = "list" /\ kind \notin shifted'
                /\ r \in OfType(kind) /\ Place(r, kind)' < offset => Place(r, kind) < offset
    PROVE  Reading'
  <1> SUFFICES ASSUME NEW a \in Assets, Clean(a)', NEW r \in Managed(a)'
               PROVE  /\ pc = "list" /\ Passed(r, TypeOf[a])' => listed[r] # Absent
                      /\ pc = "attributes" => listed[r] # Absent \/ seen[r].id = a
    BY DEF Reading, listing
  <1>1. Clean(a) /\ r \in Managed(a) OBVIOUS
  <1>2. r \in Remotes /\ remote[r].id = a BY <1>1 DEF Managed
  <1>3. r \in OfType(TypeOf[a])
    <2>1. a # Nobody BY RankAssumption DEF Nobody
    <2>2. Exists(r) /\ remote[r].as = a BY <1>2, <2>1, RemoteFacts
    <2> QED BY <1>2, <2>2 DEF OfType
  <1>4. TypeOf[a] \notin shifted' BY DEF Clean
  <1>5. pc = "list" /\ Passed(r, TypeOf[a])' => Passed(r, TypeOf[a])
    BY <1>2, <1>3, <1>4 DEF Passed, listing
  <1> QED BY <1>1, <1>5 DEF Reading

\* A doubtful write lands: only a doubtful local id can so appear.
LEMMA LandsStep ==
    ASSUME IInv, NEW w, NEW r, Lands(w, r)
    PROVE  IInv'
  <1> USE DEF IInv
  <1>1. /\ w \in late /\ OwnWrite(w) /\ Effect(w, r) /\ late' = late \ {w}
        /\ UNCHANGED <<desired, foreign, doubted, shifted>>
        /\ UNCHANGED <<pc, listing, seen, todo, action, calls, ids, applied, outcome>>
    BY DEF Lands, Tenant, constants, others
  <1>2. /\ Grows
        /\ remote' \in [Remotes -> Objects \cup {Absent, Gone}]
        /\ \A s \in foreign : remote'[s] = remote[s]
        /\ \A s \in Remotes : remote'[s].id # remote[s].id =>
             w.op = "id" /\ s = w.at /\ remote'[s].id = w.of
        /\ \A s \in Remotes : Exists(s) => Exists(s)' /\ remote'[s].as = remote[s].as
        /\ links' = IF w.op = "link" THEN links \cup {w.at} ELSE links
    BY <1>1, EffectFacts
  <1>3. \A a \in Assets : Clean(a)' => Clean(a) /\ Managed(a)' \subseteq Managed(a)
    <2>1. \A a : Clean(a)' => Clean(a) BY <1>1 DEF Clean
    <2>2. w.op = "id" => w.of \in doubted BY <1>1 DEF Tenant
    <2> QED BY <1>1, <1>2, <2>1, <2>2 DEF Clean, Managed
  <1>4. Typed' BY <1>1, <1>2 DEF Typed, listing
  <1>5. Tenant'
    <2>1. \A l \in links' : Own(l[1])' /\ Own(l[2])'
      BY <1>1, <1>2 DEF Tenant, OwnWrite, Grows, Own
    <2>2. \A v \in late' : OwnWrite(v)' /\ (v.op = "id" => v.of \in doubted')
      BY <1>1, <1>2, Kept DEF Tenant
    <2>3. \A a \in Assets : Clean(a)' => \A q, s \in Managed(a)' : q = s
      BY <1>3 DEF Tenant
    <2>4. \A s \in foreign' : remote'[s] \in {Unmanaged(a) : a \in Assets}
      BY <1>1, <1>2 DEF Tenant
    <2> QED BY <2>1, <2>2, <2>3, <2>4 DEF Tenant
  <1>6. Reading'
    <2>1. OfType(kind) \subseteq OfType(kind)' BY <1>1, <1>2 DEF OfType, listing
    <2>2. \A s \in Remotes : /\ Place(s, kind) \in Nat /\ Place(s, kind)' \in Nat
                             /\ Place(s, kind) <= Place(s, kind)'
      BY <1>1, <2>1, PlacesGrow DEF listing
    <2>3. \A s \in Remotes : Place(s, kind)' < offset => Place(s, kind) < offset
      BY <2>2 DEF Typed
    <2> QED BY <1>1, <1>3, <2>3, ReadingStays
  <1> QED BY <1>1, <1>2, <1>3, <1>4, <1>5, <1>6, OutsideStep

\* A doubtful write that is lost.
LEMMA IsLostStep ==
    ASSUME IInv, NEW w, IsLost(w)
    PROVE  IInv'
  <1> USE DEF IInv
  <1>1. /\ late' \subseteq late
        /\ UNCHANGED <<desired, remote, links, foreign, doubted, shifted>>
        /\ UNCHANGED <<pc, listing, seen, todo, action, calls, ids, applied, outcome>>
    BY DEF IsLost, constants, tenant, others
  <1>2. Grows BY <1>1, NothingGrows
  <1>3. \A a \in Assets : Clean(a)' => Clean(a) /\ Managed(a)' \subseteq Managed(a)
    BY <1>1 DEF Clean, Managed
  <1>4. Typed' BY <1>1 DEF Typed, listing
  <1>5. Tenant'
    <2>1. \A v \in late' : OwnWrite(v)' /\ (v.op = "id" => v.of \in doubted')
      BY <1>1, <1>2, Kept DEF Tenant
    <2> QED BY <1>1, <1>3, <2>1 DEF Tenant, Own, Exists
  <1>6. Reading' BY <1>1 DEF Reading, Passed, Place, OfType, Exists, Clean, Managed, listing
  <1> QED BY <1>1, <1>2, <1>3, <1>4, <1>5, <1>6, OutsideStep

\* Another client's new asset hides none of the others.
LEMMA OtherCreatesStep ==
    ASSUME IInv, NEW r \in Remotes, NEW b \in Assets, OtherCreates(r, b)
    PROVE  IInv'
  <1> USE DEF IInv
  <1>1. /\ remote[r] = Absent /\ remote' = [remote EXCEPT ![r] = Unmanaged(b)]
        /\ foreign' = foreign \cup {r}
        /\ UNCHANGED <<desired, links, late, doubted, shifted>>
        /\ UNCHANGED <<pc, listing, seen, todo, action, calls, ids, applied, outcome>>
    BY DEF OtherCreates, constants
  <1>2. /\ remote'[r] = Unmanaged(b) /\ \A s \in Remotes \ {r} : remote'[s] = remote[s]
        /\ Unmanaged(b) \in Objects /\ Unmanaged(b).id = Nobody
    BY <1>1 DEF Typed, Unmanaged, Objects
  <1>3. \A s : Own(s) => s # r BY <1>1 DEF Own, Exists
  <1>4. \A s : Own(s) => Own(s)' /\ remote'[s] = remote[s] BY <1>1, <1>2, <1>3 DEF Own, Exists
  <1>5. Grows BY <1>1, <1>4 DEF Grows
  <1>6. \A a \in Assets : Clean(a)' => Clean(a) /\ Managed(a)' \subseteq Managed(a)
    <2>1. \A a \in Assets : a # Nobody BY RankAssumption DEF Nobody
    <2> QED BY <1>1, <1>2, <2>1 DEF Clean, Managed
  <1>7. Typed' BY <1>1, <1>2 DEF Typed, listing
  <1>8. Tenant'
    <2>1. \A v \in late' : OwnWrite(v)' /\ (v.op = "id" => v.of \in doubted')
      BY <1>1, <1>5, Kept DEF Tenant
    <2>2. \A l \in links' : Own(l[1])' /\ Own(l[2])' BY <1>1, <1>4 DEF Tenant
    <2>3. \A s \in foreign' : remote'[s] \in {Unmanaged(a) : a \in Assets}
      BY <1>1, <1>2 DEF Tenant, Typed
    <2>4. \A a \in Assets : Clean(a)' => \A q, s \in Managed(a)' : q = s
      BY <1>6 DEF Tenant
    <2> QED BY <2>1, <2>2, <2>3, <2>4 DEF Tenant
  <1>9. Reading'
    <2>1. OfType(kind) \subseteq OfType(kind)'
      BY <1>1, <1>2 DEF OfType, Exists, listing
    <2>2. \A s \in Remotes : /\ Place(s, kind) \in Nat /\ Place(s, kind)' \in Nat
                             /\ Place(s, kind) <= Place(s, kind)'
      BY <1>1, <2>1, PlacesGrow DEF listing
    <2>3. \A s \in Remotes : Place(s, kind)' < offset => Place(s, kind) < offset
      BY <2>2 DEF Typed
    <2> QED BY <1>1, <1>6, <2>3, ReadingStays
  <1> QED BY <1>1, <1>5, <1>6, <1>7, <1>8, <1>9, OutsideStep

\* Another client deletes an asset: in a listing that is past it, others move into
\* pages already read.
LEMMA OtherDeletesStep ==
    ASSUME IInv, NEW r \in Remotes, OtherDeletes(r)
    PROVE  IInv'
  <1> USE DEF IInv
  <1> DEFINE t == TypeOf[remote[r].as]
  <1>1. /\ r \in foreign /\ remote' = [remote EXCEPT ![r] = Gone]
        /\ foreign' = foreign \ {r}
        /\ shifted' = IF pc = "list" /\ kind = t /\ Place(r, t) < offset
                      THEN shifted \cup {t} ELSE shifted
        /\ UNCHANGED <<desired, links, late, doubted>>
        /\ UNCHANGED <<pc, listing, seen, todo, action, calls, ids, applied, outcome>>
    BY DEF OtherDeletes, constants
  <1>2. /\ remote'[r] = Gone /\ \A s \in Remotes \ {r} : remote'[s] = remote[s]
    BY <1>1 DEF Typed
  <1>3. \A s : Own(s) => s # r BY <1>1 DEF Own
  <1>4. \A s : Own(s) => Own(s)' /\ remote'[s] = remote[s] BY <1>1, <1>2, <1>3 DEF Own, Exists
  <1>5. Grows BY <1>1, <1>4 DEF Grows
  <1>6. \A a \in Assets : Clean(a)' => Clean(a) /\ Managed(a)' \subseteq Managed(a)
    <2>1. \A a \in Assets : a # Nobody BY RankAssumption DEF Nobody
    <2> QED BY <1>1, <1>2, <2>1, NoObject DEF Clean, Managed
  <1>7. Typed' BY <1>1, <1>2 DEF Typed, listing
  <1>8. Tenant'
    <2>1. \A v \in late' : OwnWrite(v)' /\ (v.op = "id" => v.of \in doubted')
      BY <1>1, <1>5, Kept DEF Tenant
    <2>2. \A l \in links' : Own(l[1])' /\ Own(l[2])' BY <1>1, <1>4 DEF Tenant
    <2>3. \A s \in foreign' : remote'[s] \in {Unmanaged(a) : a \in Assets}
      BY <1>1, <1>2 DEF Tenant, Typed
    <2>4. \A a \in Assets : Clean(a)' => \A q, s \in Managed(a)' : q = s
      BY <1>6 DEF Tenant
    <2> QED BY <2>1, <2>2, <2>3, <2>4 DEF Tenant
  <1>9. Reading'
    <2> SUFFICES ASSUME NEW s \in Remotes, pc = "list", kind \notin shifted',
                        s \in OfType(kind), Place(s, kind)' < offset
                 PROVE  Place(s, kind) < offset
      BY <1>1, <1>6, ReadingStays
    <2> DEFINE X == {x \in OfType(kind) : x < s}
               Y == {x \in OfType(kind)' : x < s}
    <2>1. IsFiniteSet(X) /\ IsFiniteSet(Y)
      BY InitialAssumption, FS_Subset DEF OfType
    <2>2. Place(s, kind) = Cardinality(X) /\ Place(s, kind)' = Cardinality(Y)
      BY <1>1 DEF Place, listing
    <2>3. OfType(kind)' = OfType(kind) \ {r}
      BY <1>1, <1>2 DEF OfType, Exists, listing
    <2>4. CASE r \notin X
      <3>1. X = Y BY <2>3, <2>4
      <3> QED BY <2>2, <3>1
    <2>5. CASE r \in X
      <3>1. kind = t /\ r < s BY <2>5 DEF OfType
      <3>2. ~(Place(r, t) < offset) BY <1>1, <3>1
      <3>3. {x \in OfType(t) : x < r} \subseteq Y
        <4>1. \A x \in Remotes : x < r => x < s /\ x # r
          BY <3>1, InitialAssumption
        <4> QED BY <2>3, <3>1, <4>1 DEF OfType
      <3>4. Place(r, t) <= Cardinality(Y)
        <4> HIDE DEF Y
        <4> QED BY <2>1, <3>3, FS_Subset DEF Place
      <3>5. Place(r, t) \in Nat /\ Cardinality(Y) \in Nat BY <2>1, PlaceType, FS_CardinalityType
      <3> HIDE DEF Y, t
      <3> QED BY <2>2, <3>2, <3>4, <3>5 DEF Typed
    <2> QED BY <2>4, <2>5
  <1> QED BY <1>1, <1>5, <1>6, <1>7, <1>8, <1>9, OutsideStep

-----------------------------------------------------------------------------
(* Reading.                                                                *)

\* A step that changes nothing of the tenant.
LEMMA SameTenant ==
    ASSUME UNCHANGED <<desired, remote, links, foreign, doubted, shifted>>
    PROVE  /\ \A r : (Own(r)' <=> Own(r)) /\ (Exists(r)' <=> Exists(r))
           /\ \A a : (Clean(a)' <=> Clean(a)) /\ Managed(a)' = Managed(a)
           /\ \A a : (InModel(a)' <=> InModel(a)) /\ (AssetDone(a)' <=> AssetDone(a))
           /\ Wanted' = Wanted /\ \A e : EdgeDone(e)' <=> EdgeDone(e)
           /\ \A r, a : Full(r, a)' <=> Full(r, a)
           /\ Tenant /\ late' = late => Tenant'
           /\ SuccessMeansConverged /\ outcome' = outcome => SuccessMeansConverged'
           /\ AppliedIsDone /\ UNCHANGED <<applied, todo>> => AppliedIsDone'
  <1>1. \A r : (Own(r)' <=> Own(r)) /\ (Exists(r)' <=> Exists(r)) BY DEF Own, Exists
  <1>2. \A a : (Clean(a)' <=> Clean(a)) /\ Managed(a)' = Managed(a) BY DEF Clean, Managed
  <1>3. \A a : (InModel(a)' <=> InModel(a)) /\ (AssetDone(a)' <=> AssetDone(a))
    BY <1>2 DEF InModel, AssetDone
  <1>4. Wanted' = Wanted /\ \A e : EdgeDone(e)' <=> EdgeDone(e)
    BY <1>2, <1>3 DEF Wanted, EdgeDone
  <1>5. \A r, a : Full(r, a)' <=> Full(r, a) BY DEF Full
  <1>6. ASSUME Tenant, late' = late PROVE Tenant'
    <2>1. \A w : OwnWrite(w)' <=> OwnWrite(w) BY <1>1 DEF OwnWrite
    <2> QED BY <1>1, <1>2, <1>6, <2>1 DEF Tenant
  <1>7. SuccessMeansConverged /\ outcome' = outcome => SuccessMeansConverged'
    BY <1>3, <1>4 DEF SuccessMeansConverged
  <1>8. AppliedIsDone /\ UNCHANGED <<applied, todo>> => AppliedIsDone'
    BY <1>3, <1>4 DEF AppliedIsDone, Done
  <1> QED BY <1>1, <1>2, <1>3, <1>4, <1>5, <1>6, <1>7, <1>8

\* A behaviour begins with a tenant in which nothing is duplicated.
LEMMA InitIInv == Init => IInv
  <1> SUFFICES ASSUME Init PROVE IInv OBVIOUS
  <1>1. /\ remote \in [Remotes -> Objects \cup {Absent}]
        /\ \A r, s \in Remotes : remote[r].id = remote[s].id => r = s \/ remote[r].id = Nobody
        /\ \A r \in Remotes : remote[r].id = Nobody =>
              remote[r] \in {Absent} \cup {Unmanaged(a) : a \in Assets}
    BY InitialAssumption DEF Init
  <1>2. /\ listed = [r \in Remotes |-> Absent] /\ seen = [r \in Remotes |-> Absent]
        /\ pc = "list" /\ kind = 1 /\ offset = 0 /\ late = {} /\ links = {} /\ applied = {}
        /\ action = NoAction /\ outcome = "none"
    BY DEF Init
  <1>3. Typed BY <1>1, <1>2, ListingAssumption DEF Init, Typed
  <1>4. Tenant
    <2>1. \A r \in foreign : remote[r] \in {Unmanaged(a) : a \in Assets}
      BY <1>1 DEF Init, Exists
    <2>2. \A a \in Assets : a # Nobody BY RankAssumption DEF Nobody
    <2>3. \A a \in Assets : \A r, s \in Managed(a) : r = s BY <1>1, <2>2 DEF Managed
    <2> QED BY <1>2, <2>1, <2>3 DEF Tenant
  <1>5. Seen BY <1>2, NoObject DEF Seen
  <1>6. Reading
    <2>1. \A r, t : t \in 1..Types => ~Passed(r, t)
      BY <1>2, PlaceType, ListingAssumption DEF Passed
    <2>2. \A a \in Assets : TypeOf[a] \in 1..Types BY ListingAssumption
    <2> QED BY <1>2, <2>1, <2>2 DEF Reading
  <1>7. Executing /\ Planned BY <1>2 DEF Executing, Planned
  <1>8. Counted
    BY <1>2 DEF Counted, AppliedIsDone, SuccessMeansConverged
  <1> QED BY <1>3, <1>4, <1>5, <1>6, <1>7, <1>8 DEF IInv

\* A run that fails keeps what it has counted.
LEMMA FailStep ==
    ASSUME IInv, Fail, Tenant',
           UNCHANGED <<constants, tenant, foreign, shifted, listing, seen, todo, action, calls,
                       ids, applied>>
    PROVE  IInv'
  <1> USE DEF IInv
  <1>1. pc' = "done" /\ outcome' = "failure" BY DEF Fail
  <1>2. UNCHANGED <<desired, remote, links, foreign, shifted, kind, offset, listed, seen, todo,
                    action, ids, applied>>
    BY DEF constants, tenant, listing
  <1>3. Typed' BY <1>1, <1>2 DEF Typed
  <1>4. Seen' BY <1>2 DEF Seen, Own, Exists
  <1>5. Reading' /\ Executing' /\ Planned' BY <1>1 DEF Reading, Executing, Planned
  <1>6. Counted'
    <2>1. Grows BY <1>2, NothingGrows
    <2>2. \A x \in applied : Done(x)' BY <2>1, DoneStays DEF Counted, AppliedIsDone
    <2>3. SuccessMeansConverged' BY <1>1 DEF SuccessMeansConverged
    <2> QED BY <1>1, <1>2, <2>2, <2>3 DEF Counted, AppliedIsDone
  <1> QED BY <1>3, <1>4, <1>5, <1>6

\* A page that is not full ends the listing of a type (_paginate, live.py:605).
LEMMA LastPage ==
    ASSUME Typed, pc = "list", Cardinality(Page) # PageSize, NEW r \in OfType(kind)
    PROVE  r \in Page \/ Place(r, kind) < offset
  <1> DEFINE S == OfType(kind)
  <1>1. IsFiniteSet(S) /\ S \subseteq Nat BY InitialAssumption, FS_Subset DEF OfType
  <1>2. \A s : Place(s, kind) = Rank(S, s) BY DEF Place, Rank, Below
  <1>3. PageSize \in Nat /\ offset \in Nat BY ListingAssumption DEF Typed
  <1>4. Page = {s \in S : Rank(S, s) \in offset..offset + PageSize - 1} BY <1>2 DEF Page
  <1>5. Place(r, kind) \in Nat BY PlaceType
  <1> HIDE DEF S
  <1>6. ~(Rank(S, r) >= offset + PageSize) BY <1>1, <1>3, <1>4, FullPage DEF S
  <1>7. Place(r, kind) < offset + PageSize BY <1>2, <1>3, <1>5, <1>6
  <1> QED BY <1>2, <1>3, <1>4, <1>5, <1>7 DEF S

\* A page adds what it shows; what it does not show is on a later one.
LEMMA ListPageStep ==
    ASSUME IInv, ListPage
    PROVE  IInv'
  <1> USE DEF IInv
  <1>1. /\ pc = "list"
        /\ listed' = [r \in Remotes |-> IF r \in Page THEN Header(r) ELSE listed[r]]
        /\ UNCHANGED <<desired, remote, links, foreign, doubted, shifted, late, seen, todo, action,
                       calls, ids, applied, outcome>>
    BY DEF ListPage, constants, tenant, others
  <1>2. PageSize \in Nat /\ offset \in Nat /\ kind \in 1..Types /\ Types \in Nat
    BY <1>1, ListingAssumption DEF Typed
  <1>3. \A r \in Page : r \in Remotes /\ Exists(r) /\ remote[r] \in Objects
    BY RemoteFacts DEF Page, OfType
  <1>4. \A r \in Page : Header(r) \in Headers /\ Header(r).name = remote[r].name
                        /\ Header(r) # Absent
    <2> SUFFICES ASSUME NEW r \in Page
                 PROVE  Header(r) \in Headers /\ Header(r).name = remote[r].name
                        /\ Header(r) # Absent
      OBVIOUS
    <2>1. remote[r] \in Objects BY <1>3
    <2>2. PICK o \in Objects : o = remote[r] BY <2>1
    <2>3. Header(r) = [id |-> Nobody, as |-> o.as, name |-> o.name, desc |-> "none"]
      <3>1. Header(r) = [o EXCEPT !.id = Nobody, !.desc = "none"] BY <2>2 DEF Header
      <3>2. o \in [id : Assets \cup {Nobody}, as : Assets, name : {"old", "new"},
                   desc : {"none", "old", "new"}]
        BY DEF Objects
      <3> QED BY <3>1, <3>2
    <2>4. Header(r).as = o.as /\ Header(r).name = o.name BY <2>3
    <2>5. Header(r) \in Headers BY <2>2, <2>3, ObjectFacts DEF Headers
    <2> QED BY <2>2, <2>4, <2>5, NoObject, ObjectFacts
  <1>5. \/ /\ Cardinality(Page) = PageSize /\ pc' = "list"
           /\ kind' = kind /\ offset' = offset + PageSize
        \/ /\ Cardinality(Page) # PageSize /\ kind' = kind + 1 /\ offset' = 0
           /\ pc' = IF kind = Types THEN "attributes" ELSE "list"
    BY <1>1 DEF ListPage
  <1>6. Typed'
    <2>1. listed' \in [Remotes -> Headers \cup {Absent}] BY <1>1, <1>4 DEF Typed
    <2>2. pc' = "list" => kind' \in 1..Types BY <1>2, <1>5
    <2> QED BY <1>1, <1>2, <1>5, <2>1, <2>2 DEF Typed
  <1>7. Tenant' BY <1>1, SameTenant
  <1>8. Seen'
    <2>1. \A r \in Page : remote[r].name = "new" => Own(r)
      <3>1. \A r \in foreign : remote[r].name = "old" BY DEF Tenant, Unmanaged
      <3> QED BY <1>3, <3>1 DEF Own
    <2>2. \A r \in Remotes : listed'[r].name = "new" => Own(r) /\ remote[r].name = "new"
      BY <1>1, <1>4, <2>1 DEF Seen
    <2> QED BY <1>1, <2>2, SameTenant DEF Seen
  <1>9. Reading'
    <2> SUFFICES ASSUME NEW a \in Assets, Clean(a), NEW r \in Managed(a)
                 PROVE  /\ pc' = "list" /\ Passed(r, TypeOf[a])' => listed'[r] # Absent
                        /\ pc' = "attributes" => listed'[r] # Absent
      BY <1>1, SameTenant DEF Reading
    <2>1. r \in Remotes /\ r \in OfType(TypeOf[a]) /\ TypeOf[a] \in 1..Types
      <3>1. a # Nobody BY RankAssumption DEF Nobody
      <3>2. Exists(r) /\ remote[r].as = a BY <3>1, RemoteFacts DEF Managed
      <3> QED BY <3>2, ListingAssumption DEF OfType, Managed
    <2>2. listed[r] # Absent \/ r \in Page => listed'[r] # Absent BY <1>1, <1>4, <2>1
    <2>3. Passed(r, TypeOf[a]) => listed[r] # Absent BY <1>1 DEF Reading
    <2>4. Place(r, kind) \in Nat BY PlaceType
    <2>5. CASE Cardinality(Page) = PageSize
      <3>1. Place(r, kind)' = Place(r, kind) BY <1>1, <1>5, <2>5, SameTenant DEF Place, OfType
      <3>2. TypeOf[a] = kind /\ Place(r, kind) < offset + PageSize =>
              Place(r, kind) < offset \/ r \in Page
        BY <1>2, <2>1, <2>4 DEF Page
      <3>3. Passed(r, TypeOf[a])' => Passed(r, TypeOf[a]) \/ r \in Page
        BY <1>5, <2>5, <3>1, <3>2 DEF Passed
      <3> QED BY <1>5, <2>2, <2>3, <2>5, <3>3
    <2>6. CASE Cardinality(Page) # PageSize
      <3>1. TypeOf[a] = kind => r \in Page \/ Place(r, kind) < offset
        BY <1>1, <2>1, <2>6, LastPage
      <3>2. TypeOf[a] <= kind => listed'[r] # Absent
        BY <1>2, <2>1, <2>2, <2>3, <3>1 DEF Passed
      <3>3. Place(r, kind)' \in Nat
        BY <1>1, InitialAssumption, FS_Subset, FS_CardinalityType DEF Place, OfType
      <3>4. Passed(r, TypeOf[a])' => TypeOf[a] <= kind
        BY <1>2, <1>5, <2>1, <2>6, <3>3 DEF Passed
      <3>5. pc' = "attributes" => TypeOf[a] <= kind BY <1>2, <1>5, <2>1, <2>6
      <3> QED BY <3>2, <3>4, <3>5
    <2> QED BY <2>5, <2>6
  <1>10. Executing' /\ Planned' BY <1>5 DEF Executing, Planned
  <1>11. Counted' BY <1>1, <1>5, SameTenant DEF Counted
  <1> QED BY <1>6, <1>7, <1>8, <1>9, <1>10, <1>11

\* An asset is read with its name as it was listed and its attributes as they are.
LEMMA ReadAttributesStep ==
    ASSUME IInv, NEW r \in Remotes, ReadAttributes(r)
    PROVE  IInv'
  <1> USE DEF IInv
  <1>1. /\ pc = "attributes" /\ pc' = pc /\ listed[r] # Absent
        /\ seen' = [seen EXCEPT ![r] = AsRead(r)]
        /\ listed' = [listed EXCEPT ![r] = Absent]
        /\ UNCHANGED <<desired, remote, links, foreign, doubted, shifted, late, kind, offset, todo,
                       action, calls, ids, applied, outcome>>
    BY DEF ReadAttributes, constants, tenant, others
  <1>2. /\ listed'[r] = Absent /\ seen'[r] = AsRead(r)
        /\ \A s \in Remotes \ {r} : listed'[s] = listed[s] /\ seen'[s] = seen[s]
    BY <1>1 DEF Typed
  <1>3. listed[r] \in Headers /\ listed[r].name \in {"old", "new"}
    BY <1>1 DEF Typed, Headers
  <1>4. /\ AsRead(r) \in Objects \cup {Absent}
        /\ AsRead(r).id = remote[r].id
        /\ AsRead(r).id # Nobody =>
              AsRead(r).name = listed[r].name /\ AsRead(r).desc = remote[r].desc
    <2>1. CASE remote[r].id = Nobody BY <2>1, NoObject DEF AsRead
    <2>2. CASE remote[r].id # Nobody
      <3>1. remote[r] \in Objects BY <2>2, RemoteFacts
      <3>2. PICK o \in Objects : o = remote[r] BY <3>1
      <3>3. AsRead(r) = [o EXCEPT !.name = listed[r].name] BY <2>2, <3>2 DEF AsRead
      <3>4. o \in [id : Assets \cup {Nobody}, as : Assets, name : {"old", "new"},
                   desc : {"none", "old", "new"}] /\ o.id \in {Nobody, o.as}
        BY DEF Objects
      <3>5. AsRead(r) = [id |-> o.id, as |-> o.as, name |-> listed[r].name, desc |-> o.desc]
        BY <3>3, <3>4
      <3>6. AsRead(r) \in Objects BY <1>3, <3>4, <3>5 DEF Objects
      <3> QED BY <3>2, <3>5, <3>6
    <2> QED BY <2>1, <2>2
  <1>5. Typed' BY <1>1, <1>4 DEF Typed
  <1>6. Tenant' BY <1>1, SameTenant
  <1>7. Seen'
    <2>1. listed[r].name = "new" => remote[r].name = "new" BY DEF Seen
    <2> SUFFICES ASSUME NEW s \in Remotes
                 PROVE  /\ listed'[s].name = "new" => Own(s) /\ remote[s].name = "new"
                        /\ seen'[s].id # Nobody =>
                            /\ remote[s].id = seen'[s].id
                            /\ seen'[s].name = "new" => remote[s].name = "new"
                            /\ seen'[s].desc = "new" => remote[s].desc = "new"
      BY <1>1, SameTenant DEF Seen
    <2>2. CASE s = r BY <1>2, <1>4, <2>1, <2>2, NoObject
    <2>3. CASE s # r BY <1>2, <2>3 DEF Seen
    <2> QED BY <2>2, <2>3
  <1>8. Reading'
    <2> SUFFICES ASSUME NEW a \in Assets, Clean(a), NEW s \in Managed(a)
                 PROVE  listed'[s] # Absent \/ seen'[s].id = a
      BY <1>1, SameTenant DEF Reading
    <2>1. s \in Remotes /\ remote[s].id = a BY DEF Managed
    <2>2. CASE s = r BY <1>2, <1>4, <2>1, <2>2
    <2>3. CASE s # r BY <1>1, <1>2, <2>1, <2>3 DEF Reading
    <2> QED BY <2>2, <2>3
  <1>9. Executing' /\ Planned' BY <1>1 DEF Executing, Planned
  <1>10. Counted' BY <1>1, SameTenant DEF Counted
  <1> QED BY <1>5, <1>6, <1>7, <1>8, <1>9, <1>10

\* The plan holds what is missing, and creates no asset that is there, if no
\* doubtful write and no disturbed listing hid one (build_sync_plan).
LEMMA PlanStep ==
    ASSUME IInv, ReadRelationsAndPlan
    PROVE  IInv'
  <1> USE DEF IInv
  <1>1. /\ pc = "attributes" /\ \A r \in Remotes : listed[r] = Absent
        /\ todo' = PlanOf(seen, links)
        /\ ids' = [a \in Assets |-> Match(seen, a)]
        /\ pc' = "execute"
        /\ UNCHANGED <<desired, remote, links, foreign, doubted, shifted, late, kind, offset,
                       listed, seen, action, calls, applied, outcome>>
    BY DEF ReadRelationsAndPlan, constants, tenant, others, listing
  <1>2. Typed' BY <1>1, MatchFacts DEF Typed
  <1>3. Tenant' BY <1>1, SameTenant
  <1>4. Seen' BY <1>1, SameTenant DEF Seen
  <1>5. Reading' /\ Executing' BY <1>1 DEF Reading, Executing
  <1>6. \A a \in Assets : Match(seen, a) # Nobody =>
          /\ Match(seen, a) \in Managed(a) /\ seen[Match(seen, a)].id = a
          /\ seen[Match(seen, a)].name = "new" => remote[Match(seen, a)].name = "new"
          /\ seen[Match(seen, a)].desc = "new" => remote[Match(seen, a)].desc = "new"
    <2> SUFFICES ASSUME NEW a \in Assets, Match(seen, a) # Nobody
                 PROVE  /\ Match(seen, a) \in Managed(a) /\ seen[Match(seen, a)].id = a
                        /\ seen[Match(seen, a)].name = "new" => remote[Match(seen, a)].name = "new"
                        /\ seen[Match(seen, a)].desc = "new" => remote[Match(seen, a)].desc = "new"
      OBVIOUS
    <2>1. Match(seen, a) \in Remotes /\ seen[Match(seen, a)].id = a BY MatchFacts
    <2>2. a # Nobody BY RankAssumption DEF Nobody
    <2> QED BY <2>1, <2>2 DEF Seen, Managed
  <1>7. /\ \A a : <<"create", a>> \in todo' <=> a \in Assets /\ InModel(a) /\ Match(seen, a) = Nobody
        /\ \A a : <<"update", a>> \in todo' <=> a \in Assets /\ InModel(a) /\ Differs(seen, a)
        /\ \A e : <<"link", e>> \in todo' <=> e \in Wanted \ Linked(seen, links)
    BY <1>1 DEF PlanOf
  <1>8. Planned'
    <2>1. \A x \in todo' : \/ \E a \in Assets : InModel(a) /\ x \in {<<"create", a>>, <<"update", a>>}
                           \/ \E e \in Wanted : x = <<"link", e>>
      BY <1>1 DEF PlanOf
    <2>2. \A a \in Assets : InModel(a) =>
            /\ <<"create", a>> \in todo' \/ ids'[a] \in Managed(a)
            /\ AssetDone(a) \/ <<"create", a>> \in todo' \/ <<"update", a>> \in todo'
      <3> SUFFICES ASSUME NEW a \in Assets, InModel(a), <<"create", a>> \notin todo',
                          <<"update", a>> \notin todo'
                   PROVE  AssetDone(a)
        BY <1>1, <1>6, <1>7
      <3>1. Match(seen, a) # Nobody /\ ~Differs(seen, a) BY <1>7
      <3>2. seen[Match(seen, a)].name = "new" /\ seen[Match(seen, a)].desc = desired[a]
        BY <3>1 DEF Differs
      <3> QED BY <1>6, <3>1, <3>2 DEF AssetDone
    <2>3. \A e \in Wanted : EdgeDone(e) \/ <<"link", e>> \in todo'
      <3> SUFFICES ASSUME NEW e \in Wanted, e \in Linked(seen, links) PROVE EdgeDone(e)
        BY <1>7
      <3>1. PICK l \in links : seen[l[1]].id = e[1] /\ seen[l[2]].id = e[2] BY DEF Linked
      <3>2. l[1] \in Remotes /\ l[2] \in Remotes BY DEF Tenant, Own
      <3>3. e[1] \in Assets /\ e[2] \in Assets BY RankAssumption DEF Wanted
      <3>4. e[1] # Nobody /\ e[2] # Nobody BY <3>3, RankAssumption DEF Nobody
      <3> QED BY <3>1, <3>2, <3>4 DEF Seen, EdgeDone, Managed
    <2>4. \A a \in Assets : <<"update", a>> \in todo' =>
            /\ ids'[a] \in Managed(a) /\ seen[ids'[a]].id = a
            /\ <<"create", a>> \notin todo'
      BY <1>1, <1>6, <1>7 DEF Differs
    <2>5. \A a \in Assets : <<"create", a>> \in todo' /\ Clean(a) => Managed(a) = {}
      <3> SUFFICES ASSUME NEW a \in Assets, Match(seen, a) = Nobody, Clean(a),
                          NEW r \in Managed(a)
                   PROVE  FALSE
        BY <1>7
      <3>1. r \in Remotes /\ seen[r].id # a BY MatchFacts DEF Managed
      <3> QED BY <1>1, <3>1 DEF Reading
    <2> QED BY <1>1, <2>1, <2>2, <2>3, <2>4, <2>5, SameTenant DEF Planned
  <1>9. Counted' BY <1>1, SameTenant DEF Counted, AppliedIsDone
  <1> QED BY <1>2, <1>3, <1>4, <1>5, <1>8, <1>9

\* A request of the reading fails.
LEMMA ReadFailsStep ==
    ASSUME IInv, ReadFails
    PROVE  IInv'
  <1>1. Tenant'
    BY SameTenant DEF IInv, ReadFails, constants, tenant, others
  <1> QED BY <1>1, FailStep DEF ReadFails, others

-----------------------------------------------------------------------------
(* Executing.                                                              *)

\* The action being executed is one of a creation, an update or a relation.
LEMMA ActionCases ==
    ASSUME IInv, pc = "calling"
    PROVE  \/ \E a \in Assets : /\ action = <<"create", a>> /\ InModel(a) /\ Creating(a)
           \/ \E a \in Assets : /\ action = <<"update", a>> /\ InModel(a) /\ Updating(a)
                                /\ ids[a] \in Managed(a)
           \/ \E e \in Wanted : /\ action = <<"link", e>> /\ Linking(e)
  <1>1. Executing /\ Planned /\ action \in todo BY DEF IInv, Executing
  <1>2. CASE \E a \in Assets : InModel(a) /\ action = <<"create", a>>
    BY <1>1, <1>2 DEF Executing
  <1>3. CASE \E a \in Assets : InModel(a) /\ action = <<"update", a>>
    BY <1>1, <1>3 DEF Executing, Planned
  <1>4. CASE \E e \in Wanted : action = <<"link", e>>
    BY <1>1, <1>4 DEF Executing, Wanted
  <1> QED BY <1>1, <1>2, <1>3, <1>4 DEF Planned

\* The calls of an action are at most two.
LEMMA ShortCalls ==
    ASSUME NEW x, NEW y
    PROVE  /\ <<x>> # <<>> /\ Head(<<x>>) = x /\ Tail(<<x>>) = <<>>
           /\ <<x, y>> # <<>> /\ Head(<<x, y>>) = x /\ Tail(<<x, y>>) = <<y>>
  OBVIOUS

\* The next call of the run, by the action it belongs to.
LEMMA NextCall ==
    ASSUME IInv, pc = "calling", calls # <<>>
    PROVE  LET w == Head(calls) IN
           /\ w.op # "list" => OwnWrite(w)
           /\ w.op = "create" => \E a \in Assets :
                /\ w = Call("create", Nobody, a) /\ action = <<"create", a>>
                /\ Clean(a) => Managed(a) = {}
           /\ w.op = "list" => \E a \in Assets :
                /\ w = Call("list", ids[a], a) /\ action = <<"update", a>>
                /\ remote[ids[a]].name = "new"
           /\ w.op = "id" => \E a \in Assets :
                /\ w = Call("id", ids[a], a) /\ action = <<"create", a>>
                /\ Clean(a) => Managed(a) = {}
  <1> DEFINE w == Head(calls)
  <1>0. Typed /\ Tenant BY DEF IInv
  <1>1. ASSUME NEW a \in Assets, action = <<"create", a>>, Creating(a)
        PROVE  \/ w = Call("create", Nobody, a) /\ (Clean(a) => Managed(a) = {})
               \/ /\ Own(ids[a]) /\ remote[ids[a]].as = a
                  /\ \/ w = Call("id", ids[a], a) /\ (Clean(a) => Managed(a) = {})
                     \/ w = Call("desc", ids[a], a)
    BY <1>1, ShortCalls DEF Creating
  <1>2. ASSUME NEW a \in Assets, action = <<"update", a>>, Updating(a), ids[a] \in Managed(a)
        PROVE  /\ Own(ids[a])
               /\ \/ w \in {Call("name", ids[a], a), Call("desc", ids[a], a)}
                  \/ w = Call("list", ids[a], a) /\ remote[ids[a]].name = "new"
    <2>1. Own(ids[a])
      BY <1>0, <1>2, ManagedIsOwn, RankAssumption DEF Managed, Nobody
    <2> QED BY <1>2, <2>1, ShortCalls DEF Updating
  <1>3. ASSUME NEW e \in Wanted, action = <<"link", e>>, Linking(e)
        PROVE  \E r, s : w = Call("link", <<r, s>>, e) /\ Own(r) /\ Own(s)
    <2>1. e[1] \in Assets /\ e[2] \in Assets BY RankAssumption DEF Wanted
    <2>2. w = Call("link", <<ids[e[1]], ids[e[2]]>>, e)
          /\ ids[e[1]] \in Managed(e[1]) /\ ids[e[2]] \in Managed(e[2])
      BY <1>3, ShortCalls DEF Linking
    <2> QED BY <1>0, <2>1, <2>2, ManagedIsOwn, RankAssumption DEF Managed, Nobody
  <1>4. CASE \E a \in Assets : action = <<"create", a>> /\ InModel(a) /\ Creating(a)
    BY <1>1, <1>4 DEF Call, OwnWrite
  <1>5. CASE \E a \in Assets : action = <<"update", a>> /\ InModel(a) /\ Updating(a)
                               /\ ids[a] \in Managed(a)
    <2>1. PICK a \in Assets : /\ action = <<"update", a>> /\ Updating(a)
                              /\ ids[a] \in Managed(a)
      BY <1>5
    <2>2. Own(ids[a]) BY <1>2, <2>1
    <2>3. CASE w = Call("name", ids[a], a)
      <3>1. w.op = "name" /\ w.at = ids[a] BY <2>3 DEF Call
      <3> QED BY <2>2, <3>1 DEF OwnWrite
    <2>4. CASE w = Call("desc", ids[a], a)
      <3>1. w.op = "desc" /\ w.at = ids[a] BY <2>4 DEF Call
      <3> QED BY <2>2, <3>1 DEF OwnWrite
    <2>5. CASE w = Call("list", ids[a], a) /\ remote[ids[a]].name = "new"
      <3>1. w.op = "list" BY <2>5 DEF Call
      <3> QED BY <2>1, <2>5, <3>1
    <2> QED BY <1>2, <2>1, <2>3, <2>4, <2>5
  <1>6. CASE \E e \in Wanted : action = <<"link", e>> /\ Linking(e)
    BY <1>3, <1>6 DEF Call, OwnWrite
  <1> QED BY <1>4, <1>5, <1>6, ActionCases

\* What a write has brought about.
LEMMA EffectDone ==
    ASSUME Typed, NEW w, OwnWrite(w), Effect(w, Nobody), w.op # "create"
    PROVE  /\ w.op = "name" => remote'[w.at].name = "new"
           /\ w.op = "id" => remote'[w.at].id = w.of
           /\ w.op = "desc" => remote'[w.at].desc = "new"
           /\ w.op = "link" => w.at \in links'
  <1>1. CASE w.op = "link" BY <1>1 DEF Effect
  <1>2. CASE w.op \in {"name", "id", "desc"}
    <2>1. w.at \in Remotes /\ remote[w.at] \in Objects /\ w.at \in DOMAIN remote
      BY <1>2, RemoteFacts DEF OwnWrite, Own, Typed
    <2>2. remote[w.at] \in [id : Assets \cup {Nobody}, as : Assets, name : {"old", "new"},
                            desc : {"none", "old", "new"}]
      BY <2>1 DEF Objects
    <2>3. CASE w.op = "name"
      <3>1. remote' = [remote EXCEPT ![w.at].name = "new"] BY <2>3 DEF Effect
      <3> QED BY <2>1, <2>2, <2>3, <3>1
    <2>4. CASE w.op = "id"
      <3>1. remote' = [remote EXCEPT ![w.at].id = w.of] BY <2>4 DEF Effect
      <3> QED BY <2>1, <2>2, <2>4, <3>1
    <2>5. CASE w.op = "desc"
      <3>1. remote' = [remote EXCEPT ![w.at].desc = "new"] BY <2>5 DEF Effect
      <3> QED BY <2>1, <2>2, <2>5, <3>1
    <2> QED BY <1>2, <2>3, <2>4, <2>5
  <1> QED BY <1>1, <1>2 DEF OwnWrite

\* A call changes what its own action is about, and nothing another action of the
\* plan relies on.
LEMMA RunStep ==
    ASSUME IInv, Grows, pc = "calling", pc' = "calling", Typed', Tenant', Executing',
           UNCHANGED <<listing, seen, todo, action, applied, outcome>>,
           \A a \in Assets : /\ Clean(a)' => Clean(a)
                             /\ action # <<"create", a>> =>
                                  /\ ids'[a] = ids[a]
                                  /\ Clean(a) => Managed(a)' \subseteq Managed(a)
    PROVE  IInv'
  <1> USE DEF IInv, listing
  <1>1. Seen' BY SeenStays
  <1>2. Reading' BY DEF Reading
  <1>3. action \in todo BY DEF Executing
  <1>4. Planned'
    <2>1. Wanted \subseteq Edges BY DEF Wanted
    <2>2. Planned BY DEF IInv
    <2>3. \A x \in todo : \/ \E a \in Assets : InModel(a)' /\ x \in {<<"create", a>>, <<"update", a>>}
                          \/ \E e \in Wanted' : x = <<"link", e>>
      BY <2>2, Kept DEF Planned
    <2>4. \A a \in Assets : InModel(a)' =>
            /\ <<"create", a>> \in todo \/ ids'[a] \in Managed(a)'
            /\ AssetDone(a)' \/ <<"create", a>> \in todo \/ <<"update", a>> \in todo
      <3> SUFFICES ASSUME NEW a \in Assets, InModel(a)
                   PROVE  /\ <<"create", a>> \in todo \/ ids'[a] \in Managed(a)'
                          /\ AssetDone(a)' \/ <<"create", a>> \in todo \/ <<"update", a>> \in todo
        BY Kept
      <3>1. action = <<"create", a>> => <<"create", a>> \in todo BY <1>3
      <3>2. Managed(a) \subseteq Managed(a)' /\ (AssetDone(a) => AssetDone(a)') BY Kept
      <3> QED BY <2>2, <3>1, <3>2 DEF Planned
    <2>5. \A e \in Wanted' : EdgeDone(e)' \/ <<"link", e>> \in todo
      BY <2>1, <2>2, Kept DEF Planned
    <2>6. \A a \in Assets : <<"update", a>> \in todo =>
            /\ ids'[a] \in Managed(a)' /\ seen[ids'[a]].id = a
            /\ <<"create", a>> \notin todo
      <3> SUFFICES ASSUME NEW a \in Assets, <<"update", a>> \in todo
                   PROVE  /\ ids'[a] \in Managed(a)' /\ seen[ids'[a]].id = a
                          /\ <<"create", a>> \notin todo
        OBVIOUS
      <3>1. ids[a] \in Managed(a) /\ seen[ids[a]].id = a /\ <<"create", a>> \notin todo
        BY <2>2 DEF Planned
      <3>2. ids'[a] = ids[a] BY <1>3, <3>1
      <3>3. Managed(a) \subseteq Managed(a)' BY Kept
      <3> QED BY <3>1, <3>2, <3>3
    <2>7. \A a \in Assets : <<"create", a>> \in todo /\ action # <<"create", a>> /\ Clean(a)' =>
            Managed(a)' = {}
      BY <2>2 DEF Planned
    <2> QED BY <2>3, <2>4, <2>5, <2>6, <2>7 DEF Planned
  <1>5. Counted' BY DoneStays DEF Counted, AppliedIsDone
  <1> QED BY <1>1, <1>2, <1>4, <1>5

\* A creation takes a remote id that was never used.
LEMMA CallCreatesStep ==
    ASSUME IInv, NEW r \in Remotes, CallCreates(r)
    PROVE  IInv'
  <1> USE DEF IInv
  <1> DEFINE w == Head(calls)
  <1>1. /\ pc = "calling" /\ pc' = "calling" /\ calls # <<>> /\ w.op = "create"
        /\ Effect(w, r) /\ calls' \in AttributeCalls(r, w.of)
        /\ ids' = [ids EXCEPT ![w.of] = r]
        /\ UNCHANGED <<desired, foreign, doubted, shifted, late, listing, seen, todo, action,
                       applied, outcome>>
    BY DEF CallCreates, Calling, constants, others
  <1>2. PICK a \in Assets : /\ w = Call("create", Nobody, a) /\ action = <<"create", a>>
                            /\ Clean(a) => Managed(a) = {}
    BY <1>1, NextCall
  <1>3. OwnWrite(w) /\ w.of = a BY <1>1, <1>2, NextCall DEF Call
  <1>4. /\ Grows
        /\ remote' \in [Remotes -> Objects \cup {Absent, Gone}]
        /\ \A s \in foreign : remote'[s] = remote[s]
        /\ \A s \in Remotes : remote'[s].id = remote[s].id
        /\ links' = links
    BY <1>1, <1>3, EffectFacts
  <1>5. /\ remote[r] = Absent
        /\ remote'[r] = [id |-> Nobody, as |-> a, name |-> "new", desc |-> "none"]
    BY <1>1, <1>3 DEF Effect, Typed
  <1>6. Own(r)' /\ remote'[r].as = a /\ remote'[r].name = "new"
    <2>1. r \notin foreign BY <1>5, NoObject DEF Tenant, Unmanaged, Absent
    <2>2. remote'[r] # Absent /\ remote'[r] # Gone BY <1>5, NoObject
    <2> QED BY <1>1, <1>5, <2>1, <2>2 DEF Own, Exists
  <1>7. /\ ids'[a] = r /\ ids' \in [Assets -> Remotes \cup {Nobody}]
        /\ \A b \in Assets : b # a => ids'[b] = ids[b]
    BY <1>1, <1>3 DEF Typed
  <1>8. \A b : (Clean(b)' <=> Clean(b)) /\ Managed(b)' = Managed(b)
    BY <1>1, <1>4 DEF Clean, Managed
  <1>9. Typed' BY <1>1, <1>4, <1>7 DEF Typed, listing
  <1>10. Tenant'
    <2>1. \A l \in links' : Own(l[1])' /\ Own(l[2])' BY <1>4 DEF Tenant, Grows, Own
    <2>2. \A v \in late' : OwnWrite(v)' /\ (v.op = "id" => v.of \in doubted')
      BY <1>1, <1>4, Kept DEF Tenant
    <2>3. \A s \in foreign' : remote'[s] \in {Unmanaged(b) : b \in Assets}
      BY <1>1, <1>4 DEF Tenant
    <2> QED BY <1>8, <2>1, <2>2, <2>3 DEF Tenant
  <1>11. Creating(a)'
    <2>1. CASE desired[a] = "new"
      <3>1. calls' \in {<<Call("id", r, a), Call("desc", r, a)>>,
                        <<Call("desc", r, a), Call("id", r, a)>>}
        BY <1>1, <1>3, <2>1 DEF AttributeCalls
      <3> QED BY <1>2, <1>6, <1>7, <1>8, <3>1 DEF Creating
    <2>2. CASE desired[a] # "new"
      <3>1. calls' = <<Call("id", r, a)>> BY <1>1, <1>3, <2>2 DEF AttributeCalls
      <3>2. Full(r, a)' BY <1>1, <1>6, <2>2 DEF Full
      <3> QED BY <1>2, <1>6, <1>7, <1>8, <3>1, <3>2 DEF Creating
    <2> QED BY <2>1, <2>2
  <1>12. Executing'
    <2>1. action' = <<"create", a>> /\ action' \in todo'
      BY <1>1, <1>2 DEF Executing
    <2>2. \A b : action' = <<"create", b>> => b = a BY <2>1
    <2>3. \A b : action' # <<"update", b>> /\ action' # <<"link", b>> BY <2>1
    <2>4. \A b \in Assets : action' = <<"create", b>> => Creating(b)' BY <1>11, <2>2
    <2> QED BY <2>1, <2>3, <2>4 DEF Executing
  <1>13. \A b \in Assets : /\ Clean(b)' => Clean(b)
                           /\ action # <<"create", b>> =>
                                /\ ids'[b] = ids[b]
                                /\ Clean(b) => Managed(b)' \subseteq Managed(b)
    BY <1>2, <1>7, <1>8
  <1> QED BY <1>1, <1>4, <1>9, <1>10, <1>12, <1>13, RunStep

\* A write of a run takes effect: the action is nearer to its end.
LEMMA CallSucceedsStep ==
    ASSUME IInv, CallSucceeds
    PROVE  IInv'
  <1> USE DEF IInv
  <1> DEFINE w == Head(calls)
  <1>1. /\ pc = "calling" /\ pc' = "calling" /\ calls # <<>>
        /\ w.op # "create" /\ w.op # "list"
        /\ Effect(w, Nobody) /\ calls' = Tail(calls)
        /\ UNCHANGED <<desired, foreign, doubted, shifted, late, listing, seen, todo, action,
                       ids, applied, outcome>>
    BY DEF CallSucceeds, IsWrite, Calling, constants, others
  <1>2. OwnWrite(w) BY <1>1, NextCall
  <1>3. /\ Grows
        /\ remote' \in [Remotes -> Objects \cup {Absent, Gone}]
        /\ \A s \in foreign : remote'[s] = remote[s]
        /\ \A s \in Remotes : remote'[s].id # remote[s].id =>
             w.op = "id" /\ s = w.at /\ remote'[s].id = w.of
        /\ links' = IF w.op = "link" THEN links \cup {w.at} ELSE links
    BY <1>1, <1>2, EffectFacts
  <1>4. w.op = "id" => \E a \in Assets :
          /\ w = Call("id", ids[a], a) /\ action = <<"create", a>>
          /\ Clean(a) => Managed(a) = {}
    BY <1>1, NextCall
  <1>5. /\ \A b : Clean(b)' <=> Clean(b)
        /\ \A b \in Assets : \/ Managed(b)' \subseteq Managed(b)
                             \/ /\ w.op = "id" /\ action = <<"create", b>>
                                /\ Managed(b)' \subseteq Managed(b) \cup {w.at}
                                /\ Clean(b) => Managed(b) = {}
    <2>1. \A b : Clean(b)' <=> Clean(b) BY <1>1 DEF Clean
    <2> SUFFICES ASSUME NEW b \in Assets, NEW s \in Managed(b)', s \notin Managed(b)
                 PROVE  /\ w.op = "id" /\ action = <<"create", b>>
                        /\ Managed(b)' \subseteq Managed(b) \cup {w.at}
                        /\ Clean(b) => Managed(b) = {}
      BY <2>1
    <2>2. s \in Remotes /\ remote'[s].id = b /\ remote[s].id # b BY DEF Managed
    <2>3. w.op = "id" /\ b = w.of BY <1>3, <2>2
    <2>4. PICK a \in Assets : /\ w = Call("id", ids[a], a) /\ action = <<"create", a>>
                              /\ Clean(a) => Managed(a) = {}
      BY <1>4, <2>3
    <2>5. b = a BY <2>3, <2>4 DEF Call
    <2>6. Managed(b)' \subseteq Managed(b) \cup {w.at} BY <1>3 DEF Managed
    <2> QED BY <2>3, <2>4, <2>5, <2>6
  <1>6. Typed' BY <1>1, <1>3 DEF Typed, listing
  <1>7. Tenant'
    <2>1. \A l \in links' : Own(l[1])' /\ Own(l[2])'
      BY <1>2, <1>3 DEF Tenant, OwnWrite, Grows, Own
    <2>2. \A v \in late' : OwnWrite(v)' /\ (v.op = "id" => v.of \in doubted')
      BY <1>1, <1>3, Kept DEF Tenant
    <2>3. \A s \in foreign' : remote'[s] \in {Unmanaged(b) : b \in Assets}
      BY <1>1, <1>3 DEF Tenant
    <2>4. \A b \in Assets : Clean(b)' => \A q, s \in Managed(b)' : q = s
      BY <1>5 DEF Tenant
    <2> QED BY <2>1, <2>2, <2>3, <2>4 DEF Tenant
  <1>8. ASSUME NEW a \in Assets, action = <<"create", a>>, Creating(a) PROVE Creating(a)'
    <2> DEFINE r == ids[a]
    <2>1. calls # <<Call("create", Nobody, a)>>
      BY <1>1, ShortCalls DEF Call
    <2>2. /\ Own(r) /\ r \in Remotes /\ remote[r].as = a /\ remote[r].name = "new"
          /\ \/ /\ calls \in {<<Call("id", r, a), Call("desc", r, a)>>,
                              <<Call("desc", r, a), Call("id", r, a)>>}
                /\ Clean(a) => Managed(a) = {}
             \/ /\ calls = <<Call("id", r, a)>> /\ Full(r, a)
                /\ Clean(a) => Managed(a) = {}
             \/ calls = <<Call("desc", r, a)>> /\ remote[r].id = a
      BY <1>1, <1>8, <2>1 DEF Creating, Own
    <2>3. /\ Own(r)' /\ remote'[r].as = a /\ remote'[r].name = "new" /\ ids'[a] = r
          /\ Full(r, a) => Full(r, a)'
          /\ remote[r].id = a => remote'[r].id = a
      BY <1>1, <1>3, <2>2, Kept, RankAssumption DEF Grows, Nobody
    <2>4. ASSUME w = Call("id", r, a) PROVE remote'[r].id = a
      BY <1>1, <1>2, <2>4, EffectDone DEF Call
    <2>5. ASSUME w = Call("desc", r, a)
          PROVE  Full(r, a)' /\ (Clean(a)' /\ Managed(a) = {} => Managed(a)' = {})
      <3>1. w.op = "desc" /\ w.at = r BY <2>5 DEF Call
      <3>2. remote'[r].desc = "new" BY <1>1, <1>2, <3>1, EffectDone
      <3>3. Managed(a)' \subseteq Managed(a) BY <1>5, <3>1
      <3> QED BY <2>3, <3>2, <3>3 DEF Full
    <2>6. CASE calls = <<Call("id", r, a), Call("desc", r, a)>>
      <3>1. calls' = <<Call("desc", r, a)>> /\ remote'[r].id = a
        BY <1>1, <2>4, <2>6, ShortCalls
      <3> QED BY <2>3, <3>1 DEF Creating
    <2>7. CASE calls = <<Call("desc", r, a), Call("id", r, a)>> /\ (Clean(a) => Managed(a) = {})
      <3>1. calls' = <<Call("id", r, a)>> /\ w = Call("desc", r, a)
        BY <1>1, <2>7, ShortCalls
      <3>2. Full(r, a)' /\ (Clean(a)' => Managed(a)' = {}) BY <1>5, <2>5, <2>7, <3>1
      <3> QED BY <2>3, <3>1, <3>2 DEF Creating
    <2>8. CASE calls = <<Call("id", r, a)>> /\ Full(r, a)
      <3>1. calls' = <<>> /\ remote'[r].id = a BY <1>1, <2>4, <2>8, ShortCalls
      <3> QED BY <2>3, <2>8, <3>1 DEF Creating
    <2>9. CASE calls = <<Call("desc", r, a)>> /\ remote[r].id = a
      <3>1. calls' = <<>> /\ Full(r, a)' BY <1>1, <2>5, <2>9, ShortCalls
      <3> QED BY <2>3, <2>9, <3>1 DEF Creating
    <2> QED BY <2>2, <2>6, <2>7, <2>8, <2>9
  <1>9. ASSUME NEW a \in Assets, action = <<"update", a>>, Updating(a), ids[a] \in Managed(a)
        PROVE  Updating(a)'
    <2> DEFINE r == ids[a]
    <2>1. Own(r) /\ r \in Remotes /\ ids'[a] = r
      BY <1>1, <1>9, ManagedIsOwn, RankAssumption DEF Managed, Nobody
    <2>2. CASE calls = <<Call("name", r, a), Call("list", r, a)>>
      <3>1. calls' = <<Call("list", r, a)>> /\ w = Call("name", r, a)
        BY <1>1, <2>2, ShortCalls
      <3>2. remote'[r].name = "new" BY <1>1, <1>2, <3>1, EffectDone DEF Call
      <3> QED BY <2>1, <3>1, <3>2 DEF Updating
    <2>3. CASE calls = <<Call("desc", r, a)>> /\ remote[r].name = "new"
      <3>1. calls' = <<>> /\ w = Call("desc", r, a) BY <1>1, <2>3, ShortCalls
      <3>2. remote'[r].desc = "new" BY <1>1, <1>2, <3>1, EffectDone DEF Call
      <3>3. remote'[r].name = "new" BY <1>3, <2>1, <2>3 DEF Grows
      <3> QED BY <2>1, <3>1, <3>2, <3>3 DEF Updating, Full
    <2>4. calls # <<Call("list", r, a)>> BY <1>1, ShortCalls DEF Call
    <2> QED BY <1>1, <1>9, <2>2, <2>3, <2>4 DEF Updating
  <1>10. ASSUME NEW e \in Wanted, action = <<"link", e>>, Linking(e) PROVE Linking(e)'
    <2>1. /\ calls = <<Call("link", <<ids[e[1]], ids[e[2]]>>, e)>>
          /\ ids[e[1]] \in Managed(e[1]) /\ ids[e[2]] \in Managed(e[2])
      BY <1>1, <1>10 DEF Linking
    <2>2. calls' = <<>> /\ w = Call("link", <<ids[e[1]], ids[e[2]]>>, e)
      BY <1>1, <2>1, ShortCalls
    <2>3. <<ids[e[1]], ids[e[2]]>> \in links' BY <1>1, <1>2, <2>2, EffectDone DEF Call
    <2>4. e[1] \in Assets /\ e[2] \in Assets BY RankAssumption DEF Wanted
    <2>5. ids[e[1]] \in Managed(e[1])' /\ ids[e[2]] \in Managed(e[2])'
      BY <1>3, <2>1, <2>4, Kept
    <2> QED BY <2>2, <2>3, <2>5 DEF Linking, EdgeDone
  <1>11. Executing'
    <2>1. action' = action /\ todo' = todo /\ action \in todo
      BY <1>1 DEF Executing
    <2>2. \A a \in Assets : action = <<"create", a>> => Creating(a)'
      BY <1>1, <1>8 DEF Executing
    <2>3. \A a \in Assets : action = <<"update", a>> => Updating(a)'
      BY <1>1, <1>9, <2>1 DEF Executing, Planned
    <2>4. \A e \in Edges : action = <<"link", e>> => Linking(e)'
      <3> SUFFICES ASSUME NEW e \in Edges, action = <<"link", e>> PROVE Linking(e)' OBVIOUS
      <3>1. Linking(e) BY <1>1 DEF Executing
      <3>2. e \in Wanted
        <4>1. \A a : <<"create", a>> # <<"link", e>> /\ <<"update", a>> # <<"link", e>> OBVIOUS
        <4>2. \A f : <<"link", f>> = <<"link", e>> => f = e OBVIOUS
        <4> QED BY <1>1, <2>1, <4>1, <4>2 DEF Planned
      <3> QED BY <1>10, <3>1, <3>2
    <2> QED BY <2>1, <2>2, <2>3, <2>4 DEF Executing
  <1>12. \A b \in Assets : /\ Clean(b)' => Clean(b)
                           /\ action # <<"create", b>> =>
                                /\ ids'[b] = ids[b]
                                /\ Clean(b) => Managed(b)' \subseteq Managed(b)
    BY <1>1, <1>5
  <1> QED BY <1>1, <1>3, <1>6, <1>7, <1>11, <1>12, RunStep

\* update_asset reads the attributes again: what it then writes is all that differs.
LEMMA ListSucceedsStep ==
    ASSUME IInv, ListSucceeds
    PROVE  IInv'
  <1> USE DEF IInv
  <1>1. /\ pc = "calling" /\ pc' = "calling" /\ calls # <<>> /\ Head(calls).op = "list"
        /\ UNCHANGED <<desired, remote, links, foreign, doubted, shifted, late, listing, seen,
                       todo, action, ids, applied, outcome>>
    BY DEF ListSucceeds, Calling, constants, tenant, others
  <1>2. PICK a \in Assets : /\ Head(calls) = Call("list", ids[a], a) /\ action = <<"update", a>>
                            /\ remote[ids[a]].name = "new"
    BY <1>1, NextCall
  <1>3. Head(calls).at = ids[a] /\ Head(calls).of = a BY <1>2 DEF Call
  <1>4. calls' = IF desired[a] = "new" /\ remote[ids[a]].desc # "new"
                 THEN <<Call("desc", ids[a], a)>> ELSE <<>>
    BY <1>3 DEF ListSucceeds
  <1>5. Updating(a)' BY <1>1, <1>2, <1>4 DEF Updating, Full
  <1>6. Executing'
    <2>1. action' = <<"update", a>> /\ action' \in todo' BY <1>1, <1>2 DEF Executing
    <2>2. \A b : action' = <<"update", b>> => b = a BY <2>1
    <2>3. \A b : action' # <<"create", b>> /\ action' # <<"link", b>> BY <2>1
    <2>4. \A b \in Assets : action' = <<"update", b>> => Updating(b)' BY <1>5, <2>2
    <2> QED BY <2>1, <2>3, <2>4 DEF Executing
  <1>7. Grows BY <1>1, NothingGrows
  <1>8. Typed' /\ Tenant' BY <1>1, SameTenant DEF Typed, listing
  <1>9. \A b \in Assets : /\ Clean(b)' => Clean(b)
                          /\ action # <<"create", b>> =>
                               /\ ids'[b] = ids[b]
                               /\ Clean(b) => Managed(b)' \subseteq Managed(b)
    BY <1>1, SameTenant
  <1> QED BY <1>1, <1>6, <1>7, <1>8, <1>9, RunStep

\* A call fails, and the run with it.
LEMMA CallFailsStep ==
    ASSUME IInv, CallFails
    PROVE  IInv'
  <1>1. Tenant' BY SameTenant DEF IInv, CallFails, constants, tenant, others
  <1> QED BY <1>1, FailStep DEF CallFails, others

\* A call whose effect is unknown fails the run too; it is doubtful from now on.
LEMMA CallUnknownStep ==
    ASSUME IInv, CallUnknown
    PROVE  IInv'
  <1> DEFINE w == Head(calls)
  <1>1. /\ pc = "calling" /\ calls # <<>> /\ w.op # "list" /\ late' = late \cup {w}
        /\ doubted' = IF w.op = "id" THEN doubted \cup {w.of} ELSE doubted
        /\ UNCHANGED <<desired, remote, links, foreign, shifted>>
    BY DEF CallUnknown, IsWrite, Calling, constants, tenant, others
  <1>2. OwnWrite(w) BY <1>1, NextCall
  <1>3. \A r : Own(r)' <=> Own(r) BY <1>1 DEF Own, Exists
  <1>4. \A v : OwnWrite(v)' <=> OwnWrite(v) BY <1>1, <1>3 DEF OwnWrite
  <1>5. \A v \in late' : OwnWrite(v)' /\ (v.op = "id" => v.of \in doubted')
    BY <1>1, <1>2, <1>4 DEF IInv, Tenant
  <1>6. \A a : (Clean(a)' => Clean(a)) /\ Managed(a)' = Managed(a) BY <1>1 DEF Clean, Managed
  <1>7. Tenant' BY <1>1, <1>3, <1>5, <1>6 DEF IInv, Tenant
  <1> QED BY <1>7, FailStep DEF CallUnknown, others

\* An action begins when what it needs is there: a relation after the creation of
\* its ends (_ordered_mutating_actions).
LEMMA BeginStep ==
    ASSUME IInv, NEW x \in todo, Begin(x)
    PROVE  IInv'
  <1> USE DEF IInv
  <1>1. /\ pc = "execute" /\ pc' = "calling" /\ action' = x /\ calls' = FirstCalls(x)
        /\ \A y \in todo : ~Before(y, x)
        /\ UNCHANGED <<desired, remote, links, foreign, doubted, shifted, late, kind, offset,
                       listed, seen, todo, ids, applied, outcome>>
    BY DEF Begin, constants, tenant, others, listing
  <1>2. Planned /\ action = NoAction BY <1>1 DEF Counted
  <1>3. Typed' /\ Tenant' BY <1>1, SameTenant DEF Typed
  <1>4. Seen' BY <1>1, SameTenant DEF Seen
  <1>5. Reading' BY <1>1 DEF Reading
  <1>6. \A a \in Assets : <<"create", a>> \in todo /\ Clean(a) => Managed(a) = {}
    <2>1. \A a : NoAction # <<"create", a>> BY DEF NoAction
    <2> QED BY <1>1, <1>2, <2>1 DEF Planned
  <1>7. Executing'
    <2>1. ASSUME NEW a \in Assets, x = <<"create", a>> PROVE Creating(a)'
      <3>1. calls' = <<Call("create", Nobody, a)>> BY <1>1, <2>1 DEF FirstCalls
      <3> QED BY <1>1, <1>6, <2>1, <3>1, SameTenant DEF Creating
    <2>2. ASSUME NEW a \in Assets, x = <<"update", a>> PROVE Updating(a)'
      <3>1. ids[a] \in Managed(a) /\ seen[ids[a]].id = a BY <1>1, <1>2, <2>2 DEF Planned
      <3>2. a # Nobody BY RankAssumption DEF Nobody
      <3>3. seen[ids[a]].name = "new" => remote[ids[a]].name = "new"
        BY <3>1, <3>2 DEF Seen, Managed
      <3>4. calls' = IF seen[ids[a]].name = "new" THEN <<Call("list", ids[a], a)>>
                     ELSE <<Call("name", ids[a], a), Call("list", ids[a], a)>>
        BY <1>1, <2>2 DEF FirstCalls
      <3> QED BY <1>1, <3>3, <3>4 DEF Updating
    <2>3. ASSUME NEW e \in Edges, x = <<"link", e>> PROVE Linking(e)'
      <3>1. e \in Wanted
        <4>1. \A a : <<"create", a>> # x /\ <<"update", a>> # x BY <2>3
        <4>2. \A f : <<"link", f>> = x => f = e BY <2>3
        <4> QED BY <1>1, <1>2, <4>1, <4>2 DEF Planned
      <3>2. /\ InModel(e[1]) /\ InModel(e[2]) /\ e[1] \in Assets /\ e[2] \in Assets
        BY <3>1, RankAssumption DEF Wanted
      <3>3. \A a : <<"create", a>> \notin todo
        <4>1. \A a : Before(<<"create", a>>, x) BY <2>3 DEF Before
        <4> QED BY <1>1, <4>1
      <3>4. ids[e[1]] \in Managed(e[1]) /\ ids[e[2]] \in Managed(e[2])
        BY <1>1, <1>2, <3>2, <3>3 DEF Planned
      <3>5. calls' = <<Call("link", <<ids[e[1]], ids[e[2]]>>, e)>>
        BY <1>1, <2>3 DEF FirstCalls
      <3> QED BY <1>1, <3>4, <3>5, SameTenant DEF Linking
    <2> QED BY <1>1, <2>1, <2>2, <2>3 DEF Executing
  <1>8. Planned' BY <1>1, <1>2, <1>6, SameTenant DEF Planned
  <1>9. Counted' BY <1>1, SameTenant DEF Counted
  <1> QED BY <1>3, <1>4, <1>5, <1>7, <1>8, <1>9

\* An action is counted when all its calls have taken effect.
LEMMA ActionAppliedStep ==
    ASSUME IInv, ActionApplied
    PROVE  IInv'
  <1> USE DEF IInv
  <1>1. /\ pc = "calling" /\ pc' = "execute" /\ calls = <<>>
        /\ applied' = applied \cup {action} /\ todo' = todo \ {action} /\ action' = NoAction
        /\ UNCHANGED <<desired, remote, links, foreign, doubted, shifted, late, kind, offset,
                       listed, seen, ids, outcome>>
    BY DEF ActionApplied, constants, tenant, others, listing
  <1>2. Typed' /\ Tenant' BY <1>1, SameTenant DEF Typed
  <1>3. Seen' BY <1>1, SameTenant DEF Seen
  <1>4. Reading' /\ Executing' BY <1>1 DEF Reading, Executing
  <1>5. /\ \A x, y : <<x, y>> # <<>>
        /\ \A x : <<x>> # <<>>
    BY ShortCalls
  <1>6. \/ \E a \in Assets : /\ action \in {<<"create", a>>, <<"update", a>>}
                             /\ ids[a] \in Managed(a) /\ AssetDone(a)
        \/ \E e \in Wanted : action = <<"link", e>> /\ EdgeDone(e)
    <2>1. ASSUME NEW a \in Assets, action = <<"create", a>>, Creating(a)
          PROVE  ids[a] \in Managed(a) /\ AssetDone(a)
      <3>1. Own(ids[a]) /\ remote[ids[a]].id = a /\ Full(ids[a], a)
        BY <1>1, <1>5, <2>1 DEF Creating
      <3> QED BY <3>1 DEF Own, Managed, AssetDone, Full
    <2>2. ASSUME NEW a \in Assets, action = <<"update", a>>, Updating(a), ids[a] \in Managed(a)
          PROVE  AssetDone(a)
      <3>1. Full(ids[a], a) BY <1>1, <1>5, <2>2 DEF Updating
      <3> QED BY <2>2, <3>1 DEF AssetDone, Full
    <2>3. ASSUME NEW e \in Wanted, action = <<"link", e>>, Linking(e) PROVE EdgeDone(e)
      BY <1>1, <1>5, <2>3 DEF Linking
    <2> QED BY <1>1, <2>1, <2>2, <2>3, ActionCases
  <1>7. Done(action) /\ action \in Actions /\ action \in todo
    <2>1. action \in todo BY <1>1 DEF Executing
    <2>2. Wanted \subseteq Edges BY DEF Wanted
    <2> QED BY <1>6, <2>1, <2>2 DEF Done, Actions
  <1>8. Planned'
    <2>1. Planned BY DEF IInv
    <2>2. \A x \in todo' : \/ \E a \in Assets : InModel(a) /\ x \in {<<"create", a>>, <<"update", a>>}
                           \/ \E e \in Wanted : x = <<"link", e>>
      BY <1>1, <2>1 DEF Planned
    <2>3. \A a \in Assets : InModel(a) =>
            /\ <<"create", a>> \in todo' \/ ids[a] \in Managed(a)
            /\ AssetDone(a) \/ <<"create", a>> \in todo' \/ <<"update", a>> \in todo'
      <3> SUFFICES ASSUME NEW a \in Assets, InModel(a)
                   PROVE  /\ <<"create", a>> \in todo' \/ ids[a] \in Managed(a)
                          /\ AssetDone(a) \/ <<"create", a>> \in todo' \/ <<"update", a>> \in todo'
        OBVIOUS
      <3>1. /\ <<"create", a>> \in todo \/ ids[a] \in Managed(a)
            /\ AssetDone(a) \/ <<"create", a>> \in todo \/ <<"update", a>> \in todo
        BY <1>1, <2>1 DEF Planned
      <3>2. action \in {<<"create", a>>, <<"update", a>>} => ids[a] \in Managed(a) /\ AssetDone(a)
        <4> SUFFICES ASSUME action \in {<<"create", a>>, <<"update", a>>}
                     PROVE  ids[a] \in Managed(a) /\ AssetDone(a)
          OBVIOUS
        <4>1. \A b : action \in {<<"create", b>>, <<"update", b>>} => b = a OBVIOUS
        <4>2. \A e : action # <<"link", e>> OBVIOUS
        <4> QED BY <1>6, <4>1, <4>2
      <3> QED BY <1>1, <3>1, <3>2
    <2>4. \A e \in Wanted : EdgeDone(e) \/ <<"link", e>> \in todo'
      <3> SUFFICES ASSUME NEW e \in Wanted, ~EdgeDone(e) PROVE <<"link", e>> \in todo' OBVIOUS
      <3>1. <<"link", e>> \in todo BY <1>1, <2>1 DEF Planned
      <3>2. action # <<"link", e>>
        <4>1. \A a : <<"link", e>> \notin {<<"create", a>>, <<"update", a>>} OBVIOUS
        <4>2. \A f : <<"link", e>> = <<"link", f>> => e = f OBVIOUS
        <4> QED BY <1>6, <4>1, <4>2
      <3> QED BY <1>1, <3>1, <3>2
    <2>5. \A a \in Assets : <<"update", a>> \in todo' =>
            /\ ids[a] \in Managed(a) /\ seen[ids[a]].id = a
            /\ <<"create", a>> \notin todo'
      BY <1>1, <2>1 DEF Planned
    <2>6. \A a \in Assets : <<"create", a>> \in todo' /\ Clean(a) => Managed(a) = {}
      BY <1>1, <2>1 DEF Planned
    <2> QED BY <1>1, <2>2, <2>3, <2>4, <2>5, <2>6, SameTenant DEF Planned
  <1>9. Counted'
    <2>1. \A x : Done(x)' <=> Done(x) BY <1>1, SameTenant DEF Done
    <2>2. AppliedIsDone' BY <1>1, <1>7, <2>1 DEF Counted, AppliedIsDone
    <2>3. SuccessMeansConverged' BY <1>1, SameTenant DEF Counted
    <2>4. applied' \subseteq Actions BY <1>1, <1>7 DEF Counted
    <2> QED BY <1>1, <2>2, <2>3, <2>4 DEF Counted
  <1> QED BY <1>2, <1>3, <1>4, <1>8, <1>9

\* A run succeeds when nothing of its plan is left.
LEMMA RunSucceedsStep ==
    ASSUME IInv, RunSucceeds
    PROVE  IInv'
  <1> USE DEF IInv
  <1>1. /\ pc = "execute" /\ todo = {} /\ pc' = "done"
        /\ UNCHANGED <<desired, remote, links, foreign, doubted, shifted, late, kind, offset,
                       listed, seen, todo, action, ids, applied>>
    BY DEF RunSucceeds, constants, tenant, others, listing
  <1>2. Typed' /\ Tenant' BY <1>1, SameTenant DEF Typed
  <1>3. Seen' BY <1>1, SameTenant DEF Seen
  <1>4. Reading' /\ Executing' /\ Planned' BY <1>1 DEF Reading, Executing, Planned
  <1>5. (\A a \in Assets : InModel(a) => AssetDone(a)) /\ \A e \in Wanted : EdgeDone(e)
    BY <1>1 DEF Planned
  <1>6. SuccessMeansConverged' BY <1>1, <1>5, SameTenant DEF SuccessMeansConverged
  <1>7. Counted' BY <1>1, <1>6, SameTenant DEF Counted
  <1> QED BY <1>2, <1>3, <1>4, <1>7

\* The next run begins with nothing read.
LEMMA RunAgainStep ==
    ASSUME IInv, RunAgain
    PROVE  IInv'
  <1> USE DEF IInv
  <1>1. /\ pc' = "list" /\ outcome' = "none" /\ kind' = 1 /\ offset' = 0
        /\ listed' = [r \in Remotes |-> Absent] /\ seen' = [r \in Remotes |-> Absent]
        /\ action' = NoAction /\ applied' = {} /\ todo' = {}
        /\ UNCHANGED <<desired, remote, links, foreign, doubted, shifted, late, ids>>
    BY DEF RunAgain, constants, tenant, others
  <1>2. Typed' BY <1>1, ListingAssumption DEF Typed
  <1>3. Tenant' BY <1>1, SameTenant
  <1>4. Seen' BY <1>1, NoObject DEF Seen
  <1>5. Reading'
    <2>1. \A r, t : Place(r, t)' \in Nat
      BY <1>1, InitialAssumption, FS_Subset, FS_CardinalityType DEF Place, OfType
    <2>2. \A r, t : t \in 1..Types => ~Passed(r, t)' BY <1>1, <2>1, ListingAssumption DEF Passed
    <2>3. \A a \in Assets : TypeOf[a] \in 1..Types BY ListingAssumption
    <2> QED BY <1>1, <2>2, <2>3 DEF Reading
  <1>6. Executing' /\ Planned' BY <1>1 DEF Executing, Planned
  <1>7. Counted' BY <1>1 DEF Counted, AppliedIsDone, SuccessMeansConverged
  <1> QED BY <1>2, <1>3, <1>4, <1>5, <1>6, <1>7

\* A step that changes nothing.
LEMMA StutterStep ==
    ASSUME IInv, UNCHANGED vars
    PROVE  IInv'
  <1> USE DEF IInv
  <1>1. UNCHANGED <<desired, remote, links, foreign, doubted, shifted, late, pc, kind, offset,
                    listed, seen, todo, action, calls, ids, applied, outcome>>
    BY DEF vars, constants, tenant, others, listing
  <1>2. Typed' /\ Tenant' BY <1>1, SameTenant DEF Typed
  <1>3. Seen' BY <1>1, SameTenant DEF Seen
  <1>4. Reading' BY <1>1 DEF Reading, Passed, Place, OfType, Exists, Clean, Managed
  <1>5. Executing'
    BY <1>1 DEF Executing, Creating, Updating, Linking, Own, Exists, Clean, Managed, Full, EdgeDone
  <1>6. Planned' BY <1>1, SameTenant DEF Planned
  <1>7. Counted' BY <1>1, SameTenant DEF Counted
  <1> QED BY <1>2, <1>3, <1>4, <1>5, <1>6, <1>7

-----------------------------------------------------------------------------
(* Theorems.                                                               *)

\* Whatever fails, lands late or is done by other clients, every state of every run
\* is typed, says of the tenant what is true, and has planned what is missing.
THEOREM InductiveInvariant == Spec => []IInv
  <1>1. IInv /\ [Next]_vars => IInv'
    <2> SUFFICES ASSUME IInv, [Next]_vars PROVE IInv' OBVIOUS
    <2>1. CASE Run
      BY <2>1, ListPageStep, ReadAttributesStep, PlanStep, ReadFailsStep, BeginStep,
         CallCreatesStep, CallSucceedsStep, ListSucceedsStep, CallFailsStep, CallUnknownStep,
         ActionAppliedStep, RunSucceedsStep DEF Run
    <2>2. CASE RunAgain BY <2>2, RunAgainStep
    <2>3. CASE Network BY <2>3, IsLostStep, LandsStep DEF Network
    <2>4. CASE Others BY <2>4, OtherCreatesStep, OtherDeletesStep DEF Others
    <2>5. CASE UNCHANGED vars BY <2>5, StutterStep
    <2> QED BY <2>1, <2>2, <2>3, <2>4, <2>5 DEF Next, Terminated
  <1> QED BY InitIInv, <1>1, PTL DEF Spec

\* applied_count counts complete actions only, in failed runs too (sync.py).
THEOREM CountedIsDone == Spec => []AppliedIsDone
  <1>1. IInv => AppliedIsDone BY DEF IInv, Counted
  <1> QED BY <1>1, InductiveInvariant, PTL

\* A run that reports success leaves the tenant with all that the model wants.
THEOREM SuccessConverges == Spec => []SuccessMeansConverged
  <1>1. IInv => SuccessMeansConverged BY DEF IInv, Counted
  <1> QED BY <1>1, InductiveInvariant, PTL

\* After a success only attributes that the model does not want are still planned.
THEOREM RerunIsQuiet == Spec => []RerunPlansNothing
  <1>1. ASSUME IInv PROVE RerunPlansNothing
    <2> SUFFICES ASSUME outcome = "success", Quiet, NEW x \in PlanOf(remote, links)
                 PROVE  /\ x[1] = "update" /\ desired[x[2]] = "none"
                        /\ remote[Match(remote, x[2])].desc # "none"
      BY DEF RerunPlansNothing
    <2>1. /\ \A a \in Assets : InModel(a) => AssetDone(a)
          /\ \A e \in Wanted : EdgeDone(e)
      BY <1>1 DEF IInv, Counted, SuccessMeansConverged
    <2>2. ASSUME NEW a \in Assets, InModel(a) PROVE Match(remote, a) \in Managed(a)
      <3>1. \E r \in Remotes : remote[r].id = a BY <2>1, <2>2 DEF AssetDone, Managed
      <3> QED BY <3>1, MatchFacts DEF Managed
    <2>3. ASSUME NEW a \in Assets, x = <<"create", a>>, InModel(a), Match(remote, a) = Nobody
          PROVE  FALSE
      <3>1. Match(remote, a) \in Remotes BY <2>2, <2>3 DEF Managed
      <3> QED BY <2>3, <3>1, InitialAssumption DEF Nobody
    <2>4. ASSUME NEW a \in Assets, x = <<"update", a>>, InModel(a), Differs(remote, a)
          PROVE  desired[a] = "none" /\ remote[Match(remote, a)].desc # "none"
      <3>1. PICK r \in Managed(a) : /\ remote[r].name = "new"
                                    /\ desired[a] = "new" => remote[r].desc = "new"
        BY <2>1, <2>4 DEF AssetDone
      <3>2. Match(remote, a) = r BY <2>2, <2>4, <3>1 DEF Quiet
      <3>3. desired[a] \in {"none", "new"} BY <1>1, <2>4 DEF IInv, Typed, InModel
      <3> QED BY <2>4, <3>1, <3>2, <3>3 DEF Differs
    <2>5. ASSUME NEW e \in Wanted, e \notin Linked(remote, links) PROVE FALSE
      BY <2>1, <2>5 DEF EdgeDone, Managed, Linked, Wanted
    <2> QED BY <2>3, <2>4, <2>5 DEF PlanOf
  <1> QED BY <1>1, InductiveInvariant, PTL

\* No failure but a doubtful write of the local_id attribute, and no change by others
\* but a deletion during the listing, makes a later run duplicate an asset.
THEOREM DuplicatesAreDoubted == Spec => []DuplicateOnlyAfterDoubt
  <1>1. IInv => DuplicateOnlyAfterDoubt
    BY DEF IInv, Tenant, DuplicateOnlyAfterDoubt, Clean
  <1> QED BY <1>1, InductiveInvariant, PTL

\* The assets of other clients are neither adopted, changed nor related.
THEOREM OthersAreLeftAlone == Spec => []ForeignUntouched
  <1>1. ASSUME IInv PROVE ForeignUntouched
    <2>1. \A l \in links : l[1] \notin foreign /\ l[2] \notin foreign
      BY <1>1 DEF IInv, Tenant, Own
    <2> QED BY <1>1, <2>1 DEF IInv, Tenant, ForeignUntouched
  <1> QED BY <1>1, InductiveInvariant, PTL
====
