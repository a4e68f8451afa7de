---- MODULE HistoryStore_proof ----
(***************************************************************************)
(* Proofs about HistoryStore, for any commands, artifacts, requests and    *)
(* changes from outside: what the additions to a history may lose, and     *)
(* that the transitions shown of it tell one story.                        *)
(***************************************************************************)
EXTENDS HistoryStore, SequenceTheorems, TLAPS

IsSeq(s) == s \in Seq(Range(s))

\* The authors a file has after the first k landings: what is missing was
\* overlapped, and the rest is in the order of its landings.
Kept(a, k) ==
    /\ \A n \in 1..k :
        \/ Contains(a, landed[n].by)
        \/ \E m \in n + 1..k : ~Contains(landed[m].seen, landed[n].by)
    /\ \A n \in 1..Len(a) : \E i \in 1..k : landed[i].by = a[n]
    /\ \A m, n \in 1..Len(a) : m < n =>
        \E i, j \in 1..k : i < j /\ landed[i].by = a[m] /\ landed[j].by = a[n]

\* The file, as long as only additions wrote it.
Store ==
    ~meddled =>
        /\ file.status = (IF landed = <<>> THEN "absent" ELSE "whole")
        /\ Len(file.entries) = Len(authors)
        /\ Kept(authors, Len(landed))

\* Each state of a history may follow the one before it.
Chain(h) ==
    /\ h.status # "whole" => h.entries = <<>>
    /\ \A n \in 1..Len(h.entries) - 1 :
        /\ Comparable(h.entries[n].state.snapshot, h.entries[n + 1].state.snapshot, h.policy)
        /\ h.entries[n].state # h.entries[n + 1].state

\* A command lands once, and has then ended.
Landings ==
    /\ \A m, n \in 1..Len(landed) : landed[m].by = landed[n].by => m = n
    /\ \A n \in 1..Len(landed) : landed[n].by \in Commands => cmd[landed[n].by].pc = "ended"

\* What a command holds is the file as it was when it read it.
Held(r) ==
    r.pc \in {"resolve", "append", "write", "replace"} =>
        /\ IsSeq(r.had) /\ IsSeq(r.seen) /\ IsSeq(r.history.entries) /\ Chain(r.history)
        /\ ~meddled =>
            /\ Len(r.seen) <= Len(landed)
            /\ \A n \in 1..Len(r.seen) : r.seen[n] = landed[n].by
            /\ Kept(r.had, Len(r.seen))
            /\ IF r.pc \in {"write", "replace"}
               THEN r.history.status = "whole" /\ Len(r.history.entries) = Len(r.had) + 1
               ELSE Len(r.history.entries) = Len(r.had)

Types ==
    /\ IsSeq(authors) /\ IsSeq(landed) /\ IsSeq(file.entries) /\ Chain(file)
    /\ DOMAIN cmd = Commands
    /\ \A c \in Commands : DOMAIN cmd[c] = DOMAIN Idle

IInv == Types /\ Store /\ Landings /\ \A c \in Commands : Held(cmd[c])

-----------------------------------------------------------------------------

\* The length and the domain of a sequence over its own elements.
LEMMA SeqFacts ==
    ASSUME NEW s, IsSeq(s)
    PROVE  Len(s) \in Nat /\ DOMAIN s = 1..Len(s)
  BY DEF IsSeq

\* A sequence over any set is one over its own elements.
LEMMA SeqIs ==
    ASSUME NEW S, NEW s \in Seq(S)
    PROVE  IsSeq(s)
  BY DEF IsSeq, Range

\* A function on 1..n is a sequence of length n.
LEMMA FunIsSeq ==
    ASSUME NEW n \in Nat, NEW f, f = [i \in 1..n |-> f[i]]
    PROVE  IsSeq(f) /\ Len(f) = n
  <1>1. f \in [1..n -> {f[i] : i \in 1..n}] OBVIOUS
  <1>2. f \in Seq({f[i] : i \in 1..n}) BY <1>1, SeqDef
  <1>3. DOMAIN f = 1..n OBVIOUS
  <1> QED BY <1>2, <1>3, SeqIs, LenProperties

\* Append keeps what was there and adds one element.
LEMMA Appended ==
    ASSUME NEW s, NEW e, IsSeq(s)
    PROVE  /\ IsSeq(Append(s, e))
           /\ Len(Append(s, e)) = Len(s) + 1
           /\ \A n \in 1..Len(s) : Append(s, e)[n] = s[n]
           /\ Append(s, e)[Len(s) + 1] = e
  <1> DEFINE S == Range(s) \cup {e}
  <1>1. s \in Seq(S) /\ e \in S BY SeqMonotonic DEF IsSeq
  <1>2. Append(s, e) \in Seq(S) BY <1>1
  <1>3. IsSeq(Append(s, e)) BY <1>2, SeqIs
  <1> HIDE DEF S
  <1> QED BY <1>1, <1>3, AppendProperties

\* A record with other values in its fields has the same fields.
LEMMA Fields ==
    /\ Idle.pc = "idle"
    /\ DOMAIN Idle = {"name", "asked", "pc", "snapshot", "history", "states", "result",
                      "seen", "had", "outcome"}
  BY DEF Idle

\* A command that ends keeps its fields.
LEMMA EndedFacts ==
    ASSUME NEW c, NEW outcome
    PROVE  DOMAIN Ended(c, outcome) = DOMAIN Idle /\ Ended(c, outcome).pc = "ended"
  BY DEF Ended, Idle

\* A behaviour begins with earlier additions that came one after the other.
LEMMA InitIInv == Init => IInv
  <1> SUFFICES ASSUME Init PROVE IInv OBVIOUS
  <1>1. PICK e \in Earlier :
           /\ file = e.file /\ authors = e.by
           /\ landed = [n \in DOMAIN e.by |-> [by |-> e.by[n], seen |-> SubSeq(e.by, 1, n - 1)]]
    BY DEF Init
  <1>2. /\ IsSeq(e.by) /\ Len(e.by) \in Nat /\ DOMAIN e.by = 1..Len(e.by)
        /\ IsSeq(e.file.entries)
    BY EarlierAssumption, SeqFacts DEF IsSeq
  <1>3. IsSeq(landed) /\ Len(landed) = Len(e.by)
    <2>1. landed = [n \in 1..Len(e.by) |-> landed[n]] BY <1>1, <1>2
    <2> QED BY <1>2, <2>1, FunIsSeq
  <1>4. \A n \in 1..Len(landed) : landed[n].by = e.by[n] BY <1>1, <1>2, <1>3
  <1>5. Types
    <2>1. Chain(e.file)
      <3>1. e.file.status # "whole" => Len(e.file.entries) = 0
        BY EarlierAssumption, EmptySeq
      <3>2. e.file.status # "whole" => e.file.entries = <<>>
        BY <1>2, <3>1, EmptySeq DEF IsSeq
      <3> QED BY <3>2, EarlierAssumption DEF Chain
    <2> QED BY <1>1, <1>2, <1>3, <2>1 DEF Types, Init
  <1>6. Kept(authors, Len(landed))
    <2>1. authors = e.by /\ Len(authors) = Len(landed) BY <1>1, <1>3
    <2>2. \A n \in 1..Len(landed) : landed[n].by = authors[n] BY <1>4, <2>1
    <2>3. \A n \in 1..Len(landed) : Contains(authors, landed[n].by)
      BY <2>1, <2>2 DEF Contains
    <2>4. \A m, n \in 1..Len(authors) : m < n =>
            \E i, j \in 1..Len(landed) : i < j /\ landed[i].by = authors[m] /\ landed[j].by = authors[n]
      BY <2>1, <2>2
    <2> QED BY <2>1, <2>2, <2>3, <2>4 DEF Kept
  <1>7. landed = <<>> <=> e.by = <<>>
    BY <1>2, <1>3, EmptySeq DEF IsSeq
  <1>8. Store BY <1>1, <1>3, <1>6, <1>7, EarlierAssumption DEF Store
  <1>9. Landings
    <2>1. \A n \in 1..Len(landed) : landed[n].by \notin Commands
      BY <1>1, <1>2, <1>3, <1>4, EarlierAssumption DEF Range
    <2> QED BY <1>1, <1>2, <1>3, <1>4, <2>1, EarlierAssumption DEF Landings
  <1>10. \A c \in Commands : Held(cmd[c]) BY Fields DEF Init, Held
  <1> QED BY <1>5, <1>8, <1>9, <1>10 DEF IInv

-----------------------------------------------------------------------------
(* The steps of one command.                                               *)

\* A step that leaves the file alone: it is the command's record that counts.
LEMMA QuietStep ==
    ASSUME IInv, NEW c \in Commands, NEW r,
           Step(c, r), UNCHANGED <<file, authors, landed, meddled>>,
           cmd[c].pc # "ended", DOMAIN r = DOMAIN Idle, Held(r)
    PROVE  IInv'
  <1>1. /\ DOMAIN cmd' = Commands /\ cmd'[c] = r
        /\ \A d \in Commands \ {c} : cmd'[d] = cmd[d]
    BY DEF Step, IInv, Types
  <1>2. Types' BY <1>1 DEF IInv, Types, IsSeq
  <1>3. Store' BY DEF IInv, Store, Kept
  <1>4. \A n \in 1..Len(landed) : landed[n].by # c BY DEF IInv, Landings
  <1>5. Landings' BY <1>1, <1>4 DEF IInv, Landings
  <1>6. \A d \in Commands : Held(cmd[d])'
    <2> SUFFICES ASSUME NEW d \in Commands PROVE Held(cmd[d])' OBVIOUS
    <2>1. CASE d = c
      <3>1. cmd'[d] = r BY <1>1, <2>1
      <3> QED BY <3>1 DEF Held, Kept
    <2>2. CASE d # c
      <3>1. cmd'[d] = cmd[d] /\ Held(cmd[d]) BY <1>1, <2>2 DEF IInv
      <3> QED BY <3>1 DEF Held, Kept
    <2> QED BY <2>1, <2>2
  <1> QED BY <1>2, <1>3, <1>5, <1>6 DEF IInv

\* A command that has read nothing of the file, or keeps nothing of it.
LEMMA HoldsNothing ==
    ASSUME NEW r, r.pc \notin {"resolve", "append", "write", "replace"}
    PROVE  Held(r)
  BY DEF Held

\* A command that fails before its replacement leaves the file alone.
LEMMA FailStep ==
    ASSUME IInv, NEW c \in Commands, Fail(c), UNCHANGED <<file, authors, landed, meddled>>,
           cmd[c].pc # "ended"
    PROVE  IInv'
  BY QuietStep, HoldsNothing, EndedFacts DEF Fail

\* Before the file is read.
LEMMA StartStep ==
    ASSUME IInv, NEW c \in Commands, StartAdd(c) \/ StartRead(c) \/ ReadSnapshot(c)
    PROVE  IInv'
  <1> USE Fields DEF Disk
  <1>0. cmd[c].pc # "ended" /\ DOMAIN cmd[c] = DOMAIN Idle
    BY DEF StartAdd, StartRead, ReadSnapshot, At, IInv, Types
  <1>1. CASE StartAdd(c)
    <2>1. PICK request \in Requests :
            \/ Step(c, [Ended(c, "failed") EXCEPT !.name = "add"])
            \/ Step(c, [Idle EXCEPT !.name = "add", !.asked = request, !.pc = "snapshot"])
      BY <1>1 DEF StartAdd
    <2>2. ASSUME Step(c, [Ended(c, "failed") EXCEPT !.name = "add"]) PROVE IInv'
      <3> DEFINE r == [Ended(c, "failed") EXCEPT !.name = "add"]
      <3>1. DOMAIN r = DOMAIN Idle /\ r.pc = "ended" BY EndedFacts
      <3> HIDE DEF r
      <3>2. Held(r) BY <3>1, HoldsNothing
      <3>3. Step(c, r) BY <2>2 DEF r
      <3> QED BY <1>0, <1>1, <3>1, <3>2, <3>3, QuietStep DEF StartAdd
    <2>3. ASSUME Step(c, [Idle EXCEPT !.name = "add", !.asked = request, !.pc = "snapshot"])
          PROVE  IInv'
      <3> DEFINE r == [Idle EXCEPT !.name = "add", !.asked = request, !.pc = "snapshot"]
      <3>1. DOMAIN r = DOMAIN Idle /\ r.pc = "snapshot" OBVIOUS
      <3> HIDE DEF r
      <3>2. Held(r) BY <3>1, HoldsNothing
      <3>3. Step(c, r) BY <2>3 DEF r
      <3> QED BY <1>0, <1>1, <3>1, <3>2, <3>3, QuietStep DEF StartAdd
    <2> QED BY <2>1, <2>2, <2>3
  <1>2. CASE StartRead(c)
    <2>1. PICK r : Step(c, r) /\ DOMAIN r = DOMAIN Idle /\ r.pc = "history"
      <3>1. ASSUME NEW query
            PROVE  LET r == [Idle EXCEPT !.name = "show", !.asked = query, !.pc = "history"]
                   IN  DOMAIN r = DOMAIN Idle /\ r.pc = "history"
        OBVIOUS
      <3>2. LET r == [Idle EXCEPT !.name = "inspect", !.pc = "history"]
            IN  DOMAIN r = DOMAIN Idle /\ r.pc = "history"
        OBVIOUS
      <3> QED BY <1>2, <3>1, <3>2 DEF StartRead
    <2>2. Held(r) BY <2>1, HoldsNothing
    <2> QED BY <1>0, <1>2, <2>1, <2>2, QuietStep DEF StartRead
  <1>3. CASE ReadSnapshot(c)
    <2>1. CASE Fail(c) BY <1>0, <1>3, <2>1, FailStep DEF ReadSnapshot
    <2>2. ASSUME NEW x, Step(c, [cmd[c] EXCEPT !.snapshot = x, !.pc = "history"]) PROVE IInv'
      <3> DEFINE r == [cmd[c] EXCEPT !.snapshot = x, !.pc = "history"]
      <3>1. DOMAIN r = DOMAIN Idle /\ r.pc = "history" BY <1>0
      <3> HIDE DEF r
      <3>2. Held(r) BY <3>1, HoldsNothing
      <3>3. Step(c, r) BY <2>2 DEF r
      <3> QED BY <1>0, <1>3, <3>1, <3>2, <3>3, QuietStep DEF ReadSnapshot
    <2> QED BY <1>3, <2>1, <2>2 DEF ReadSnapshot
  <1> QED BY <1>1, <1>2, <1>3

\* The command remembers the file and the landings before its reading.
LEMMA ReadHistoryStep ==
    ASSUME IInv, NEW c \in Commands, ReadHistory(c)
    PROVE  IInv'
  <1> USE Fields DEF Disk
  <1>0. cmd[c].pc # "ended" /\ DOMAIN cmd[c] = DOMAIN Idle
    BY DEF ReadHistory, IInv, Types
  <1>1. CASE Fail(c) BY <1>0, <1>1, FailStep DEF ReadHistory
  <1>2. CASE ~Fail(c)
    <2> DEFINE seen == [n \in DOMAIN landed |-> landed[n].by]
               r == [cmd[c] EXCEPT !.history = file, !.pc = "resolve",
                                   !.seen = seen, !.had = authors]
    <2>1. Step(c, r) BY <1>2 DEF ReadHistory
    <2>2. /\ DOMAIN r = DOMAIN Idle
          /\ r.pc = "resolve" /\ r.history = file /\ r.seen = seen /\ r.had = authors
      BY <1>0
    <2>3. IsSeq(seen) /\ Len(seen) = Len(landed) /\ Len(landed) \in Nat
      <3>1. Len(landed) \in Nat /\ DOMAIN landed = 1..Len(landed) BY SeqFacts DEF IInv, Types
      <3>2. seen = [n \in 1..Len(landed) |-> seen[n]] BY <3>1
      <3> HIDE DEF seen
      <3> QED BY <3>1, <3>2, FunIsSeq
    <2>4. \A n \in 1..Len(seen) : seen[n] = landed[n].by
      BY <2>3, SeqFacts DEF IInv, Types
    <2> HIDE DEF seen, r
    <2>5. Held(r) BY <2>2, <2>3, <2>4 DEF Held, IInv, Types, Store
    <2> QED BY <1>0, <2>1, <2>2, <2>5, QuietStep DEF ReadHistory
  <1> QED BY <1>1, <1>2

\* Resolving the entries keeps the file as it was read, or ends the command.
LEMMA ResolveStep ==
    ASSUME IInv, NEW c \in Commands, ResolveHistory(c)
    PROVE  IInv'
  <1> USE Fields DEF Disk
  <1>0. cmd[c].pc = "resolve" /\ DOMAIN cmd[c] = DOMAIN Idle
    BY DEF ResolveHistory, IInv, Types
  <1>1. CASE Fail(c) BY <1>0, <1>1, FailStep DEF ResolveHistory
  <1>2. CASE Step(c, Ended(c, "ok"))
    BY <1>0, <1>2, QuietStep, HoldsNothing, EndedFacts DEF ResolveHistory
  <1>3. ASSUME NEW pc \in {"append", "evolve"}, NEW states,
               Step(c, [cmd[c] EXCEPT !.pc = pc, !.states = states])
        PROVE  IInv'
    <2> DEFINE r == [cmd[c] EXCEPT !.pc = pc, !.states = states]
    <2>1. /\ DOMAIN r = DOMAIN Idle
          /\ r.pc = pc /\ r.history = cmd[c].history /\ r.seen = cmd[c].seen /\ r.had = cmd[c].had
      BY <1>0
    <2> HIDE DEF r
    <2>2. Held(cmd[c]) BY DEF IInv
    <2>3. Held(r) BY <1>0, <2>1, <2>2 DEF Held
    <2>4. Step(c, r) BY <1>3 DEF r
    <2> QED BY <1>0, <2>1, <2>3, <2>4, QuietStep DEF ResolveHistory
  <1> QED BY <1>1, <1>2, <1>3 DEF ResolveHistory

\* The entry that is added follows the last one of the file that was read
\* (append_history_entry, history/append.py:146).
LEMMA AppendStep ==
    ASSUME IInv, NEW c \in Commands, AppendEntry(c)
    PROVE  IInv'
  <1> USE Fields DEF Disk
  <1>0. cmd[c].pc = "append" /\ DOMAIN cmd[c] = DOMAIN Idle
    BY DEF AppendEntry, At, IInv, Types
  <1>1. CASE Fail(c) BY <1>0, <1>1, FailStep DEF AppendEntry
  <1>2. ASSUME NEW policy, NEW entry,
               Follows(entry, cmd[c].history),
               cmd[c].history.status = "whole" => policy = cmd[c].history.policy,
               Step(c, [cmd[c] EXCEPT !.pc = "write", !.states = <<>>,
                          !.history = Whole(policy, Append(cmd[c].history.entries, entry))])
        PROVE  IInv'
    <2> DEFINE h == Whole(policy, Append(cmd[c].history.entries, entry))
               r == [cmd[c] EXCEPT !.pc = "write", !.states = <<>>, !.history = h]
    <2>1. /\ DOMAIN r = DOMAIN Idle
          /\ r.pc = "write" /\ r.history = h /\ r.seen = cmd[c].seen /\ r.had = cmd[c].had
      BY <1>0
    <2>2. /\ h.status = "whole" /\ h.entries = Append(cmd[c].history.entries, entry)
          /\ h.policy = policy
      BY DEF Whole
    <2> HIDE DEF h, r
    <2>3. Held(cmd[c]) BY DEF IInv
    <2>4. Held(r)
      <3>1. /\ IsSeq(cmd[c].had) /\ IsSeq(cmd[c].seen) /\ IsSeq(cmd[c].history.entries)
            /\ ~meddled => Len(cmd[c].history.entries) = Len(cmd[c].had)
        BY <1>0, <2>3 DEF Held
      <3>2. IsSeq(h.entries) /\ (~meddled => Len(h.entries) = Len(cmd[c].had) + 1)
        <4>1. LET s == Append(cmd[c].history.entries, entry)
              IN  IsSeq(s) /\ Len(s) = Len(cmd[c].history.entries) + 1
          BY <3>1, Appended
        <4> QED BY <2>2, <3>1, <4>1
      <3>3. Chain(h)
        <4> DEFINE old == cmd[c].history.entries
        <4>1. /\ Len(old) \in Nat /\ Len(h.entries) = Len(old) + 1
              /\ \A n \in 1..Len(old) : h.entries[n] = old[n]
              /\ h.entries[Len(old) + 1] = entry
          BY <2>2, <3>1, SeqFacts, Appended
        <4>2. Chain(cmd[c].history) BY <1>0, <2>3 DEF Held
        <4>3. old # <<>> =>
                /\ h.policy = cmd[c].history.policy
                /\ Comparable(old[Len(old)].state.snapshot, entry.state.snapshot, h.policy)
                /\ old[Len(old)].state # entry.state
          BY <1>2, <2>2, <4>2 DEF Chain, Follows, Last
        <4>4. ASSUME NEW n \in 1..Len(h.entries) - 1
              PROVE  /\ Comparable(h.entries[n].state.snapshot, h.entries[n + 1].state.snapshot, h.policy)
                     /\ h.entries[n].state # h.entries[n + 1].state
          <5>1. n \in 1..Len(old) /\ h.entries[n] = old[n] BY <4>1
          <5>2. old # <<>> BY <5>1, EmptySeq
          <5>3. CASE n = Len(old) BY <4>1, <4>3, <5>1, <5>2, <5>3
          <5>4. CASE n # Len(old)
            <6>1. n \in 1..Len(old) - 1 /\ n + 1 \in 1..Len(old) BY <4>1, <5>1, <5>4
            <6>2. /\ Comparable(old[n].state.snapshot, old[n + 1].state.snapshot, h.policy)
                  /\ old[n].state # old[n + 1].state
              BY <4>2, <4>3, <5>2, <6>1 DEF Chain
            <6> QED BY <4>1, <5>1, <6>1, <6>2
          <5> QED BY <5>3, <5>4
        <4> QED BY <2>2, <4>4 DEF Chain
      <3> QED BY <1>0, <2>1, <2>2, <2>3, <3>1, <3>2, <3>3 DEF Held
    <2>5. Step(c, r) BY <1>2 DEF r, h
    <2> QED BY <1>0, <2>1, <2>4, <2>5, QuietStep DEF AppendEntry
  <1>3. ASSUME cmd[c].history.status = "whole"
        PROVE  PolicyOf(cmd[c].asked, cmd[c].history) = cmd[c].history.policy
    BY <1>3 DEF PolicyOf
  <1> QED BY <1>1, <1>2, <1>3 DEF AppendEntry

\* Writing the temporary file leaves the history alone (io/atomic.py:32).
LEMMA WriteTemporaryStep ==
    ASSUME IInv, NEW c \in Commands, WriteTemporary(c)
    PROVE  IInv'
  <1> USE Fields
  <1>0. cmd[c].pc = "write" /\ DOMAIN cmd[c] = DOMAIN Idle
    BY DEF WriteTemporary, At, IInv, Types
  <1> DEFINE r == [cmd[c] EXCEPT !.pc = "replace"]
  <1>1. /\ DOMAIN r = DOMAIN Idle
        /\ r.pc = "replace" /\ r.history = cmd[c].history /\ r.seen = cmd[c].seen /\ r.had = cmd[c].had
    BY <1>0
  <1>2. Step(c, r) BY DEF WriteTemporary
  <1> HIDE DEF r
  <1>3. Held(cmd[c]) BY DEF IInv
  <1>4. Held(r) BY <1>0, <1>1, <1>3 DEF Held
  <1> QED BY <1>0, <1>1, <1>2, <1>4, QuietStep DEF WriteTemporary

\* The steps with which a command ends, or shows what it has read.
LEMMA EndStep ==
    ASSUME IInv, NEW c \in Commands,
           WriteFails(c) \/ Evolve(c) \/ WriteEvolution(c) \/ Kill(c)
    PROVE  IInv'
  <1> USE Fields DEF Disk
  <1>0. cmd[c].pc # "ended" /\ DOMAIN cmd[c] = DOMAIN Idle
    BY DEF WriteFails, Evolve, WriteEvolution, Kill, At, IInv, Types
  <1>1. UNCHANGED <<file, authors, landed, meddled>>
    BY DEF WriteFails, Evolve, WriteEvolution, Kill
  <1>2. \A outcome, told :
            LET r == [Ended(c, outcome) EXCEPT !.result = told]
            IN  DOMAIN r = DOMAIN Idle /\ r.pc = "ended"
    BY EndedFacts
  <1>3. ASSUME NEW told
        PROVE  LET r == [cmd[c] EXCEPT !.pc = "output", !.result = told]
               IN  DOMAIN r = DOMAIN Idle /\ r.pc = "output"
    BY <1>0
  <1>4. PICK r : Step(c, r) /\ DOMAIN r = DOMAIN Idle /\ r.pc \in {"ended", "output"}
    <2>1. CASE WriteFails(c) BY <2>1, EndedFacts DEF WriteFails, Fail
    <2>2. CASE Evolve(c)
      <3>1. CASE Fail(c) BY <3>1, EndedFacts DEF Fail
      <3>2. ASSUME NEW told, Step(c, [Ended(c, "ok") EXCEPT !.result = told])
            PROVE  \E r : Step(c, r) /\ DOMAIN r = DOMAIN Idle /\ r.pc \in {"ended", "output"}
        BY <1>2, <3>2
      <3>3. ASSUME NEW told, Step(c, [cmd[c] EXCEPT !.pc = "output", !.result = told])
            PROVE  \E r : Step(c, r) /\ DOMAIN r = DOMAIN Idle /\ r.pc \in {"ended", "output"}
        BY <1>3, <3>3
      <3>4. \/ Fail(c)
            \/ \E told : \/ Step(c, [Ended(c, "ok") EXCEPT !.result = told])
                          \/ Step(c, [cmd[c] EXCEPT !.pc = "output", !.result = told])
        BY <2>2, Zenon DEF Evolve
      <3> QED BY <3>1, <3>2, <3>3, <3>4
    <2>3. CASE WriteEvolution(c) BY <2>3, <1>2, EndedFacts DEF WriteEvolution
    <2>4. CASE Kill(c) BY <2>4, <1>2 DEF Kill
    <2> QED BY <2>1, <2>2, <2>3, <2>4
  <1>5. Held(r) BY <1>4, HoldsNothing
  <1> QED BY <1>0, <1>1, <1>4, <1>5, QuietStep

-----------------------------------------------------------------------------
(* The addition.                                                           *)

\* The replacement: the file becomes what the command holds, and what landed since
\* it read the file is overwritten.
LEMMA ReplaceStep ==
    ASSUME IInv, NEW c \in Commands, ReplaceFile(c)
    PROVE  IInv'
  <1> DEFINE had == cmd[c].had
             seen == cmd[c].seen
             L == Len(landed)
             new == [by |-> c, seen |-> seen]
  <1>0. cmd[c].pc = "replace" BY DEF ReplaceFile, At
  <1>1. Held(cmd[c]) BY DEF IInv
  <1>2. IsSeq(had) /\ IsSeq(seen) /\ IsSeq(cmd[c].history.entries) BY <1>0, <1>1 DEF Held
  <1>3. /\ IsSeq(landed) /\ L \in Nat
        /\ Len(seen) \in Nat /\ Len(had) \in Nat
    BY <1>2, SeqFacts DEF IInv, Types
  <1>4. /\ IsSeq(landed') /\ Len(landed') = L + 1 /\ landed'[L + 1] = new
        /\ \A n \in 1..L : landed'[n] = landed[n]
    BY <1>3, Appended DEF ReplaceFile
  <1>5. /\ IsSeq(authors') /\ Len(authors') = Len(had) + 1 /\ authors'[Len(had) + 1] = c
        /\ \A n \in 1..Len(had) : authors'[n] = had[n]
    BY <1>2, Appended DEF ReplaceFile
  <1>6. /\ file' = cmd[c].history /\ meddled' = meddled
        /\ new.by = c /\ new.seen = seen
    BY DEF ReplaceFile
  <1>7. /\ DOMAIN cmd' = Commands /\ cmd'[c] = Ended(c, "ok")
        /\ \A d \in Commands \ {c} : cmd'[d] = cmd[d]
    BY DEF ReplaceFile, Step, IInv, Types
  <1> HIDE DEF had, seen, L, new
  <1>8. Types'
    <2>1. IsSeq(file'.entries) /\ Chain(file') BY <1>0, <1>1, <1>2, <1>6 DEF Held
    <2>2. \A d \in Commands : DOMAIN cmd'[d] = DOMAIN Idle
      BY <1>7, EndedFacts DEF IInv, Types
    <2> QED BY <1>4, <1>5, <1>7, <2>1, <2>2 DEF Types
  <1>9. \A n \in 1..L : landed[n].by # c BY <1>0 DEF IInv, Landings, L
  <1>10. Landings'
    <2>1. \A n \in 1..(L + 1) : n \in 1..L \/ n = L + 1 BY <1>3
    <2>2. \A n \in 1..L : landed'[n].by = landed[n].by /\ landed'[n].by # c BY <1>4, <1>9
    <2>3. \A m, n \in 1..L : landed[m].by = landed[n].by => m = n BY DEF IInv, Landings, L
    <2>4. \A m, n \in 1..(L + 1) : landed'[m].by = landed'[n].by => m = n
      BY <1>4, <1>6, <2>1, <2>2, <2>3
    <2>5. \A n \in 1..L : landed[n].by \in Commands => cmd[landed[n].by].pc = "ended"
      BY DEF IInv, Landings, L
    <2>6. \A n \in 1..(L + 1) : landed'[n].by \in Commands => cmd'[landed'[n].by].pc = "ended"
      BY <1>4, <1>6, <1>7, <2>1, <2>2, <2>5, EndedFacts
    <2> QED BY <1>4, <2>4, <2>6 DEF Landings
  <1>11. ASSUME NEW a, NEW k \in Nat, k <= L, Kept(a, k)
         PROVE  Kept(a, k)'
    <2>1. \A n \in 1..k : landed'[n] = landed[n] BY <1>3, <1>4, <1>11
    <2>2. \A n \in 1..k : \A m \in n + 1..k : landed'[m] = landed[m] BY <1>11, <2>1
    <2>3. ASSUME NEW n \in 1..k
          PROVE  \/ Contains(a, landed'[n].by)
                 \/ \E m \in n + 1..k : ~Contains(landed'[m].seen, landed'[n].by)
      BY <1>11, <2>1, <2>2 DEF Kept
    <2>4. ASSUME NEW n \in 1..Len(a)
          PROVE  \E i \in 1..k : landed'[i].by = a[n]
      <3>1. PICK i \in 1..k : landed[i].by = a[n] BY <1>11, Zenon DEF Kept
      <3> QED BY <2>1, <3>1
    <2>5. \A m, n \in 1..Len(a) : m < n =>
            \E i, j \in 1..k : i < j /\ landed'[i].by = a[m] /\ landed'[j].by = a[n]
      <3> SUFFICES ASSUME NEW m \in 1..Len(a), NEW n \in 1..Len(a), m < n
                   PROVE  \E i, j \in 1..k :
                            i < j /\ landed'[i].by = a[m] /\ landed'[j].by = a[n]
        OBVIOUS
      <3>1. PICK i, j \in 1..k : i < j /\ landed[i].by = a[m] /\ landed[j].by = a[n]
        BY <1>11, Zenon DEF Kept
      <3> QED BY <2>1, <3>1
    <2> QED BY <2>3, <2>4, <2>5, Zenon DEF Kept
  <1>12. \A d \in Commands : Held(cmd[d])'
    <2> SUFFICES ASSUME NEW d \in Commands PROVE Held(cmd[d])' OBVIOUS
    <2>1. CASE d = c BY <1>7, <2>1, EndedFacts DEF Held
    <2>2. CASE d # c
      <3>1. cmd'[d] = cmd[d] /\ Held(cmd[d]) BY <1>7, <2>2 DEF IInv
      <3>2. CASE cmd[d].pc \in {"resolve", "append", "write", "replace"} /\ ~meddled
        <4>1. /\ Len(cmd[d].seen) \in Nat /\ Len(cmd[d].seen) <= L
              /\ Kept(cmd[d].had, Len(cmd[d].seen))
              /\ \A n \in 1..Len(cmd[d].seen) : cmd[d].seen[n] = landed[n].by
          BY <3>1, <3>2, SeqFacts DEF Held, L
        <4>2. PICK a, k : a = cmd[d].had /\ k = Len(cmd[d].seen) OBVIOUS
        <4>3. Kept(a, k)' BY <1>11, <4>1, <4>2
        <4>4. Kept(cmd[d].had, Len(cmd[d].seen))'
          BY <3>1, <4>2, <4>3 DEF Kept
        <4>5. \A n \in 1..Len(cmd[d].seen) : cmd[d].seen[n] = landed'[n].by
          BY <1>3, <1>4, <4>1
        <4>6. Len(cmd[d].seen) <= Len(landed') BY <1>3, <1>4, <4>1
        <4> QED BY <1>6, <3>1, <3>2, <4>4, <4>5, <4>6 DEF Held
      <3>3. CASE ~(cmd[d].pc \in {"resolve", "append", "write", "replace"} /\ ~meddled)
        BY <1>6, <3>1, <3>3 DEF Held
      <3> QED BY <3>2, <3>3
    <2> QED BY <2>1, <2>2
  <1>13. Store'
    <2> SUFFICES ASSUME ~meddled PROVE Store' BY <1>6 DEF Store
    <2>1. /\ Len(seen) <= L /\ \A n \in 1..Len(seen) : seen[n] = landed[n].by
          /\ Kept(had, Len(seen))
          /\ cmd[c].history.status = "whole" /\ Len(cmd[c].history.entries) = Len(had) + 1
      BY <1>0, <1>1 DEF Held, had, seen, L
    <2>2. landed' # <<>> BY <1>3, <1>4, EmptySeq
    <2>3. \A n \in 1..(L + 1) : n \in 1..Len(seen) \/ n \in Len(seen) + 1..L \/ n = L + 1
      BY <1>3
    <2>4. ASSUME NEW n \in 1..(L + 1)
          PROVE  \/ Contains(authors', landed'[n].by)
                 \/ \E m \in n + 1..(L + 1) : ~Contains(landed'[m].seen, landed'[n].by)
      <3>1. CASE n \in 1..Len(seen)
        <4>0. n \in 1..L BY <1>3, <2>1, <3>1
        <4>1. CASE Contains(had, landed[n].by)
          <5>1. PICK i \in 1..Len(had) : had[i] = landed[n].by BY <4>1 DEF Contains
          <5>2. i \in 1..Len(authors') /\ authors'[i] = landed'[n].by
            BY <1>3, <1>4, <1>5, <4>0, <5>1
          <5> QED BY <5>2 DEF Contains
        <4>2. CASE ~Contains(had, landed[n].by)
          <5>1. PICK m \in n + 1..Len(seen) : ~Contains(landed[m].seen, landed[n].by)
            BY <2>1, <3>1, <4>2 DEF Kept
          <5>2. m \in 1..L /\ m \in n + 1..(L + 1) BY <1>3, <2>1, <3>1
          <5> QED BY <1>4, <4>0, <5>1, <5>2
        <4> QED BY <4>1, <4>2
      <3>2. CASE n \in Len(seen) + 1..L
        <4>1. n \in 1..L BY <1>3, <3>2
        <4>2. ~Contains(seen, landed[n].by)
          <5> SUFFICES ASSUME NEW i \in 1..Len(seen), seen[i] = landed[n].by PROVE FALSE
            BY DEF Contains
          <5>1. i \in 1..L /\ i # n BY <1>3, <2>1, <3>2
          <5>2. landed[i].by = landed[n].by BY <2>1
          <5> QED BY <4>1, <5>1, <5>2 DEF IInv, Landings, L
        <4>3. L + 1 \in n + 1..(L + 1) BY <1>3, <4>1
        <4> QED BY <1>4, <1>6, <4>1, <4>2, <4>3
      <3>3. CASE n = L + 1
        <4>1. Len(had) + 1 \in 1..Len(authors') BY <1>3, <1>5
        <4> QED BY <1>4, <1>5, <1>6, <3>3, <4>1 DEF Contains
      <3> QED BY <2>3, <3>1, <3>2, <3>3
    <2>5. \A n \in 1..Len(authors') : n \in 1..Len(had) \/ n = Len(had) + 1 BY <1>3, <1>5
    <2>6. \A n \in 1..Len(had) : \E i \in 1..L : landed'[i].by = had[n]
      <3>1. \A n \in 1..Len(had) : \E i \in 1..Len(seen) : landed[i].by = had[n] BY <2>1 DEF Kept
      <3>2. \A i \in 1..Len(seen) : i \in 1..L BY <1>3, <2>1
      <3> QED BY <1>4, <3>1, <3>2
    <2>7. L + 1 \in 1..(L + 1) /\ \A i \in 1..L : i \in 1..(L + 1) /\ i < L + 1 BY <1>3
    <2>8. \A n \in 1..Len(authors') : \E i \in 1..(L + 1) : landed'[i].by = authors'[n]
      BY <1>4, <1>5, <1>6, <2>5, <2>6, <2>7
    <2>9. ASSUME NEW m \in 1..Len(authors'), NEW n \in 1..Len(authors'), m < n
          PROVE  \E i, j \in 1..(L + 1) :
                    i < j /\ landed'[i].by = authors'[m] /\ landed'[j].by = authors'[n]
      <3>1. m \in 1..Len(had) BY <1>3, <1>5, <2>9
      <3>2. CASE n \in 1..Len(had)
        <4>1. PICK i, j \in 1..Len(seen) :
                i < j /\ landed[i].by = had[m] /\ landed[j].by = had[n]
          BY <2>1, <2>9, <3>1, <3>2 DEF Kept
        <4>2. i \in 1..L /\ j \in 1..L BY <1>3, <2>1
        <4> QED BY <1>4, <1>5, <2>7, <3>1, <3>2, <4>1, <4>2
      <3>3. CASE n = Len(had) + 1
        <4>1. PICK i \in 1..L : landed'[i].by = had[m] BY <2>6, <3>1
        <4> QED BY <1>4, <1>5, <1>6, <2>7, <3>1, <3>3, <4>1
      <3> QED BY <2>5, <3>2, <3>3
    <2>10. Kept(authors, Len(landed))'
      <3>1. Len(landed') = L + 1 BY <1>4
      <3>2. \A n \in 1..Len(landed') :
              \/ Contains(authors', landed'[n].by)
              \/ \E m \in n + 1..Len(landed') : ~Contains(landed'[m].seen, landed'[n].by)
        BY <2>4, <3>1
      <3>3. \A n \in 1..Len(authors') : \E i \in 1..Len(landed') : landed'[i].by = authors'[n]
        BY <2>8, <3>1
      <3>4. \A m, n \in 1..Len(authors') : m < n =>
              \E i, j \in 1..Len(landed') :
                i < j /\ landed'[i].by = authors'[m] /\ landed'[j].by = authors'[n]
        <4> SUFFICES ASSUME NEW m \in 1..Len(authors'), NEW n \in 1..Len(authors'), m < n
                     PROVE  \E i, j \in 1..Len(landed') :
                        i < j /\ landed'[i].by = authors'[m] /\ landed'[j].by = authors'[n]
          OBVIOUS
        <4>1. PICK i, j \in 1..(L + 1) :
                i < j /\ landed'[i].by = authors'[m] /\ landed'[j].by = authors'[n]
          BY <2>9
        <4> QED BY <3>1, <4>1
      <3> QED BY <3>2, <3>3, <3>4, Zenon DEF Kept
    <2> QED BY <1>5, <1>6, <2>1, <2>2, <2>10 DEF Store
  <1> QED BY <1>8, <1>10, <1>12, <1>13 DEF IInv

-----------------------------------------------------------------------------
(* The outside, and the theorem.                                           *)

\* What others do to the artifacts and to the file.
LEMMA OutsideStep ==
    ASSUME IInv, ArtifactChanges \/ HistoryChanges \/ UNCHANGED vars
    PROVE  IInv'
  <1>1. CASE HistoryChanges
    <2>1. /\ meddled' = TRUE /\ UNCHANGED <<cmd, landed>> /\ authors' = <<>>
          /\ file' \in {Absent, Damaged}
      BY <1>1 DEF HistoryChanges
    <2>2. file'.entries = <<>> BY <2>1 DEF Absent, Damaged
    <2>3. IsSeq(<<>>) BY DEF IsSeq
    <2>4. Types'
      <3>1. Chain(file')
        <4>1. Len(<<>>) = 0 BY EmptySeq
        <4> QED BY <2>2, <4>1 DEF Chain
      <3> QED BY <2>1, <2>2, <2>3, <3>1 DEF IInv, Types
    <2>5. Landings' BY <2>1 DEF IInv, Landings
    <2>6. \A c \in Commands : Held(cmd[c])' BY <2>1 DEF IInv, Held
    <2> QED BY <2>1, <2>4, <2>5, <2>6 DEF IInv, Store
  <1>2. CASE UNCHANGED <<file, cmd, authors, landed, meddled>>
    <2>1. Types' BY <1>2 DEF IInv, Types
    <2>2. Store' BY <1>2 DEF IInv, Store, Kept
    <2>3. Landings' BY <1>2 DEF IInv, Landings
    <2>4. ASSUME NEW c \in Commands PROVE Held(cmd[c])'
      <3>1. cmd'[c] = cmd[c] /\ Held(cmd[c]) BY <1>2 DEF IInv
      <3>2. landed' = landed /\ meddled' = meddled BY <1>2
      <3>3. CASE meddled BY <3>1, <3>2, <3>3 DEF Held
      <3>4. CASE ~meddled BY <3>1, <3>2, <3>4 DEF Held, Kept
      <3> QED BY <3>3, <3>4
    <2> QED BY <2>1, <2>2, <2>3, <2>4 DEF IInv
  <1> QED BY <1>1, <1>2 DEF ArtifactChanges, vars

\* What a command holds, what the file holds and what has landed fit together.
THEOREM InductiveInvariant == Spec => []IInv
  <1>1. IInv /\ [Next]_vars => IInv'
    BY StartStep, ReadHistoryStep, ResolveStep, AppendStep, WriteTemporaryStep, ReplaceStep,
       EndStep, OutsideStep DEF Next
  <1> QED BY <1>1, InitIInv, PTL DEF Spec

\* No addition to a history is lost but by one that had read the file before, for
\* any number of commands (append_history_entry, history/append.py:146).
THEOREM KeptTheorem == Spec => []EntriesAreKept
  <1>1. IInv => EntriesAreKept
    <2> SUFFICES ASSUME IInv, ~meddled PROVE EntriesAreKept BY DEF EntriesAreKept
    <2>1. DOMAIN landed = 1..Len(landed) /\ DOMAIN authors = 1..Len(authors)
      BY SeqFacts DEF IInv, Types
    <2>2. Kept(authors, Len(landed)) BY DEF IInv, Store
    <2>3. file.status = (IF landed = <<>> THEN "absent" ELSE "whole") /\ Len(file.entries) = Len(authors)
      BY DEF IInv, Store
    <2>4. \A n \in DOMAIN landed :
            \/ Contains(authors, landed[n].by)
            \/ \E m \in n + 1..Len(landed) : ~Contains(landed[m].seen, landed[n].by)
      BY <2>1, <2>2 DEF Kept
    <2>5. \A m, n \in DOMAIN authors : m < n =>
            \E k, l \in DOMAIN landed :
                k < l /\ landed[k].by = authors[m] /\ landed[l].by = authors[n]
      <3> SUFFICES ASSUME NEW m \in DOMAIN authors, NEW n \in DOMAIN authors, m < n
                   PROVE  \E k, l \in DOMAIN landed :
                            k < l /\ landed[k].by = authors[m] /\ landed[l].by = authors[n]
        OBVIOUS
      <3>0. m \in 1..Len(authors) /\ n \in 1..Len(authors) BY <2>1
      <3>1. PICK k, l \in 1..Len(landed) :
              k < l /\ landed[k].by = authors[m] /\ landed[l].by = authors[n]
        BY <2>2, <3>0, Zenon DEF Kept
      <3> QED BY <2>1, <3>1
    <2> QED BY <2>3, <2>4, <2>5, Zenon DEF EntriesAreKept
  <1> QED BY <1>1, InductiveInvariant, PTL

-----------------------------------------------------------------------------
(* The policy of a history.                                                *)

\* The first of the authors has ended, and asked for the policy.
AskedFirst(by, policy) ==
    by # <<>> /\ by[1] \in Commands =>
        cmd[by[1]].pc = "ended" /\ cmd[by[1]].asked.align = policy

\* A history with its authors, and its policy is that of the first.
Authored(h, by) ==
    /\ h.status = "whole" <=> by # <<>>
    /\ AskedFirst(by, h.policy)

\* What a command has read is authored; what it is about to write will be, with
\* the command as first author if there was none.
HoldsAuthored(r) ==
    /\ r.pc \in {"resolve", "append"} => Authored(r.history, r.had)
    /\ r.pc \in {"write", "replace"} =>
        /\ r.history.status = "whole"
        /\ IF r.had = <<>> THEN r.history.policy = r.asked.align
                           ELSE AskedFirst(r.had, r.history.policy)

PolicyInv == Authored(file, authors) /\ \A c \in Commands : HoldsAuthored(cmd[c])

\* A step of one command leaves what the others hold authored.
LEMMA OthersAuthored ==
    ASSUME IInv, PolicyInv, NEW c \in Commands, NEW r, Step(c, r), cmd[c].pc # "ended"
    PROVE  /\ cmd'[c] = r
           /\ \A by, policy : AskedFirst(by, policy) => AskedFirst(by, policy)'
           /\ \A h, by : Authored(h, by) => Authored(h, by)'
           /\ \A d \in Commands \ {c} : HoldsAuthored(cmd[d])'
  <1>1. /\ cmd'[c] = r
        /\ \A d \in Commands \ {c} : cmd'[d] = cmd[d]
    BY DEF Step, IInv, Types
  <1>2. ASSUME NEW by, NEW policy, AskedFirst(by, policy)
        PROVE  AskedFirst(by, policy)'
    BY <1>1, <1>2 DEF AskedFirst
  <1>3. ASSUME NEW h, NEW by, Authored(h, by)
        PROVE  Authored(h, by)'
    BY <1>2, <1>3 DEF Authored
  <1>4. ASSUME NEW d \in Commands \ {c}
        PROVE  HoldsAuthored(cmd[d])'
    <2>1. HoldsAuthored(cmd[d]) /\ cmd'[d] = cmd[d] BY <1>1 DEF PolicyInv
    <2>2. AskedFirst(cmd[d].had, cmd[d].history.policy) =>
            AskedFirst(cmd[d].had, cmd[d].history.policy)'
      BY <1>1, <2>1 DEF AskedFirst
    <2> QED BY <2>1, <2>2 DEF HoldsAuthored, Authored
  <1> QED BY <1>1, <1>2, <1>3, <1>4

\* A step that leaves the file alone: it is the command's record that counts.
LEMMA QuietAuthored ==
    ASSUME IInv, PolicyInv, NEW c \in Commands, NEW r, Step(c, r), cmd[c].pc # "ended",
           UNCHANGED <<file, authors>>, HoldsAuthored(cmd[c])' \/ r.pc \notin
                {"resolve", "append", "write", "replace"}
    PROVE  PolicyInv'
  <1>1. HoldsAuthored(cmd[c])' BY OthersAuthored DEF HoldsAuthored
  <1>2. Authored(file, authors)'
    <2>1. Authored(file, authors) BY DEF PolicyInv
    <2>2. file' = file /\ authors' = authors OBVIOUS
    <2> QED BY <2>1, <2>2, OthersAuthored DEF Authored, AskedFirst
  <1> QED BY <1>1, <1>2, OthersAuthored DEF PolicyInv

\* The steps that change what a command holds of the file.
LEMMA AdditionAuthored ==
    ASSUME IInv, PolicyInv, NEW c \in Commands,
           ReadHistory(c) \/ ResolveHistory(c) \/ AppendEntry(c) \/ WriteTemporary(c)
    PROVE  PolicyInv'
  <1> USE Fields DEF Disk
  <1>0. /\ cmd[c].pc \in {"history", "resolve", "append", "write"}
        /\ DOMAIN cmd[c] = DOMAIN Idle /\ HoldsAuthored(cmd[c]) /\ Authored(file, authors)
        /\ UNCHANGED <<file, authors>>
    BY DEF ReadHistory, ResolveHistory, AppendEntry, WriteTemporary, At, IInv, Types, PolicyInv
  <1>1. CASE Fail(c)
    BY <1>0, <1>1, QuietAuthored, EndedFacts DEF Fail
  <1>2. CASE Step(c, Ended(c, "ok"))
    BY <1>0, <1>2, QuietAuthored, EndedFacts
  <1>3. ASSUME NEW r, Step(c, r), HoldsAuthored(r)
        PROVE  PolicyInv'
    <2>1. cmd'[c] = r BY <1>3 DEF Step, IInv, Types
    <2>2. \A by, policy : AskedFirst(by, policy) => AskedFirst(by, policy)'
      BY <1>0, <1>3, OthersAuthored
    <2>3. HoldsAuthored(cmd[c])'
      BY <1>3, <2>1, <2>2 DEF HoldsAuthored, Authored, AskedFirst
    <2> QED BY <1>0, <1>3, <2>3, QuietAuthored
  <1>4. CASE ReadHistory(c) /\ ~Fail(c)
    <2> DEFINE r == [cmd[c] EXCEPT !.history = file, !.pc = "resolve",
                         !.seen = [n \in DOMAIN landed |-> landed[n].by], !.had = authors]
    <2>1. r.pc = "resolve" /\ r.history = file /\ r.had = authors BY <1>0
    <2>2. Step(c, r) BY <1>4 DEF ReadHistory
    <2> HIDE DEF r
    <2> QED BY <1>0, <1>3, <2>1, <2>2 DEF HoldsAuthored
  <1>5. CASE ResolveHistory(c) /\ ~Fail(c) /\ ~Step(c, Ended(c, "ok"))
    <2>1. \E pc \in {"append", "evolve"} : \E states :
              Step(c, [cmd[c] EXCEPT !.pc = pc, !.states = states])
      BY <1>5 DEF ResolveHistory
    <2> PICK pc \in {"append", "evolve"} :
            \E states : Step(c, [cmd[c] EXCEPT !.pc = pc, !.states = states]) BY <2>1
    <2> PICK states : Step(c, [cmd[c] EXCEPT !.pc = pc, !.states = states]) OBVIOUS
    <2> DEFINE r == [cmd[c] EXCEPT !.pc = pc, !.states = states]
    <2>2. r.pc = pc /\ r.history = cmd[c].history /\ r.had = cmd[c].had BY <1>0
    <2>3. Step(c, r) /\ cmd[c].pc = "resolve" BY <1>5 DEF ResolveHistory, At
    <2> HIDE DEF r
    <2> QED BY <1>0, <1>3, <2>2, <2>3 DEF HoldsAuthored
  <1>6. CASE AppendEntry(c) /\ ~Fail(c)
    <2> DEFINE policy == PolicyOf(cmd[c].asked, cmd[c].history)
               h == Whole(policy, Append(cmd[c].history.entries, NewEntry(c)))
               r == [cmd[c] EXCEPT !.pc = "write", !.states = <<>>, !.history = h]
    <2>1. /\ r.pc = "write" /\ r.history = h /\ r.had = cmd[c].had /\ r.asked = cmd[c].asked
          /\ h.status = "whole" /\ h.policy = policy
      BY <1>0 DEF Whole
    <2>2. Step(c, r) /\ cmd[c].pc = "append" BY <1>6 DEF AppendEntry, At
    <2>3. IF cmd[c].had = <<>> THEN policy = cmd[c].asked.align
                               ELSE AskedFirst(cmd[c].had, policy)
      BY <1>0, <2>2 DEF HoldsAuthored, Authored, PolicyOf
    <2> HIDE DEF r, h, policy
    <2> QED BY <1>3, <2>1, <2>2, <2>3 DEF HoldsAuthored
  <1>7. CASE WriteTemporary(c)
    <2> DEFINE r == [cmd[c] EXCEPT !.pc = "replace"]
    <2>1. /\ r.pc = "replace" /\ r.history = cmd[c].history /\ r.had = cmd[c].had
          /\ r.asked = cmd[c].asked
      BY <1>0
    <2>2. Step(c, r) /\ cmd[c].pc = "write" BY <1>7 DEF WriteTemporary, At
    <2> HIDE DEF r
    <2> QED BY <1>0, <1>3, <2>1, <2>2 DEF HoldsAuthored
  <1> QED BY <1>1, <1>2, <1>4, <1>5, <1>6, <1>7

\* The replacement: the file is authored as the command's reading was, or by it.
LEMMA ReplaceAuthored ==
    ASSUME IInv, PolicyInv, NEW c \in Commands, ReplaceFile(c)
    PROVE  PolicyInv'
  <1>0. /\ cmd[c].pc = "replace" /\ HoldsAuthored(cmd[c]) /\ IsSeq(cmd[c].had)
        /\ Step(c, Ended(c, "ok"))
        /\ file' = cmd[c].history /\ authors' = Append(cmd[c].had, c)
    BY DEF ReplaceFile, At, IInv, Held, PolicyInv
  <1>1. /\ cmd'[c] = Ended(c, "ok")
        /\ \A by, policy : AskedFirst(by, policy) => AskedFirst(by, policy)'
        /\ \A d \in Commands \ {c} : HoldsAuthored(cmd[d])'
    BY <1>0, OthersAuthored
  <1>2. /\ Ended(c, "ok").pc = "ended" /\ Ended(c, "ok").asked = cmd[c].asked
    BY DEF Ended, Idle
  <1>3. HoldsAuthored(cmd[c])' BY <1>1, <1>2 DEF HoldsAuthored
  <1>4. Authored(file, authors)'
    <2>1. /\ Len(cmd[c].had) \in Nat /\ Len(authors') = Len(cmd[c].had) + 1
          /\ \A n \in 1..Len(cmd[c].had) : authors'[n] = cmd[c].had[n]
          /\ authors'[Len(cmd[c].had) + 1] = c
      BY <1>0, SeqFacts, Appended
    <2>2. authors' # <<>> BY <2>1, EmptySeq
    <2>3. file'.status = "whole" BY <1>0 DEF HoldsAuthored
    <2>4. CASE cmd[c].had = <<>>
      <3>1. authors'[1] = c BY <2>1, <2>4, EmptySeq
      <3>2. file'.policy = cmd[c].asked.align BY <1>0, <2>4 DEF HoldsAuthored
      <3> QED BY <1>1, <1>2, <2>2, <2>3, <3>1, <3>2 DEF Authored, AskedFirst
    <2>5. CASE cmd[c].had # <<>>
      <3>1. Len(cmd[c].had) # 0 BY <1>0, <2>5, EmptySeq DEF IsSeq
      <3>2. authors'[1] = cmd[c].had[1] BY <2>1, <3>1
      <3>3. AskedFirst(cmd[c].had, cmd[c].history.policy) BY <1>0, <2>5 DEF HoldsAuthored
      <3>4. cmd[c].had[1] \in Commands =>
              /\ cmd'[cmd[c].had[1]].pc = "ended"
              /\ cmd'[cmd[c].had[1]].asked.align = cmd[c].history.policy
        BY <1>0, <2>5, <3>3 DEF AskedFirst, Step
      <3> QED BY <1>0, <2>2, <2>3, <3>2, <3>4 DEF Authored, AskedFirst
    <2> QED BY <2>4, <2>5
  <1> QED BY <1>1, <1>3, <1>4 DEF PolicyInv

\* The policy of a history is the one the author of its first entry asked for.
LEMMA PolicyStep == IInv /\ PolicyInv /\ [Next]_vars => PolicyInv'
  <1> SUFFICES ASSUME IInv, PolicyInv, [Next]_vars PROVE PolicyInv' OBVIOUS
  <1>1. ASSUME NEW c \in Commands,
               StartAdd(c) \/ StartRead(c) \/ ReadSnapshot(c) \/ WriteFails(c)
                   \/ Evolve(c) \/ WriteEvolution(c) \/ Kill(c)
        PROVE  PolicyInv'
    <2>1. /\ cmd[c].pc # "ended" /\ DOMAIN cmd[c] = DOMAIN Idle
          /\ UNCHANGED <<file, authors>>
      BY <1>1 DEF StartAdd, StartRead, ReadSnapshot, WriteFails, Evolve, WriteEvolution, Kill,
                  At, Disk, IInv, Types
    <2> DEFINE Away(r) == Step(c, r) /\ r.pc \in {"ended", "snapshot", "history", "output"}
    <2>2. \A outcome : Ended(c, outcome).pc = "ended" BY EndedFacts
    <2>3. \A outcome, told : [Ended(c, outcome) EXCEPT !.result = told].pc = "ended"
      BY <2>2, EndedFacts, Fields
    <2>4. \E r : Away(r)
      <3> USE Fields
      <3>1. CASE StartAdd(c)
        <4>1. PICK request \in Requests :
                \/ Step(c, [Ended(c, "failed") EXCEPT !.name = "add"])
                \/ Step(c, [Idle EXCEPT !.name = "add", !.asked = request, !.pc = "snapshot"])
          BY <3>1 DEF StartAdd
        <4>2. [Ended(c, "failed") EXCEPT !.name = "add"].pc = "ended" BY EndedFacts
        <4>3. [Idle EXCEPT !.name = "add", !.asked = request, !.pc = "snapshot"].pc = "snapshot"
          OBVIOUS
        <4> QED BY <4>1, <4>2, <4>3
      <3>2. CASE StartRead(c)
        <4>1. \A query : [Idle EXCEPT !.name = "show", !.asked = query, !.pc = "history"].pc = "history"
          OBVIOUS
        <4>2. [Idle EXCEPT !.name = "inspect", !.pc = "history"].pc = "history" OBVIOUS
        <4> QED BY <3>2, <4>1, <4>2 DEF StartRead
      <3>3. CASE ReadSnapshot(c)
        <4>1. \A x : [cmd[c] EXCEPT !.snapshot = x, !.pc = "history"].pc = "history" BY <2>1
        <4> QED BY <2>2, <3>3, <4>1 DEF ReadSnapshot, Fail
      <3>4. CASE WriteFails(c) BY <2>2, <3>4 DEF WriteFails, Fail
      <3>5. CASE Evolve(c)
        <4>1. \A told : [cmd[c] EXCEPT !.pc = "output", !.result = told].pc = "output" BY <2>1
        <4>2. \/ Fail(c)
              \/ \E told : \/ Step(c, [Ended(c, "ok") EXCEPT !.result = told])
                            \/ Step(c, [cmd[c] EXCEPT !.pc = "output", !.result = told])
          BY <3>5, Zenon DEF Evolve
        <4>3. ASSUME NEW told, Step(c, [Ended(c, "ok") EXCEPT !.result = told])
              PROVE  \E r : Away(r)
          BY <2>3, <4>3
        <4>4. ASSUME NEW told, Step(c, [cmd[c] EXCEPT !.pc = "output", !.result = told])
              PROVE  \E r : Away(r)
          BY <4>1, <4>4
        <4>5. CASE Fail(c) BY <2>2, <4>5 DEF Fail
        <4> QED BY <4>2, <4>3, <4>4, <4>5
      <3>6. CASE WriteEvolution(c) BY <2>2, <2>3, <3>6 DEF WriteEvolution
      <3>7. CASE Kill(c) BY <2>3, <3>7 DEF Kill
      <3> QED BY <1>1, <3>1, <3>2, <3>3, <3>4, <3>5, <3>6, <3>7
    <2>5. PICK r : Step(c, r) /\ r.pc \notin {"resolve", "append", "write", "replace"}
      BY <2>4
    <2> QED BY <2>1, <2>5, QuietAuthored
  <1>2. ASSUME NEW c \in Commands,
               ReadHistory(c) \/ ResolveHistory(c) \/ AppendEntry(c) \/ WriteTemporary(c)
        PROVE  PolicyInv'
    BY <1>2, AdditionAuthored
  <1>3. ASSUME NEW c \in Commands, ReplaceFile(c) PROVE PolicyInv'
    BY <1>3, ReplaceAuthored
  <1>4. CASE HistoryChanges
    <2>1. /\ authors' = <<>> /\ file'.status # "whole" /\ cmd' = cmd
      BY <1>4 DEF HistoryChanges, Absent, Damaged
    <2> QED BY <2>1 DEF PolicyInv, Authored, AskedFirst, HoldsAuthored
  <1>5. CASE UNCHANGED <<file, cmd, authors>>
    BY <1>5 DEF PolicyInv, Authored, AskedFirst, HoldsAuthored
  <1> QED BY <1>1, <1>2, <1>3, <1>4, <1>5 DEF Next, ArtifactChanges, vars

LEMMA PolicyInit == Init => PolicyInv
  <1> SUFFICES ASSUME Init PROVE PolicyInv OBVIOUS
  <1>1. PICK e \in Earlier : file = e.file /\ authors = e.by
    BY DEF Init
  <1>2. IsSeq(e.by) /\ (e.file.status = "whole" <=> e.by # <<>>) /\ Range(e.by) \cap Commands = {}
    BY EarlierAssumption DEF IsSeq
  <1>3. e.by # <<>> => e.by[1] \notin Commands
    <2> SUFFICES ASSUME e.by # <<>> PROVE e.by[1] \notin Commands OBVIOUS
    <2>1. 1 \in DOMAIN e.by BY <1>2, EmptySeq, SeqFacts DEF IsSeq
    <2> QED BY <1>2, <2>1 DEF Range
  <1>4. \A c \in Commands : HoldsAuthored(cmd[c])
    BY Fields DEF Init, HoldsAuthored
  <1> QED BY <1>1, <1>2, <1>3, <1>4 DEF PolicyInv, Authored, AskedFirst

\* The policy of a history is, whoever wrote it last, that of its first entry.
THEOREM PolicyTheorem == Spec => []PolicyInv
  BY InductiveInvariant, PolicyInit, PolicyStep, PTL DEF Spec

-----------------------------------------------------------------------------

\* What was added to a history resolves while its artifacts are intact, but for a
\* first snapshot that does not project (history/append.py:192).
THEOREM ResolvesTheorem == Spec => []AddedHistoriesResolve
  <1>1. IInv /\ PolicyInv => AddedHistoriesResolve
    <2> DEFINE entries == file.entries
    <2> SUFFICES ASSUME IInv, PolicyInv, file.status = "whole"
                 PROVE  AddedHistoriesResolve
      BY DEF AddedHistoriesResolve
    <2>1. Chain(file) /\ Len(entries) \in Nat /\ DOMAIN entries = 1..Len(entries)
      BY SeqFacts DEF IInv, Types
    <2>2. ASSUME \A n \in DOMAIN entries : EntryIntact(artifacts, entries[n])
          PROVE  Resolves(artifacts, file)
                    \/ (Len(entries) = 1 /\ ~Projects(entries[1].state.snapshot))
      <3>1. CASE Len(entries) = 1
        BY <2>1, <2>2, <3>1 DEF Resolves, Chain
      <3>2. CASE Len(entries) # 1
        <4>1. \A n \in 1..Len(entries) : Projects(entries[n].state.snapshot)
          <5> SUFFICES ASSUME NEW n \in 1..Len(entries) PROVE Projects(entries[n].state.snapshot)
            OBVIOUS
          <5>1. CASE n < Len(entries)
            <6>1. n \in 1..Len(entries) - 1 BY <2>1, <5>1
            <6> QED BY <2>1, <6>1 DEF Chain, Comparable
          <5>2. CASE n = Len(entries)
            <6>1. PICK m \in 1..Len(entries) - 1 : m + 1 = n
              <7> HIDE DEF entries
              <7>1. Len(entries) - 1 \in 1..Len(entries) - 1 /\ Len(entries) - 1 + 1 = n
                BY <2>1, <3>2, <5>2
              <7> QED BY <7>1
            <6> QED BY <2>1, <6>1 DEF Chain, Comparable
          <5> QED BY <2>1, <5>1, <5>2
        <4> QED BY <2>1, <2>2, <4>1 DEF Resolves, Chain
      <3> QED BY <3>1, <3>2
    <2>3. \A n \in 1..Len(entries) - 1 : entries[n].state # entries[n + 1].state
      BY <2>1 DEF Chain
    <2>4. /\ authors # <<>>
          /\ authors[1] \in Commands => file.policy = cmd[authors[1]].asked.align
      BY DEF PolicyInv, Authored, AskedFirst
    <2> QED BY <2>2, <2>3, <2>4 DEF AddedHistoriesResolve
  <1> QED BY <1>1, InductiveInvariant, PolicyTheorem, PTL

-----------------------------------------------------------------------------
(* The transitions between the states of a history.                       *)

\* A dimension that changed holds its two values.
LEMMA DimensionFacts ==
    ASSUME NEW available, NEW p, NEW q
    PROVE  /\ Dimension(available, p, q).available = available
           /\ Dimension(available, p, q).change # <<>> =>
                Dimension(available, p, q).change = <<p, q>>
  BY DEF Dimension

\* What the context of a transition says of a property, by the states it is between.
LEMMA ContextChangeFacts ==
    ASSUME NEW b, NEW c, NEW object, NEW property, NEW x, x = ContextChange(b, c, object, property)
    PROVE  /\ x.property = property
           /\ x.provenance.available = <<HasProvenance(b), HasProvenance(c)>>
           /\ x.effective.change # <<>> => x.effective.change =
                <<EffectiveValue(b, object, property), EffectiveValue(c, object, property)>>
           /\ x.conflict.change # <<>> => x.conflict.change =
                <<ConflictState(b, object, property), ConflictState(c, object, property)>>
  <1> DEFINE traced == <<HasProvenance(b), HasProvenance(c)>>
             decided == <<HasDecision(b), HasDecision(c)>>
  <1>1. /\ x.property = property
        /\ x.provenance = Dimension(traced, ValueGroups(b, object, property),
                                            ValueGroups(c, object, property))
        /\ x.conflict = Dimension(decided, ConflictState(b, object, property),
                                           ConflictState(c, object, property))
        /\ x.effective = Dimension(decided, EffectiveValue(b, object, property),
                                            EffectiveValue(c, object, property))
    BY DEF ContextChange
  <1> HIDE DEF traced, decided
  <1>2. x.provenance.available = traced BY <1>1, DimensionFacts
  <1>3. x.effective.change # <<>> => x.effective.change =
                <<EffectiveValue(b, object, property), EffectiveValue(c, object, property)>>
    BY <1>1, DimensionFacts
  <1>4. x.conflict.change # <<>> => x.conflict.change =
                <<ConflictState(b, object, property), ConflictState(c, object, property)>>
    BY <1>1, DimensionFacts
  <1> QED BY <1>1, <1>2, <1>3, <1>4 DEF traced

\* Every element of the context of a transition is the change of one property.
LEMMA ContextBranchFacts ==
    ASSUME NEW b, NEW c, NEW object, NEW property, NEW x \in ContextBranch(b, c, object, property)
    PROVE  x = ContextChange(b, c, object, x.property)
  <1>1. CASE property # Nothing
    <2>1. x = ContextChange(b, c, object, property) BY <1>1 DEF ContextBranch
    <2>2. x.property = property BY <2>1, ContextChangeFacts
    <2> QED BY <2>1, <2>2
  <1>2. CASE property = Nothing
    <2>1. PICK p \in ContextPaths(b, object) \cup ContextPaths(c, object) :
            x = ContextChange(b, c, object, p)
      BY <1>2 DEF ContextBranch
    <2>2. x.property = p BY <2>1, ContextChangeFacts
    <2> QED BY <2>1, <2>2
  <1> QED BY <1>1, <1>2

\* The objects a comparison reports as added are not in its first snapshot, and
\* those it reports as removed are not in its second.
LEMMA ChangeFacts ==
    ASSUME NEW b, NEW c, NEW x \in Compared(b, c).changes
    PROVE  /\ x.change = "added" => x.object \notin DOMAIN Projection(b)
           /\ x.change = "removed" => x.object \notin DOMAIN Projection(c)
  <1> DEFINE left == Projection(b) right == Projection(c)
  <1>1. x \in ObjectChanges(left, right) BY DEF Compared
  <1> HIDE DEF left, right
  <1>2. CASE x \in {ObjectChange("added", i, {}) : i \in DOMAIN right \ DOMAIN left}
    <2>1. PICK i \in DOMAIN right \ DOMAIN left : x = ObjectChange("added", i, {}) BY <1>2
    <2>2. x.change = "added" /\ x.object = i BY <2>1 DEF ObjectChange
    <2> QED BY <2>2 DEF left
  <1>3. CASE x \in {ObjectChange("removed", i, {}) : i \in DOMAIN left \ DOMAIN right}
    <2>1. PICK i \in DOMAIN left \ DOMAIN right : x = ObjectChange("removed", i, {}) BY <1>3
    <2>2. x.change = "removed" /\ x.object = i BY <2>1 DEF ObjectChange
    <2> QED BY <2>2 DEF right
  <1>4. CASE x \in {ObjectChange("changed", i, DiffProperties(left[i], right[i])) :
                      i \in {j \in DOMAIN left \cap DOMAIN right :
                                DiffProperties(left[j], right[j]) # {}}}
    <2>1. PICK i : x = ObjectChange("changed", i, DiffProperties(left[i], right[i])) BY <1>4
    <2>2. x.change = "changed" BY <2>1 DEF ObjectChange
    <2> QED BY <2>2
  <1> QED BY <1>1, <1>2, <1>3, <1>4 DEF ObjectChanges

\* A transition reports the value the property has in each of its two states.
LEMMA SnapshotBranchFacts ==
    ASSUME NEW b, NEW c, NEW object, NEW property
    PROVE  /\ SnapshotBranch(b, c, object, property).baseline = PropertyState(b, object, property)
           /\ SnapshotBranch(b, c, object, property).candidate = PropertyState(c, object, property)
  <1> DEFINE reported == {x \in Compared(b.snapshot, c.snapshot).changes : x.object = object}
             known == \E s \in {b, c} : object \in DOMAIN Projection(s.snapshot)
             added == \E x \in reported : x.change = "added"
             removed == \E x \in reported : x.change = "removed"
  <1>1. added => object \notin DOMAIN Projection(b.snapshot) BY ChangeFacts
  <1>2. removed => object \notin DOMAIN Projection(c.snapshot) BY ChangeFacts
  <1>3. ASSUME NEW s, object \notin DOMAIN Projection(s.snapshot)
        PROVE  PropertyState(s, object, property) = Missing
    BY <1>3 DEF PropertyState
  <1>4. SnapshotBranch(b, c, object, property).baseline =
            IF ~known \/ added THEN Missing ELSE PropertyState(b, object, property)
    BY DEF SnapshotBranch
  <1>5. SnapshotBranch(b, c, object, property).candidate =
            IF ~known \/ removed THEN Missing ELSE PropertyState(c, object, property)
    BY DEF SnapshotBranch
  <1>6. ~known => /\ object \notin DOMAIN Projection(b.snapshot)
                  /\ object \notin DOMAIN Projection(c.snapshot)
    OBVIOUS
  <1> HIDE DEF known, added, removed, reported
  <1>7. ~known \/ added => PropertyState(b, object, property) = Missing BY <1>1, <1>3, <1>6
  <1>8. ~known \/ removed => PropertyState(c, object, property) = Missing BY <1>2, <1>3, <1>6
  <1> QED BY <1>4, <1>5, <1>7, <1>8

-----------------------------------------------------------------------------
(* What `show` tells: the transitions of the states it has resolved.       *)

\* Each transition starts where the one before it ended.
Chained(told) ==
    \A n \in 1..Len(told) - 1 :
        /\ told[n].snapshot.candidate = told[n + 1].snapshot.baseline
        /\ \A x \in told[n].context, y \in told[n + 1].context :
            x.property = y.property =>
                /\ x.provenance.available[2] = y.provenance.available[1]
                /\ x.effective.change # <<>> /\ y.effective.change # <<>> =>
                    x.effective.change[2] = y.effective.change[1]
                /\ x.conflict.change # <<>> /\ y.conflict.change # <<>> =>
                    x.conflict.change[2] = y.conflict.change[1]

\* A command shows transitions that chain, of a sequence of states.
Tells(r) ==
    /\ Chained(r.result)
    /\ r.pc = "evolve" => IsSeq(r.states)

TellInv == \A c \in Commands : Tells(cmd[c])

\* The transitions of any sequence of states chain, whatever is asked.
LEMMA TransitionsAreChained ==
    ASSUME NEW states, NEW query, IsSeq(states)
    PROVE  Chained(Transitions(states, query))
  <1> DEFINE told == Transitions(states, query)
  <1>1. Len(states) \in Nat BY SeqFacts
  <1>2. told = [n \in 1..Len(states) - 1 |-> Transition(states[n], states[n + 1], query)]
    BY DEF Transitions
  <1> HIDE DEF told
  <1>3. CASE Len(states) = 0
    <2>1. Len(told) = 0
      <3>1. 1..Len(states) - 1 = 1..0 BY <1>3
      <3>2. told = [n \in 1..0 |-> told[n]] BY <1>2, <3>1
      <3> QED BY <3>2, FunIsSeq
    <2>2. 1..Len(told) - 1 = {} BY <2>1
    <2> QED BY <2>2 DEF Chained, told
  <1>4. CASE Len(states) # 0
    <2>1. Len(states) - 1 \in Nat BY <1>1, <1>4
    <2>2. Len(told) = Len(states) - 1
      <3>1. told = [n \in 1..Len(states) - 1 |-> told[n]] BY <1>2
      <3> QED BY <2>1, <3>1, FunIsSeq
    <2>3. ASSUME NEW n \in 1..Len(told) - 1
          PROVE  /\ told[n].snapshot.candidate = told[n + 1].snapshot.baseline
                 /\ \A x \in told[n].context, y \in told[n + 1].context :
                     x.property = y.property =>
                         /\ x.provenance.available[2] = y.provenance.available[1]
                         /\ x.effective.change # <<>> /\ y.effective.change # <<>> =>
                             x.effective.change[2] = y.effective.change[1]
                         /\ x.conflict.change # <<>> /\ y.conflict.change # <<>> =>
                             x.conflict.change[2] = y.conflict.change[1]
      <3> DEFINE b == states[n] c == states[n + 1] d == states[(n + 1) + 1]
                 o == query.object g == query.governance p == query.property
      <3>1. n \in 1..Len(states) - 1 /\ n + 1 \in 1..Len(states) - 1 BY <2>1, <2>2
      <3>2. told[n] = Transition(b, c, query) /\ told[n + 1] = Transition(c, d, query)
        BY <1>2, <3>1
      <3>3. /\ told[n].snapshot = SnapshotBranch(b, c, o, p)
            /\ told[n].context = ContextBranch(b, c, g, p)
            /\ told[n + 1].snapshot = SnapshotBranch(c, d, o, p)
            /\ told[n + 1].context = ContextBranch(c, d, g, p)
        BY <3>2 DEF Transition
      <3> HIDE DEF b, c, d, o, g, p
      <3>4. told[n].snapshot.candidate = told[n + 1].snapshot.baseline
        BY <3>3, SnapshotBranchFacts
      <3>5. ASSUME NEW x \in told[n].context, NEW y \in told[n + 1].context,
                   x.property = y.property
            PROVE  /\ x.provenance.available[2] = y.provenance.available[1]
                   /\ x.effective.change # <<>> /\ y.effective.change # <<>> =>
                       x.effective.change[2] = y.effective.change[1]
                   /\ x.conflict.change # <<>> /\ y.conflict.change # <<>> =>
                       x.conflict.change[2] = y.conflict.change[1]
        <4>1. x = ContextChange(b, c, g, x.property) BY <3>3, ContextBranchFacts
        <4>2. y = ContextChange(c, d, g, x.property) BY <3>3, <3>5, ContextBranchFacts
        <4>3. /\ x.provenance.available = <<HasProvenance(b), HasProvenance(c)>>
              /\ x.effective.change # <<>> => x.effective.change =
                   <<EffectiveValue(b, g, x.property), EffectiveValue(c, g, x.property)>>
              /\ x.conflict.change # <<>> => x.conflict.change =
                   <<ConflictState(b, g, x.property), ConflictState(c, g, x.property)>>
          BY <4>1, ContextChangeFacts
        <4>4. /\ y.provenance.available = <<HasProvenance(c), HasProvenance(d)>>
              /\ y.effective.change # <<>> => y.effective.change =
                   <<EffectiveValue(c, g, x.property), EffectiveValue(d, g, x.property)>>
              /\ y.conflict.change # <<>> => y.conflict.change =
                   <<ConflictState(c, g, x.property), ConflictState(d, g, x.property)>>
          BY <4>2, ContextChangeFacts
        <4>5. x.provenance.available[2] = y.provenance.available[1] BY <4>3, <4>4
        <4>6. ASSUME x.effective.change # <<>>, y.effective.change # <<>>
              PROVE  x.effective.change[2] = y.effective.change[1]
          BY <4>3, <4>4, <4>6
        <4>7. ASSUME x.conflict.change # <<>>, y.conflict.change # <<>>
              PROVE  x.conflict.change[2] = y.conflict.change[1]
          BY <4>3, <4>4, <4>7
        <4> QED BY <4>5, <4>6, <4>7
      <3> QED BY <3>4, <3>5
    <2> QED BY <2>3 DEF Chained, told
  <1> QED BY <1>3, <1>4

\* A command that shows nothing tells no untruth.
LEMMA NothingTold == Chained(<<>>)
  <1>1. Len(<<>>) = 0 BY EmptySeq
  <1> QED BY <1>1 DEF Chained

\* What one step of a command makes of what it tells: a step that leaves the
\* command alone, or sets its record to one that tells what chains.
LEMMA TellStep ==
    ASSUME TellInv, NEW c \in Commands, NEW r, Step(c, r), Tells(r), DOMAIN cmd = Commands
    PROVE  TellInv'
  <1>1. /\ cmd'[c] = r /\ \A d \in Commands \ {c} : cmd'[d] = cmd[d]
    BY DEF Step
  <1>2. ASSUME NEW d \in Commands PROVE Tells(cmd'[d])
    <2>1. CASE d = c BY <1>1, <2>1
    <2>2. CASE d # c BY <1>1, <2>2 DEF TellInv
    <2> QED BY <2>1, <2>2
  <1>3. \A d \in Commands : Tells(cmd[d])' <=> Tells(cmd'[d]) BY DEF Tells, Chained
  <1> QED BY <1>2, <1>3 DEF TellInv

\* A record that tells nothing, or what the command told before.
LEMMA ToldBefore ==
    ASSUME NEW r, NEW s, Tells(s), r.result = s.result, r.pc # "evolve"
    PROVE  Tells(r)
  BY DEF Tells

LEMMA ToldNothing ==
    ASSUME NEW r, r.result = <<>>, r.pc # "evolve"
    PROVE  Tells(r)
  BY NothingTold DEF Tells

\* A command that ends tells what it told before.
LEMMA EndedTells ==
    ASSUME NEW c, NEW outcome, Tells(cmd[c])
    PROVE  Tells(Ended(c, outcome))
  <1>1. Ended(c, outcome).result = cmd[c].result /\ Ended(c, outcome).pc = "ended"
    BY DEF Ended, Idle
  <1> QED BY <1>1, ToldBefore

\* A step of a command keeps its transitions chained.
LEMMA CommandTells ==
    ASSUME IInv, TellInv, NEW c \in Commands,
           \/ StartAdd(c) \/ StartRead(c) \/ ReadSnapshot(c) \/ ReadHistory(c) \/ ResolveHistory(c)
           \/ AppendEntry(c) \/ WriteTemporary(c) \/ ReplaceFile(c) \/ WriteFails(c)
           \/ Evolve(c) \/ WriteEvolution(c) \/ Kill(c)
    PROVE  TellInv'
  <1>0. /\ DOMAIN cmd = Commands /\ DOMAIN cmd[c] = DOMAIN Idle
        /\ Tells(cmd[c])
    BY DEF IInv, Types, TellInv
  <1>1. CASE Fail(c)
    BY <1>0, <1>1, EndedTells, TellStep DEF Fail
  <1>2. ASSUME NEW outcome, Step(c, Ended(c, outcome)) PROVE TellInv'
    BY <1>0, <1>2, EndedTells, TellStep
  <1>3. ASSUME NEW outcome, NEW told, Chained(told),
               Step(c, [Ended(c, outcome) EXCEPT !.result = told])
        PROVE  TellInv'
    <2> DEFINE r == [Ended(c, outcome) EXCEPT !.result = told]
    <2>1. r.result = told /\ r.pc = "ended" BY DEF Ended, Idle
    <2>2. Step(c, r) BY <1>3
    <2> HIDE DEF r
    <2>3. Tells(r) BY <1>3, <2>1 DEF Tells
    <2> QED BY <1>0, <2>2, <2>3, TellStep
  <1>4. ASSUME NEW r, Step(c, r), r.result = cmd[c].result, r.pc # "evolve" PROVE TellInv'
    BY <1>0, <1>4, ToldBefore, TellStep
  <1>5. CASE StartAdd(c)
    <2>1. PICK request \in Requests :
            \/ Step(c, [Ended(c, "failed") EXCEPT !.name = "add"])
            \/ Step(c, [Idle EXCEPT !.name = "add", !.asked = request, !.pc = "snapshot"])
      BY <1>5 DEF StartAdd
    <2>2. ASSUME Step(c, [Ended(c, "failed") EXCEPT !.name = "add"]) PROVE TellInv'
      <3> DEFINE r == [Ended(c, "failed") EXCEPT !.name = "add"]
      <3>1. r.result = cmd[c].result /\ r.pc = "ended" BY DEF Ended, Idle
      <3> HIDE DEF r
      <3>2. Step(c, r) BY <2>2 DEF r
      <3> QED BY <1>4, <3>1, <3>2
    <2>3. ASSUME Step(c, [Idle EXCEPT !.name = "add", !.asked = request, !.pc = "snapshot"])
          PROVE  TellInv'
      <3> DEFINE r == [Idle EXCEPT !.name = "add", !.asked = request, !.pc = "snapshot"]
      <3>1. r.result = <<>> /\ r.pc = "snapshot" BY DEF Idle
      <3> HIDE DEF r
      <3>2. Step(c, r) BY <2>3 DEF r
      <3> QED BY <1>0, <3>1, <3>2, ToldNothing, TellStep
    <2> QED BY <2>1, <2>2, <2>3
  <1>6. CASE StartRead(c)
    <2>1. PICK r : Step(c, r) /\ r.result = <<>> /\ r.pc = "history"
      <3>1. ASSUME NEW query
            PROVE  LET r == [Idle EXCEPT !.name = "show", !.asked = query, !.pc = "history"]
                   IN  r.result = <<>> /\ r.pc = "history"
        BY DEF Idle
      <3>2. LET r == [Idle EXCEPT !.name = "inspect", !.pc = "history"]
            IN  r.result = <<>> /\ r.pc = "history"
        BY DEF Idle
      <3> QED BY <1>6, <3>1, <3>2 DEF StartRead
    <2> QED BY <1>0, <2>1, ToldNothing, TellStep
  <1>7. CASE ReadSnapshot(c)
    <2>1. ASSUME NEW x, Step(c, [cmd[c] EXCEPT !.snapshot = x, !.pc = "history"]) PROVE TellInv'
      <3> DEFINE r == [cmd[c] EXCEPT !.snapshot = x, !.pc = "history"]
      <3>1. r.result = cmd[c].result /\ r.pc = "history" BY <1>0, Fields
      <3> HIDE DEF r
      <3>2. Step(c, r) BY <2>1 DEF r
      <3> QED BY <1>4, <3>1, <3>2
    <2> QED BY <1>1, <1>7, <2>1 DEF ReadSnapshot
  <1>8. CASE ReadHistory(c)
    <2>1. ASSUME NEW seen,
                 Step(c, [cmd[c] EXCEPT !.history = file, !.pc = "resolve",
                                        !.seen = seen, !.had = authors])
          PROVE  TellInv'
      <3> DEFINE r == [cmd[c] EXCEPT !.history = file, !.pc = "resolve",
                                     !.seen = seen, !.had = authors]
      <3>1. r.result = cmd[c].result /\ r.pc = "resolve" BY <1>0, Fields
      <3> HIDE DEF r
      <3>2. Step(c, r) BY <2>1 DEF r
      <3> QED BY <1>4, <3>1, <3>2
    <2> QED BY <1>1, <1>8, <2>1 DEF ReadHistory
  <1>9. CASE ResolveHistory(c)
    <2> DEFINE entries == cmd[c].history.entries
               states == [n \in DOMAIN entries |-> ResolvedState(entries[n])]
    <2>1. IsSeq(states)
      <3>1. IsSeq(entries) BY <1>9 DEF ResolveHistory, IInv, Held
      <3>2. Len(entries) \in Nat /\ DOMAIN entries = 1..Len(entries) BY <3>1, SeqFacts
      <3>3. states = [n \in 1..Len(entries) |-> states[n]] BY <3>2
      <3> HIDE DEF states, entries
      <3> QED BY <3>2, <3>3, FunIsSeq
    <2>2. ASSUME NEW pc, Step(c, [cmd[c] EXCEPT !.pc = pc, !.states = states]) PROVE TellInv'
      <3> HIDE DEF states
      <3> DEFINE r == [cmd[c] EXCEPT !.pc = pc, !.states = states]
      <3>1. r.result = cmd[c].result /\ r.states = states BY <1>0, Fields
      <3> HIDE DEF r
      <3>2. Tells(r) BY <1>0, <2>1, <3>1 DEF Tells
      <3>3. Step(c, r) BY <2>2 DEF r
      <3> QED BY <1>0, <3>2, <3>3, TellStep
    <2> QED BY <1>1, <1>2, <1>9, <2>2 DEF ResolveHistory
  <1>10. CASE AppendEntry(c)
    <2>1. ASSUME NEW h,
                 Step(c, [cmd[c] EXCEPT !.pc = "write", !.states = <<>>, !.history = h])
          PROVE  TellInv'
      <3> DEFINE r == [cmd[c] EXCEPT !.pc = "write", !.states = <<>>, !.history = h]
      <3>1. r.result = cmd[c].result /\ r.pc = "write" BY <1>0, Fields
      <3> HIDE DEF r
      <3>2. Step(c, r) BY <2>1 DEF r
      <3> QED BY <1>4, <3>1, <3>2
    <2> QED BY <1>1, <1>10, <2>1 DEF AppendEntry
  <1>11. CASE WriteTemporary(c)
    <2> DEFINE r == [cmd[c] EXCEPT !.pc = "replace"]
    <2>1. r.result = cmd[c].result /\ r.pc = "replace" BY <1>0, Fields
    <2>2. Step(c, r) BY <1>11 DEF WriteTemporary
    <2> HIDE DEF r
    <2> QED BY <1>4, <2>1, <2>2
  <1>12. CASE ReplaceFile(c) BY <1>2, <1>12 DEF ReplaceFile
  <1>13. CASE WriteFails(c) BY <1>1, <1>13 DEF WriteFails
  <1>14. CASE Evolve(c)
    <2> DEFINE told == Transitions(cmd[c].states, cmd[c].asked)
    <2>1. Chained(told)
      <3>1. IsSeq(cmd[c].states) BY <1>0, <1>14 DEF Evolve, At, Tells
      <3> QED BY <3>1, TransitionsAreChained
    <2>2. \/ Fail(c)
          \/ Step(c, [Ended(c, "ok") EXCEPT !.result = told])
          \/ Step(c, [cmd[c] EXCEPT !.pc = "output", !.result = told])
      BY <1>14 DEF Evolve
    <2> HIDE DEF told
    <2>3. ASSUME Step(c, [cmd[c] EXCEPT !.pc = "output", !.result = told]) PROVE TellInv'
      <3> DEFINE r == [cmd[c] EXCEPT !.pc = "output", !.result = told]
      <3>1. r.result = told /\ r.pc = "output" BY <1>0, Fields
      <3> HIDE DEF r
      <3>2. Tells(r) BY <2>1, <3>1 DEF Tells
      <3>3. Step(c, r) BY <2>3 DEF r
      <3> QED BY <1>0, <3>2, <3>3, TellStep
    <2> QED BY <1>1, <1>3, <2>1, <2>2, <2>3
  <1>15. CASE WriteEvolution(c) BY <1>2, <1>3, <1>15, NothingTold DEF WriteEvolution
  <1>16. CASE Kill(c) BY <1>3, <1>16, NothingTold DEF Kill
  <1> QED BY <1>5, <1>6, <1>7, <1>8, <1>9, <1>10, <1>11, <1>12, <1>13, <1>14, <1>15, <1>16

\* The transitions `show` reports tell one story, for any history it resolves and
\* any query, whatever happens to the artifacts meanwhile (history/evolution.py:82,
\* 236).
THEOREM ChainTheorem == Spec => []TransitionsChain
  <1>1. Init => TellInv
    <2> SUFFICES ASSUME Init, NEW c \in Commands PROVE Tells(cmd[c]) BY DEF TellInv
    <2>1. cmd[c].result = <<>> /\ cmd[c].pc = "idle" BY DEF Init, Idle
    <2> QED BY <2>1, ToldNothing
  <1>2. IInv /\ TellInv /\ [Next]_vars => TellInv'
    <2>1. ASSUME TellInv, UNCHANGED cmd PROVE TellInv'
      BY <2>1 DEF TellInv, Tells, Chained
    <2>2. ArtifactChanges \/ HistoryChanges \/ UNCHANGED vars => UNCHANGED cmd
      BY DEF ArtifactChanges, HistoryChanges, vars
    <2> QED BY <2>1, <2>2, CommandTells DEF Next
  <1>3. TellInv => TransitionsChain BY DEF TellInv, Tells, Chained, TransitionsChain
  <1> QED BY <1>1, <1>2, <1>3, InductiveInvariant, PTL DEF Spec
====
